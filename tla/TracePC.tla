------------------------------ MODULE TracePC ------------------------------
(***************************************************************************)
(* How libFuzzer turns an execution into features (FuzzerTracePC).  Each   *)
(* loaded module registers its section of 8-bit counters, which is cut     *)
(* into regions at page boundaries; the target's code increments counters  *)
(* and its comparisons set bits of the value profile; CollectFeatures      *)
(* numbers what it finds there.  The counters of a module lie in memory    *)
(* that has other contents before and behind them.                         *)
(***************************************************************************)
EXTENDS Integers, Sequences, FiniteSets, SequencesExt, FiniteSetsExt

CONSTANTS
    Memory,           \* addresses 0 .. Memory - 1
    PageSize,
    Step,             \* sizeof(uintptr_t): bytes looked at together
    Sections,         \* counter sections to register: <<Start, Stop>>
    ExtraCounters,    \* <<ExtraCountersBegin, ExtraCountersEnd>>
    Executions,       \* how often a run may execute a block
    ValueBits,        \* width of compared values: 64
    MapSizeInBits,    \* of the value profile: 2^16
    Compares,         \* what comparisons see: <<PC, Hamming, AbsoluteDistance>>
    MaxModules,       \* 4096
    StackOffsets,     \* what GetMaxStackOffset may return
    UseCounters, UseValueProfile

ASSUME TraceAssumption ==
    /\ \A s \in Sections \cup {ExtraCounters} : s[1] \in 0 .. s[2] /\ s[2] \in Nat /\ s[2] < Memory
    /\ Memory \in Nat /\ PageSize \in Nat \ {0} /\ Step \in Nat \ {0}
    /\ PageSize % Step = 0 /\ Memory % Step = 0
    /\ \A c \in Compares : c[2] \in 0 .. ValueBits /\ c[3] \in 0 .. ValueBits

VARIABLES
    regions,   \* per module its regions, in order of registration
    mem,       \* the bytes of memory
    profile,   \* ValueProfileMap
    stack      \* GetMaxStackOffset

traceVars == <<regions, mem, profile, stack>>

RoundUp(x, n) == ((x + n - 1) \div n) * n
RoundDown(x, n) == (x \div n) * n
Below(m, n) == IF m < n THEN m ELSE n

Bytes8(r) == r[1] .. r[2] - 1
CounterBytes == UNION {UNION {Bytes8(regions[m][r]) : r \in DOMAIN regions[m]} : m \in DOMAIN regions}
ExtraBytes == Bytes8(ExtraCounters)

TraceInit ==
    /\ regions = <<>>
    /\ mem = [a \in 0 .. Memory - 1 |-> 0]
    /\ profile = {} /\ stack = 0

-----------------------------------------------------------------------------
(* HandleInline8bitCountersInit: a partial page, full pages, a partial     *)
(* page.  Without a full page the first region may be empty.               *)
Regions(start, stop) ==
    LET alignedStart == RoundUp(start, PageSize)
        alignedStop == RoundDown(stop, PageSize)
        fullPages == IF alignedStop > alignedStart THEN (alignedStop - alignedStart) \div PageSize ELSE 0
    IN  (IF start < alignedStart \/ fullPages = 0 THEN << <<start, Below(stop, alignedStart)>> >> ELSE <<>>)
        \o [i \in 1 .. fullPages |-> <<alignedStart + (i - 1) * PageSize, alignedStart + i * PageSize>>]
        \o (IF stop > alignedStop /\ alignedStop >= alignedStart THEN << <<alignedStop, stop>> >> ELSE <<>>)

(* An empty section is ignored, and so is one registered again at once.    *)
HandleInline8bitCountersInit(s) ==
    /\ s[1] # s[2]
    /\ regions # <<>> => Last(regions)[1][1] # s[1]
    /\ Len(regions) < MaxModules
    /\ regions' = Append(regions, Regions(s[1], s[2]))
    /\ UNCHANGED <<mem, profile, stack>>

-----------------------------------------------------------------------------
(* A run of the target *)

(* RecordInitialStack and ResetMaps                                        *)
ResetMaps ==
    /\ mem' = [a \in DOMAIN mem |-> IF a \in CounterBytes \cup ExtraBytes THEN 0 ELSE mem[a]]
    /\ profile' = {} /\ stack' = 0
    /\ UNCHANGED regions

(* A block executed n times: its counter is a byte, and wraps.             *)
Execute(a, n) ==
    /\ a \in CounterBytes \cup ExtraBytes /\ mem[a] = 0
    /\ mem' = [mem EXCEPT ![a] = n % 256]
    /\ UNCHANGED <<regions, profile, stack>>

(* The target writes to memory of its own.                                 *)
WriteElsewhere(a) ==
    /\ a \notin UNION {Bytes8(s) : s \in Sections} \cup ExtraBytes
    /\ mem' = [mem EXCEPT ![a] = 1]
    /\ UNCHANGED <<regions, profile, stack>>

(* HandleCmp sets two bits in the map.                                     *)
HandleCmp(c) ==
    /\ profile' = profile \cup {(c[1] * 2 * ValueBits + c[2]) % MapSizeInBits,
                                (c[1] * 2 * ValueBits + ValueBits + c[3]) % MapSizeInBits}
    /\ UNCHANGED <<regions, mem, stack>>

GrowStack(depth) ==
    /\ stack' = depth
    /\ UNCHANGED <<regions, mem, profile>>

-----------------------------------------------------------------------------
(* CollectFeatures *)

(* Mutated form: the last bytes of a region, short of a step, are left.    *)
BytesReadToLastStep(r) ==
    IF RoundUp(r[1], Step) >= r[2] THEN Bytes8(r) ELSE r[1] .. RoundDown(r[2], Step) - 1

(* The bytes ForEachNonZeroByte looks at: single ones up to the alignment  *)
(* boundary, from there on whole steps as long as the step begins before   *)
(* the end.                                                                *)
BytesRead(r) ==
    IF RoundUp(r[1], Step) >= r[2] THEN Bytes8(r) ELSE r[1] .. RoundUp(r[2], Step) - 1

CounterToFeature(n) ==
    CASE n >= 128 -> 7 [] n \in 32 .. 127 -> 6 [] n \in 16 .. 31 -> 5 [] n \in 8 .. 15 -> 4
      [] n \in 4 .. 7 -> 3 [] OTHER -> n - 1

Feature(first, r, a) == first + (IF UseCounters THEN (a - r[1]) * 8 + CounterToFeature(mem[a]) ELSE a - r[1])

RegionFeatures(first, r) == {Feature(first, r, a) : a \in {a \in BytesRead(r) : mem[a] # 0}}

(* The modules in order and in each its regions, the extra counters last;  *)
(* eight numbers a byte.                                                   *)
Collected == Append(regions, <<ExtraCounters>>)
Places == UNION {{<<m, r>> : r \in DOMAIN Collected[m]} : m \in DOMAIN Collected}
RegionAt(p) == Collected[p[1]][p[2]]
Earlier(q, p) == q[1] < p[1] \/ (q[1] = p[1] /\ q[2] < p[2])
Size(r) == r[2] - r[1]
Numbers(places) == 8 * MapThenSumSet(LAMBDA p : Size(RegionAt(p)), places)
FirstFeature(p) == Numbers({q \in Places : Earlier(q, p)})

StackStep(n) ==
    LET log == Max({k \in 0 .. n : 2 ^ k <= n} \cup {0})
    IN  IF log < 3 THEN n ELSE (log - 2) * 8 + ((n \div 2 ^ (log - 3)) % 8)

CounterFeatures == UNION {RegionFeatures(FirstFeature(p), RegionAt(p)) : p \in Places}
ProfileFirst == Numbers(Places)
StackFirst == ProfileFirst + (IF UseValueProfile THEN MapSizeInBits ELSE 0)
CollectFeatures ==
    CounterFeatures
    \cup (IF UseValueProfile THEN {ProfileFirst + b : b \in profile} ELSE {})
    \cup (IF stack # 0 THEN {StackFirst + StackStep(stack \div 8)} ELSE {})

-----------------------------------------------------------------------------
TraceNext ==
    \/ \E s \in Sections : HandleInline8bitCountersInit(s)
    \/ ResetMaps
    \/ \E a \in DOMAIN mem : WriteElsewhere(a) \/ \E n \in Executions : Execute(a, n)
    \/ \E c \in Compares : HandleCmp(c)
    \/ \E depth \in StackOffsets : GrowStack(depth)

TraceSpec == TraceInit /\ [][TraceNext]_traceVars

-----------------------------------------------------------------------------
(* Whatever the alignment of the sections, their regions cover them        *)
(* without gap or overlap, and every byte that was counted shows the one   *)
(* feature of its place and count.  Beyond those, a counter feature comes  *)
(* only from a byte less than a step behind a region.                      *)
OwnFeatures ==
    UNION {{Feature(FirstFeature(p), RegionAt(p), a) : a \in {a \in Bytes8(RegionAt(p)) : mem[a] # 0}} : p \in Places}

Strays ==
    UNION {{Feature(FirstFeature(p), RegionAt(p), a) :
              a \in {a \in RegionAt(p)[2] .. RegionAt(p)[2] + Step - 2 : a < Memory /\ mem[a] # 0}} : p \in Places}

CountersBecomeFeatures ==
    /\ \A m \in DOMAIN regions : \E s \in Sections :
          /\ regions[m][1][1] = s[1] /\ Last(regions[m])[2] = s[2]
          /\ \A r \in 1 .. Len(regions[m]) - 1 : regions[m][r][2] = regions[m][r + 1][1]
    /\ OwnFeatures \subseteq CounterFeatures
    /\ CounterFeatures \subseteq OwnFeatures \cup Strays
=============================================================================
