----------------------------- MODULE Postprocess ------------------------------
(***************************************************************************)
(* PostProcessMessage: the constraints put on a mutated message before it  *)
(* is handed to the target, section by section.  AFL++ calls it again and  *)
(* again in one process; dataNum is a global and survives from call to     *)
(* call.                                                                   *)
(*                                                                         *)
(* A message is [param, apis, lists].  Singular optional fields are        *)
(* sequences of at most one value.  An API call is [dst, srcs, nums,       *)
(* index]: srcs its data indexes, nums its constant or weights, index the  *)
(* rotation; kind tells calls of one or two operands, of a constant, of    *)
(* many operands, weighted sums and rotations apart.  Real numbers are     *)
(* counted in halves.                                                      *)
(***************************************************************************)
EXTENDS NumericHelpers, Sequences, SequencesExt

CONSTANTS
    Inputs,           \* messages as LoadProtoInput parses them
    RandomReals,      \* values GetRandomNum(-1, 1) may return
    MaxNewRepeated,   \* MAX_NEW_REPEATED_SIZE
    MaxRotations      \* rotateIndexed_maxNum

(* The global ranges.                                                      *)
multiplicativeDepth_range == <<1, 5>>
batchSize_range == <<8, 2048>>
ksTech_range == <<1, 2>>
preMode_range == <<0, 1>>
digitSize_range == <<10, 30>>
larger_digitSize_range == <<16, 30>>
standardDeviation_range == <<-200000000, 200000000>>
scalTech_range == <<1, 3>>
firstModSize_range == <<40, 60>>
scalingModSize_range == <<40, 59>>
securityLevel_range == <<0, 1>>
rotateIndex_range == <<-20000, 20000>>
evalData_range == <<-2, 2>>

(* Enumeration values with a meaning to the code.                          *)
INVALID_KS_TECH == 0
HYBRID == 2
NOISE_FLOODING_HRA == 3
HEStd_256_classic == 2
HEStd_NotSet == 3
STANDARD == 0

ApiKinds == {"two", "constant", "many", "weighted", "rotate", "none"}
Reals == Int \cup {NaN, Infinity}
Optional(S) == {s \in Seq(S) : Len(s) <= 1}

Parameters ==
    [multiplicativeDepth : Optional(Nat), batchSize : Optional(Nat), ksTech : Optional(Nat),
     PREMode : Optional(Nat), digitSize : Nat, standardDeviation : Optional(Reals),
     scalTech : Optional(Nat), firstModSize : Optional(Nat), scalingModSize : Optional(Nat),
     numLargeDigits : Nat, securityLevel : Nat, ringDim : Nat, encryptionTechnique : Nat,
     rotateIndexes : Seq(Int)]

Apis == [kind : ApiKinds, dst : Nat, srcs : Seq(Nat), nums : Seq(Reals), index : Seq(Int)]

Messages == [param : Parameters, apis : Seq(Apis), lists : Seq(Seq(Reals))]

ASSUME PostprocessAssumption ==
    /\ Inputs \subseteq Messages
    /\ RandomReals # {} /\ RandomReals \subseteq evalData_range[1] .. evalData_range[2]
    /\ MaxNewRepeated \in Nat \ {0}
    /\ MaxRotations \in Nat

VARIABLES
    pc,       \* the section that comes next
    msg,      \* the message
    next,     \* the API call that comes next
    dataNum   \* the global of that name

vars == <<pc, msg, next, dataNum>>

(* A message as constructed: nothing set.                                  *)
NoMessage ==
    [param |-> [multiplicativeDepth |-> <<>>, batchSize |-> <<>>, ksTech |-> <<>>,
                PREMode |-> <<>>, digitSize |-> 0, standardDeviation |-> <<>>,
                scalTech |-> <<>>, firstModSize |-> <<>>, scalingModSize |-> <<>>,
                numLargeDigits |-> 0, securityLevel |-> 0, ringDim |-> 0,
                encryptionTechnique |-> 0, rotateIndexes |-> <<>>],
     apis |-> <<>>, lists |-> <<>>]

Init == pc = "idle" /\ msg = NoMessage /\ next = 1 /\ dataNum = 0

Clamped(s, range) == [i \in DOMAIN s |-> clampToRange(s[i], range)]
ClampedReals(s, range) == [i \in DOMAIN s |-> clampReal(s[i], range)]

(* A call of afl_custom_post_process.                                      *)
Receive ==
    /\ pc = "idle"
    /\ msg' \in Inputs
    /\ pc' = "param"
    /\ UNCHANGED <<next, dataNum>>

-----------------------------------------------------------------------------
(* Parameters.                                                             *)

(* Unset reads as 0, and as 1 for the depth.                               *)
Value(s) == IF s = <<>> THEN 0 ELSE s[1]
Depth(s) == IF s = <<>> THEN 1 ELSE s[1]

(* The range of digitSize goes by the depth, as clamped; no mode leaves the*)
(* digit size to HYBRID switching, for PREMode has been clamped by now.    *)
DigitSize(p, depth) ==
    IF Value(p.ksTech) = HYBRID /\ Value(p.PREMode) = NOISE_FLOODING_HRA THEN 0
    ELSE clampToRange(p.digitSize, IF depth = multiplicativeDepth_range[2]
                                   THEN larger_digitSize_range ELSE digitSize_range)

(* Slip: the size below is not brought back into the range.                *)
ScalingModSizeBelow(first, scaling) ==
    [i \in DOMAIN scaling |->
        LET size == clampToRange(scaling[i], scalingModSize_range)
        IN  IF size = Value(first) THEN size - 1 ELSE size]

(* A set scalingModSize gives way to firstModSize.                         *)
ScalingModSize(first, scaling) ==
    [i \in DOMAIN scaling |->
        LET size == clampToRange(scaling[i], scalingModSize_range)
        IN  IF size = Value(first) THEN clampToRange(size - 1, scalingModSize_range) ELSE size]

(* The parameters as they leave, given the three random choices and the    *)
(* depth that the digit size goes by.                                      *)
ParamFor(p, batch, ks, security, depth) ==
    LET mode == Clamped(p.PREMode, preMode_range)
        first == Clamped(p.firstModSize, firstModSize_range)
    IN  [p EXCEPT
            !.multiplicativeDepth = Clamped(@, multiplicativeDepth_range),
            !.batchSize = batch, !.ksTech = ks, !.PREMode = mode,
            !.digitSize = DigitSize([p EXCEPT !.ksTech = ks, !.PREMode = mode], depth),
            !.standardDeviation = ClampedReals(@, standardDeviation_range),
            !.scalTech = Clamped(@, scalTech_range),
            !.firstModSize = first,
            !.scalingModSize = ScalingModSize(first, @),
            !.numLargeDigits = 0,
            !.securityLevel = security,
            !.ringDim = 0]

(* Slip: the digit size goes by the depth that came in.                    *)
ParamDepthLate(p, batch, ks, security) ==
    ParamFor(p, batch, ks, security, Depth(p.multiplicativeDepth))

Param(p, batch, ks, security) ==
    ParamFor(p, batch, ks, security,
             Depth(Clamped(p.multiplicativeDepth, multiplicativeDepth_range)))

(* Slip: the size is reduced first and clamped then.                       *)
BatchSizesReducedFirst(size) ==
    {Clamped([i \in DOMAIN size |-> reduceToPowerOfTwo(size[i])], batchSize_range)}

(* A set batchSize becomes a power of two, or 0 at random.                 *)
BatchSizes(size) ==
    LET clamped == Clamped(size, batchSize_range)
    IN  {[i \in DOMAIN size |-> reduceToPowerOfTwo(v)] : v \in Range(clamped) \cup {0}}

(* An invalid key switch technique and the security levels not wanted are  *)
(* drawn anew.                                                             *)
PostParam ==
    /\ pc = "param"
    /\ \E batch \in BatchSizes(msg.param.batchSize),
          ks \in IF msg.param.ksTech = <<INVALID_KS_TECH>>
                 THEN {<<k>> : k \in ksTech_range[1] .. ksTech_range[2]}
                 ELSE {msg.param.ksTech},
          security \in IF msg.param.securityLevel \in {HEStd_NotSet, HEStd_256_classic}
                       THEN securityLevel_range[1] .. securityLevel_range[2]
                       ELSE {msg.param.securityLevel} :
          msg' = [msg EXCEPT !.param = Param(@, batch, ks, security)]
    /\ pc' = "rotate"
    /\ UNCHANGED <<next, dataNum>>

-----------------------------------------------------------------------------
(* Rotation indexes: those of the API calls and those listed for key       *)
(* generation, of which at most MaxRotations are kept.                     *)

ClampedRotation(a) == [a EXCEPT !.index = Clamped(@, rotateIndex_range)]

Kept(p) ==
    Clamped(SubSeq(p.rotateIndexes, 1,
                   IF Len(p.rotateIndexes) < MaxRotations THEN Len(p.rotateIndexes)
                   ELSE MaxRotations), rotateIndex_range)

Used(apis) == UNION {Range(apis[i].index) : i \in DOMAIN apis}

(* The order of the map's keys.                                            *)
Ascending(S) ==
    CHOOSE s \in [1 .. Cardinality(S) -> S] : \A i, j \in DOMAIN s : i < j => s[i] < s[j]

(* Slip: an index that is listed already is not crossed off.               *)
PostRotateAll ==
    /\ pc = "rotate"
    /\ LET apis == [i \in DOMAIN msg.apis |-> ClampedRotation(msg.apis[i])]
       IN  \E more \in SUBSET Used(apis) :
              msg' = [msg EXCEPT !.apis = apis,
                                 !.param.rotateIndexes = Kept(msg.param) \o Ascending(more),
                                 !.param.encryptionTechnique = STANDARD]
    /\ pc' = "evalData"
    /\ UNCHANGED <<next, dataNum>>

(* Each index in use and not listed is added, with probability 200/201, in *)
(* the order of the map.                                                   *)
PostRotate ==
    /\ pc = "rotate"
    /\ LET apis == [i \in DOMAIN msg.apis |-> ClampedRotation(msg.apis[i])]
           kept == Kept(msg.param)
       IN  \E more \in SUBSET (Used(apis) \ Range(kept)) :
              msg' = [msg EXCEPT !.apis = apis,
                                 !.param.rotateIndexes = kept \o Ascending(more),
                                 !.param.encryptionTechnique = STANDARD]
    /\ pc' = "evalData"
    /\ UNCHANGED <<next, dataNum>>

-----------------------------------------------------------------------------
(* Data: every number clamped; a list of random numbers if there is none.  *)
PostEvalData ==
    /\ pc = "evalData"
    /\ LET lists == [i \in DOMAIN msg.lists |-> ClampedReals(msg.lists[i], evalData_range)]
       IN  IF lists # <<>> THEN msg' = [msg EXCEPT !.lists = lists]
           ELSE \E new \in [1 .. MaxNewRepeated -> RandomReals] :
                   msg' = [msg EXCEPT !.lists = <<new>>]
    /\ pc' = "count"
    /\ UNCHANGED <<next, dataNum>>

(* Slip: dataNum computed once and kept for later messages.                *)
CountDataOnce ==
    /\ pc = "count"
    /\ dataNum' = IF dataNum = 0 THEN Len(msg.lists) ELSE dataNum
    /\ next' = 1 /\ pc' = "api"
    /\ UNCHANGED msg

CountData ==
    /\ pc = "count"
    /\ dataNum' = Len(msg.lists)
    /\ next' = 1 /\ pc' = "api"
    /\ UNCHANGED msg

-----------------------------------------------------------------------------
(* API calls, one by one.                                                  *)

(* "If there is no data to be computed, the API will not be invoked."      *)
apiSrcAndDstClampToRange(v) ==
    IF dataNum = 0 THEN v ELSE clampToRange(v, <<0, dataNum - 1>>)

ClampedApi(a) ==
    [a EXCEPT !.dst = apiSrcAndDstClampToRange(@),
              !.srcs = [i \in DOMAIN @ |-> apiSrcAndDstClampToRange(@[i])],
              !.nums = ClampedReals(@, evalData_range)]

(* What the shorter one of the operands and the weights of a sum lacks,    *)
(* drawn at random from S; nothing for other calls.                        *)
Missing(a, n, S) == [1 .. IF a.kind = "weighted" THEN n ELSE 0 -> S]

Padded(a, s, w) == [a EXCEPT !.srcs = @ \o s, !.nums = @ \o w]

(* Slip: only the weights are padded.                                      *)
PostApiWeights ==
    /\ pc = "api" /\ next <= Len(msg.apis)
    /\ LET a == ClampedApi(msg.apis[next])
       IN  \E w \in Missing(a, Len(a.srcs) - Len(a.nums), RandomReals) :
              msg' = [msg EXCEPT !.apis[next] = Padded(a, <<>>, w)]
    /\ next' = next + 1
    /\ UNCHANGED <<pc, dataNum>>

PostApi ==
    /\ pc = "api" /\ next <= Len(msg.apis)
    /\ LET a == ClampedApi(msg.apis[next])
       IN  \E s \in Missing(a, Len(a.nums) - Len(a.srcs), 0 .. dataNum - 1),
              w \in Missing(a, Len(a.srcs) - Len(a.nums), RandomReals) :
              msg' = [msg EXCEPT !.apis[next] = Padded(a, s, w)]
    /\ next' = next + 1
    /\ UNCHANGED <<pc, dataNum>>

(* The message is serialised and returned.                                 *)
Serialise ==
    /\ pc = "api" /\ next > Len(msg.apis)
    /\ pc' = "done"
    /\ UNCHANGED <<msg, next, dataNum>>

(* Slip: a message and an iterator that outlive the call.                  *)
ReturnKeeping ==
    /\ pc = "done"
    /\ pc' = "idle"
    /\ UNCHANGED <<msg, next, dataNum>>

(* The message was local to the call.                                      *)
Return ==
    /\ pc = "done"
    /\ pc' = "idle" /\ msg' = NoMessage /\ next' = 1
    /\ UNCHANGED dataNum

Next ==
    \/ Receive \/ PostParam \/ PostRotate \/ PostEvalData \/ CountData
    \/ PostApi \/ Serialise \/ Return

Spec == Init /\ [][Next]_vars

-----------------------------------------------------------------------------
Done == pc = "done"

TypeOK ==
    /\ pc \in {"idle", "param", "rotate", "evalData", "count", "api", "done"}
    /\ msg \in Messages
    /\ next \in 1 .. Len(msg.apis) + 1
    /\ dataNum \in Nat

(* Every operand and destination of an API call that leaves refers to data *)
(* of the same message, and there is data.                                 *)
ApiRefsInRange ==
    Done =>
        /\ msg.lists # <<>>
        /\ \A i \in DOMAIN msg.apis :
              Range(msg.apis[i].srcs) \cup {msg.apis[i].dst} \subseteq 0 .. Len(msg.lists) - 1

(* A weighted sum leaves with as many weights as operands, though the two  *)
(* lists were mutated independently of each other.                         *)
WeightsPaired ==
    Done => \A i \in DOMAIN msg.apis :
        msg.apis[i].kind = "weighted" => Len(msg.apis[i].srcs) = Len(msg.apis[i].nums)

(* The digit size that leaves fits the depth that leaves with it.          *)
DigitSizeFitsDepth ==
    Done => Within(IF Depth(msg.param.multiplicativeDepth) = multiplicativeDepth_range[2]
                   THEN larger_digitSize_range ELSE digitSize_range, msg.param.digitSize)

(* Both sizes set, they leave within their ranges and different.           *)
SetModSizesDiffer ==
    Done => \A first \in Range(msg.param.firstModSize),
               scaling \in Range(msg.param.scalingModSize) :
                  /\ first # scaling
                  /\ Within(firstModSize_range, first)
                  /\ Within(scalingModSize_range, scaling)

(* The rotation indexes that leave are distinct, within range, and beyond  *)
(* the ones kept all in use.                                               *)
RotationsDistinct ==
    Done =>
        LET r == msg.param.rotateIndexes
        IN  /\ \A i, j \in DOMAIN r : i # j => r[i] # r[j]
            /\ \A i \in DOMAIN r : Within(rotateIndex_range, r[i])
            /\ \A i \in DOMAIN r : i > MaxRotations => r[i] \in Used(msg.apis)

(* The batch size that was clamped becomes "the largest power of 2 that is *)
(* less than or equal to it" (openfhe_ckks_postprocess.h:54), or 0.        *)
LargestPower ==
    [][pc = "param" =>
        \A i \in DOMAIN msg.param.batchSize :
            \/ IsReduced(Clamped(msg.param.batchSize, batchSize_range)[i], msg'.param.batchSize[i])
            \/ msg'.param.batchSize[i] = 0]_vars

(* "FirstModSize can't be equal to scalingModSize"                         *)
(* (proto/openfhe_ckks.proto:270), where 60 and 59 are the defaults of the *)
(* library for a size that is not set (lines 263 and 274).                 *)
ModSizesDiffer ==
    Done => LET size(s, default) == IF s = <<>> THEN default ELSE s[1]
            IN  size(msg.param.firstModSize, 60) # size(msg.param.scalingModSize, 59)

(* clampToRange: "limit value into [range[0], range[1]]"                   *)
(* (openfhe_ckks_postprocess.h:28), for the data of the message.           *)
DataInRange ==
    Done => \A i \in DOMAIN msg.lists : \A x \in Range(msg.lists[i]) :
                x \notin {NaN, Infinity} /\ Within(evalData_range, x)
=============================================================================
