---------------------------- MODULE ByteMutations ----------------------------
(***************************************************************************)
(* libFuzzer's MutationDispatcher (FuzzerMutate.cpp, FuzzerCrossOver.cpp,  *)
(* FuzzerDictionary.h).  A sequence of mutations starts from a unit of the *)
(* corpus; each mutation takes a mutator by chance until one succeeds; a   *)
(* sequence that led to something new leaves the dictionary words it used  *)
(* in the persistent dictionary.  The sequence names its words by pointers *)
(* into the dictionaries and into a ring of recent words from comparisons. *)
(*                                                                         *)
(* What a changed byte or integer becomes is left open (a bit, a digit, an *)
(* added or negated number): no property depends on it.  Position hints    *)
(* choose among the places that are drawn from anyway, and the counts of   *)
(* uses are only printed.                                                  *)
(***************************************************************************)
EXTENDS Subsequences, Integers, SequencesExt

CONSTANTS
    Bytes, Digits, Space,            \* bytes, those that are digits, and ' '
    Units,                           \* units of the corpus
    ManualDictionary,                \* sequence of words (sequences of bytes)
    CmpWords,                        \* words the recent comparisons offer
    CustomResults,                   \* what LLVMFuzzerCustomMutator and CustomCrossOver return
    MaxMutationLen,
    IntSizes,                        \* widths of integers in bytes: 1, 2, 4, 8
    kMinBytesToInsert,               \* 3
    kCmpDictionaryEntriesDequeSize,  \* 16
    kMaxDictSize,                    \* 2^14
    MaxMutations                     \* bound: mutations in a sequence

ASSUME MutationsAssumption ==
    /\ Digits \subseteq Bytes /\ Space \in Bytes
    /\ \A u \in Units : u # <<>> /\ Len(u) <= MaxMutationLen
    /\ \A w \in Range(ManualDictionary) \cup CmpWords : w # <<>>
    /\ kCmpDictionaryEntriesDequeSize \in Nat \ {0} /\ kMaxDictSize \in Nat

VARIABLES
    data,        \* the unit being mutated
    limit,       \* MaxSize of the call
    other,       \* CrossOverWith, <<>> for none
    scratch,     \* MutateInPlaceHere
    persistent,  \* words of PersistentAutoDictionary
    ring,        \* words of CmpDictionaryEntriesDeque
    ringIdx,     \* CmpDictionaryEntriesDequeIdx
    entries,     \* CurrentDictionaryEntrySequence: pointers
    applied,     \* the words applied in this sequence (history)
    mutations    \* mutations in this sequence

dispatcherVars == <<data, limit, other, scratch, persistent, ring, ringIdx, entries, applied, mutations>>

(* Rand(n) is below n, and 0 for n = 0.                                    *)
Rand(n) == IF n = 0 THEN {0} ELSE 0 .. n - 1
Part(s, from, n) == SubSeq(s, from + 1, from + n)
Insert(s, at, w) == Part(s, 0, at) \o w \o SubSeq(s, at + 1, Len(s))
Overwrite(s, at, w) == Part(s, 0, at) \o w \o SubSeq(s, at + Len(w) + 1, Len(s))
Zeros(n) == [i \in 1 .. n |-> 0]
Resize(s, n) == IF Len(s) >= n THEN Part(s, 0, n) ELSE s \o Zeros(n - Len(s))
Repeated(b, n) == [i \in 1 .. n |-> b]
AtMost(m, n) == IF m < n THEN m ELSE n

-----------------------------------------------------------------------------
(* The mutators: the results for data d and MaxSize max, none on failure.  *)

ShuffleBytes(d, max) ==
    UNION {UNION {{Overwrite(d, at, [i \in 1 .. n |-> d[at + p[i]]]) : p \in Permutations(1 .. n)} :
                     at \in Rand(Len(d) - n)} : n \in 1 .. AtMost(Len(d), 8)}

EraseBytes(d, max) ==
    UNION {{Part(d, 0, at) \o SubSeq(d, at + n + 1, Len(d)) : at \in 0 .. Len(d) - n} : n \in 1 .. Len(d) \div 2}

InsertByte(d, max) ==
    IF Len(d) >= max THEN {} ELSE {Insert(d, at, <<b>>) : at \in 0 .. Len(d), b \in Bytes}

InsertRepeatedBytes(d, max) ==
    IF Len(d) + kMinBytesToInsert >= max THEN {}
    ELSE {Insert(d, at, Repeated(b, n)) :
             at \in 0 .. Len(d), b \in Bytes, n \in kMinBytesToInsert .. AtMost(max - Len(d), 128)}

ChangeByte(d, max) == {Overwrite(d, at, <<b>>) : at \in Rand(Len(d)), b \in Bytes}
ChangeBit(d, max) == {[d EXCEPT ![i] = b] : i \in DOMAIN d, b \in Bytes}

(* A number is a run of digits, from any place in it on.                   *)
ChangeASCIIInteger(d, max) ==
    {e \in [DOMAIN d -> Bytes] : \E i, j \in DOMAIN d :
        /\ i <= j /\ (j = Len(d) \/ d[j + 1] \notin Digits)
        /\ \A k \in DOMAIN d : IF k \in i .. j THEN d[k] \in Digits /\ e[k] \in Digits ELSE e[k] = d[k]}

ChangeBinaryInteger(d, max) ==
    UNION {{Overwrite(d, at, w) : at \in 0 .. Len(d) - n, w \in [1 .. n -> Bytes]} : n \in {n \in IntSizes : n <= Len(d)}}

CopyPartOf(from, to) ==
    UNION {UNION {{Overwrite(to, at, Part(from, beg, AtMost(n, Len(from)))) : beg \in 0 .. Len(from) - AtMost(n, Len(from))} :
                     n \in 1 .. Len(to) - at} : at \in 0 .. Len(to) - 1}

InsertedParts(from, n) == {Part(from, beg, n) : beg \in 0 .. Len(from) - n}
InsertPartOf(from, to, max) ==
    IF Len(to) >= max THEN {}
    ELSE UNION {{[part |-> w, data |-> Insert(to, at, w)] : w \in InsertedParts(from, n), at \in 0 .. Len(to)} :
                   n \in 1 .. AtMost(max - Len(to), Len(from))}

(* CrossOver takes pieces of both, in order and in turn, the first one     *)
(* first, until both or the drawn size are used up.                        *)
CrossOver(d, o, max) ==
    UNION {{[i \in 1 .. n |-> IF i \in mine THEN d[Cardinality(mine \cap 1 .. i)] ELSE o[i - Cardinality(mine \cap 1 .. i)]] :
               mine \in {s \in SUBSET (1 .. n) : 1 \in s /\ Cardinality(s) <= Len(d) /\ n - Cardinality(s) <= Len(o)}} :
              n \in 1 .. AtMost(max, Len(d) + Len(o))}

ApplyDictionaryEntry(d, max, w) ==
    (IF Len(d) + Len(w) > max THEN {} ELSE {Insert(d, at, w) : at \in 0 .. Len(d)})
    \cup (IF Len(w) > Len(d) THEN {} ELSE {Overwrite(d, at, w) : at \in Rand(Len(d) - Len(w))})

-----------------------------------------------------------------------------
(* Outcomes of one attempt: the data, the scratch buffer, and the word     *)
(* used with the dictionary it is from.                                    *)

Outcome(new, buffer, from, at, w) == [data |-> new, scratch |-> buffer, from |-> from, at |-> at, word |-> w]
Plain(S) == {Outcome(s, scratch, "none", 0, <<>>) : s \in S}

(* InsertPartOf within one buffer goes through MutateInPlaceHere.          *)
CopyPart(d, max) ==
    Plain(CopyPartOf(d, d))
    \cup {Outcome(r.data, Overwrite(Resize(scratch, max), 0, r.part), "none", 0, <<>>) : r \in InsertPartOf(d, d, max)}

(* Of the three ways to cross over, the second fails to insert into a      *)
(* buffer of full size and then does what the third does: part of the      *)
(* other unit is copied over what an earlier mutation left in the buffer.  *)
MutateCrossOver(d, max) ==
    IF other = <<>> THEN {}
    ELSE LET buffer == Resize(scratch, max)
         IN  {Outcome(s, Overwrite(buffer, 0, s), "none", 0, <<>>) : s \in CrossOver(d, other, max)}
             \cup {Outcome(s, s, "none", 0, <<>>) : s \in CopyPartOf(other, buffer)}

AddWordFrom(name, words, d, max) ==
    UNION {{Outcome(s, scratch, name, i, words[i]) : s \in ApplyDictionaryEntry(d, max, words[i])} : i \in DOMAIN words}

AddWordFromTORC(d, max) ==
    UNION {{Outcome(s, scratch, "cmp", ringIdx, w) : s \in ApplyDictionaryEntry(d, max, w)} : w \in CmpWords}

(* Data larger than MaxSize (minimizing starts so) is only shortened; a    *)
(* word of a comparison may be written into it, but that counts as failed. *)
Attempts(d, max) ==
    Plain(EraseBytes(d, max) \cup CustomResults) \cup AddWordFromTORC(d, max)
    \cup IF Len(d) > max THEN {}
         ELSE Plain(UNION {ShuffleBytes(d, max), InsertByte(d, max), InsertRepeatedBytes(d, max), ChangeByte(d, max),
                           ChangeBit(d, max), ChangeASCIIInteger(d, max), ChangeBinaryInteger(d, max)})
              \cup CopyPart(d, max) \cup MutateCrossOver(d, max)
              \cup AddWordFrom("manual", ManualDictionary, d, max)
              \cup AddWordFrom("persistent", persistent, d, max)

Succeeds(o, max) == Len(o.data) \in 1 .. max

(* After a hundred failed attempts the data becomes one space.             *)
Mutated(d, max) == {o \in Attempts(d, max) : Succeeds(o, max)} \cup Plain({<<Space>>})

(* Mutated form: the ring never moves on.                                  *)
NoteWordAtOnePlace(o) ==
    /\ entries' = IF o.from = "none" THEN entries ELSE Append(entries, <<o.from, o.at>>)
    /\ applied' = IF o.from = "none" THEN applied ELSE Append(applied, o.word)
    /\ ring' = IF o.from = "cmp" THEN [ring EXCEPT ![ringIdx] = o.word] ELSE ring
    /\ UNCHANGED ringIdx

(* The word is appended to the sequence by a pointer; a word of a          *)
(* comparison goes to the next place of the ring first.                    *)
NoteWord(o) ==
    /\ entries' = IF o.from = "none" THEN entries ELSE Append(entries, <<o.from, o.at>>)
    /\ applied' = IF o.from = "none" THEN applied ELSE Append(applied, o.word)
    /\ IF o.from = "cmp"
       THEN ring' = [ring EXCEPT ![ringIdx] = o.word] /\ ringIdx' = (ringIdx + 1) % kCmpDictionaryEntriesDequeSize
       ELSE UNCHANGED <<ring, ringIdx>>

Word(e) ==
    CASE e[1] = "manual" -> ManualDictionary[e[2]]
      [] e[1] = "persistent" -> persistent[e[2]]
      [] e[1] = "cmp" -> ring[e[2]]

-----------------------------------------------------------------------------
MutationsInit ==
    /\ data = <<>> /\ limit = MaxMutationLen
    /\ other = <<>>
    /\ scratch = <<>>
    /\ persistent = <<>>
    /\ ring = [i \in 0 .. kCmpDictionaryEntriesDequeSize - 1 |-> <<>>] /\ ringIdx = 0
    /\ entries = <<>> /\ applied = <<>>
    /\ mutations = 0

(* MutateAndTestOne allows at least the size of the unit, MinimizeCrash    *)
(* one byte less.                                                          *)
StartMutationSequence ==
    /\ data' \in Units
    /\ limit' \in {MaxMutationLen} \cup ({Len(data') - 1} \ {0})
    /\ other' \in Units \cup {<<>>}
    /\ entries' = <<>> /\ applied' = <<>>
    /\ mutations' = 0
    /\ UNCHANGED <<scratch, persistent, ring, ringIdx>>

InSequence == data # <<>> /\ mutations < MaxMutations

MutateImpl ==
    /\ InSequence
    /\ \E o \in Mutated(data, limit) :
          /\ data' = o.data /\ scratch' = o.scratch
          /\ NoteWord(o)
    /\ mutations' = mutations + 1
    /\ UNCHANGED <<limit, other, persistent>>

FailedAttempt ==
    /\ InSequence
    /\ \E o \in AddWordFromTORC(data, limit) :
          /\ ~Succeeds(o, limit)
          /\ data' = o.data
          /\ NoteWord(o)
    /\ mutations' = mutations + 1    \* bound
    /\ UNCHANGED <<limit, other, scratch, persistent>>

(* Only the bytes in the mask take part, and all of them are put back.     *)
MutateWithMask ==
    /\ InSequence /\ Len(data) <= limit
    /\ \E mask \in (SUBSET DOMAIN data) \ {{}} :
          LET T == Kept(data, mask)
          IN  \E o \in Mutated(T, Len(T)) :
                 /\ data' = [k \in DOMAIN data |-> IF k \in mask THEN Overwrite(T, 0, o.data)[Cardinality(mask \cap 1 .. k)]
                                                   ELSE data[k]]
                 /\ scratch' = o.scratch
                 /\ NoteWord(o)
    /\ mutations' = mutations + 1
    /\ UNCHANGED <<limit, other, persistent>>

(* Where the sequence uses a word for the first time that the persistent   *)
(* dictionary does not have.                                               *)
NewWords ==
    {i \in DOMAIN entries : /\ ~Contains(persistent, Word(entries[i]))
                            /\ \A j \in 1 .. i - 1 : Word(entries[j]) # Word(entries[i])}

(* The new words are appended in order, as many as there is room for.      *)
RecordSuccessfulMutationSequence ==
    /\ data # <<>> /\ mutations > 0
    /\ LET new == NewWords
           n == AtMost(Cardinality(new), kMaxDictSize - Len(persistent))
       IN  persistent' = persistent \o [i \in 1 .. n |-> Word(entries[InOrder(new, i)])]
    /\ data' = <<>>
    /\ entries' = <<>> /\ applied' = <<>> /\ mutations' = 0
    /\ UNCHANGED <<limit, other, scratch, ring, ringIdx>>

MutationsNext ==
    \/ StartMutationSequence \/ MutateImpl \/ FailedAttempt \/ MutateWithMask
    \/ RecordSuccessfulMutationSequence

MutationsSpec == MutationsInit /\ [][MutationsNext]_dispatcherVars

-----------------------------------------------------------------------------
CmpAfter(i) == {j \in i + 1 .. Len(entries) : entries[j][1] = "cmp"}

(* A pointer of the current sequence still leads to the word that was      *)
(* applied, unless as many words of comparisons followed as the ring has   *)
(* places; the persistent dictionary has no word twice.                    *)
PointersKeepTheirWords ==
    /\ \A i \in DOMAIN entries :
          Cardinality(CmpAfter(i)) < kCmpDictionaryEntriesDequeSize => Word(entries[i]) = applied[i]
    /\ IsInjective(persistent) /\ Len(persistent) <= kMaxDictSize
=============================================================================
