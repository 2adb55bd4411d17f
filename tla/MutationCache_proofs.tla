------------------------ MODULE MutationCache_proofs -------------------------
(* For every codec that satisfies CodecAssumption and every mutator: the   *)
(* cache stays coherent, serves the bytes it was filled for, and cannot be *)
(* told from parsing.                                                      *)
EXTENDS MutationCache, TLAPS

(* The inductive invariant.  TypeOK makes the entry a message; coherence   *)
(* is what the refinement needs at a hit; FirstLoadHits is inductive only  *)
(* together with them.                                                     *)
IInv == TypeOK /\ CacheCoherent /\ FirstLoadHits

(* Read always yields a message: the parsed one or the cleared one.        *)
LEMMA ReadIsMessage == ASSUME NEW b \in Buffers PROVE Read(b) \in Messages
  BY CodecAssumption DEF Read

(* A write reports the length of the encoding or 0.                        *)
LEMMA WrittenBound ==
    ASSUME NEW m \in Messages
    PROVE  /\ Written(m) \in Nat
           /\ Written(m) > 0 => /\ Written(m) = ByteLen[Encoding[m]]
                                /\ Written(m) \in 1 .. MaxSize
  <1>1. Encoding[m] \in Buffers BY CodecAssumption
  <1>2. ByteLen[Encoding[m]] \in Nat BY <1>1, CodecAssumption
  <1>3. MaxSize \in Nat BY MutatorAssumption
  <1> QED BY <1>2, <1>3 DEF Written

(* What a successful mutation does to the cache; used for both hooks.      *)
LEMMA WriteAndStorePreserves ==
    ASSUME IInv, NEW m \in Messages, WriteAndStore(m)
    PROVE  IInv'
  <1>1. Encoding[m] \in Buffers /\ EmptyMessage \in Messages /\ NoMessage \notin Messages
    BY CodecAssumption
  <1>2. CASE Written(m) > 0
    <2>1. Written(m) = ByteLen[Encoding[m]] /\ Written(m) \in 1 .. MaxSize
      BY <1>2, WrittenBound
    <2>2. answer' = [hook |-> "fuzz", size |-> Written(m), bytes |-> Encoding[m]]
      BY <1>2 DEF WriteAndStore, FuzzAnswer
    <2>3. cachedData' = Encoding[m] /\ cachedMessage' = m /\ unread' = Encoding[m]
          /\ argument' \in Messages
      BY <1>1, <1>2 DEF WriteAndStore, Store, IInv, TypeOK
    <2>4. TypeOK' BY <1>1, <2>1, <2>2, <2>3 DEF TypeOK
    <2>5. CacheCoherent' BY <1>1, <2>1, <2>3 DEF CacheCoherent
    <2>6. FirstLoadHits' BY <1>1, <2>3 DEF FirstLoadHits, Same
    <2> QED BY <2>4, <2>5, <2>6 DEF IInv
  <1>3. CASE ~(Written(m) > 0)
    <2>1. answer' = [hook |-> "fuzz", size |-> 0]
      BY <1>3 DEF WriteAndStore, FuzzAnswer
    <2>2. argument' = m /\ UNCHANGED <<cachedData, cachedMessage, unread>>
      BY <1>3 DEF WriteAndStore
    <2>3. TypeOK' BY <2>1, <2>2 DEF IInv, TypeOK
    <2> QED BY <2>2, <2>3 DEF IInv, CacheCoherent, FirstLoadHits, Same
  <1> QED BY <1>2, <1>3

(* A hit empties the cache; only the entry's own bytes can hit, so no      *)
(* unread output is lost.                                                  *)
LEMMA LoadPreserves ==
    ASSUME IInv, NEW b \in Buffers, LoadProtoInput(b)
    PROVE  IInv'
  <1>1. NoBytes \notin Buffers BY NoBytesAssumption
  <1>2. CASE LoadCached(b)
    <2>1. TypeOK'
      BY <1>2 DEF LoadProtoInput, LoadCached, Same, PostAnswer, IInv, TypeOK
    <2>2. CacheCoherent' BY <1>2 DEF LoadCached, CacheCoherent
    <2>3. unread' = NoBytes
      BY <1>2 DEF LoadProtoInput, LoadCached, Same, IInv, FirstLoadHits
    <2> QED BY <2>1, <2>2, <2>3 DEF IInv, FirstLoadHits
  <1>3. CASE LoadParsed(b)
    <2>1. Decoding[b] \in Messages \cup {NoMessage} BY CodecAssumption
    <2>2. TypeOK'
      BY <1>3, <2>1, ReadIsMessage DEF LoadProtoInput, LoadParsed, PostAnswer, IInv, TypeOK
    <2>3. UNCHANGED <<cachedData, cachedMessage>> BY <1>3 DEF LoadParsed
    <2>4. unread' \in {unread, NoBytes} BY DEF LoadProtoInput
    <2> QED BY <2>2, <2>3, <2>4 DEF IInv, CacheCoherent, FirstLoadHits, Same
  <1> QED BY <1>2, <1>3 DEF LoadProtoInput

(* The hooks keep the types of their state, the cache entry always matches *)
(* its bytes, and the first load of produced bytes always hits.            *)
THEOREM CacheInvariance == CacheSpec => [](TypeOK /\ CacheCoherent /\ FirstLoadHits)
  <1>1. CacheInit => IInv
    <2> SUFFICES ASSUME CacheInit PROVE IInv OBVIOUS
    <2>1. TypeOK BY CodecAssumption DEF CacheInit, Init, TypeOK
    <2> QED BY <2>1 DEF CacheInit, IInv, CacheCoherent, FirstLoadHits
  <1>2. IInv /\ [CacheNext]_vars => IInv'
    <2> SUFFICES ASSUME IInv, [CacheNext]_vars PROVE IInv' OBVIOUS
    <2>1. CASE UNCHANGED vars
      BY <2>1 DEF vars, IInv, TypeOK, CacheCoherent, FirstLoadHits, Same
    <2>2. ASSUME NEW b \in Buffers, MutateMessage(b) PROVE IInv'
      <3>1. Mutants[Read(b)] \subseteq Messages BY ReadIsMessage, MutatorAssumption
      <3> QED BY <2>2, <3>1, WriteAndStorePreserves DEF MutateMessage
    <2>3. ASSUME NEW b \in Buffers, NEW add \in Buffers, CrossOverMessages(b, add)
          PROVE IInv'
      <3>1. <<Read(b), Read(add)>> \in Messages \X Messages BY ReadIsMessage
      <3>2. Offspring[<<Read(b), Read(add)>>] \subseteq Messages
        BY <3>1, MutatorAssumption
      <3> QED BY <2>3, <3>2, WriteAndStorePreserves DEF CrossOverMessages
    <2>4. ASSUME NEW b \in Buffers, LoadProtoInput(b) PROVE IInv'
      BY <2>4, LoadPreserves
    <2> QED BY <2>1, <2>2, <2>3, <2>4 DEF CacheNext
  <1>3. IInv => TypeOK /\ CacheCoherent /\ FirstLoadHits BY DEF IInv
  <1> QED BY <1>1, <1>2, <1>3, PTL DEF CacheSpec

(* What the hooks may keep between two calls of the fuzzer, for any set of *)
(* messages and buffers: the cached pair is both set or both empty, ...    *)
THEOREM CacheTypes == CacheSpec => []TypeOK
  BY CacheInvariance, PTL

(* ... and bytes that a mutation or a crossover just produced are answered *)
(* from the cache by the first load of them: LoadProtoInput of the post    *)
(* processor never parses what MutateMessage serialized (the cache is only *)
(* consumed by the very bytes it was filled with).                         *)
THEOREM FirstLoadAlwaysHits == CacheSpec => []FirstLoadHits
  BY CacheInvariance, PTL

(* The cache is invisible: the hooks with the cache implement the hooks    *)
(* without one.  A hit answers with the cached message, which coherence    *)
(* and the round trip of the codec make the parse of the very same bytes.  *)
THEOREM CacheRefinement == CacheSpec => Uncached
  <1>1. CacheInit => Init BY DEF CacheInit
  <1>2. TypeOK /\ CacheCoherent /\ [CacheNext]_vars => [Next]_answer
    <2> SUFFICES ASSUME TypeOK, CacheCoherent, [CacheNext]_vars PROVE [Next]_answer
      OBVIOUS
    <2>1. CASE UNCHANGED vars BY <2>1 DEF vars
    <2>2. ASSUME NEW b \in Buffers, MutateMessage(b) PROVE Next
      BY <2>2 DEF MutateMessage, WriteAndStore, Next, Fuzz
    <2>3. ASSUME NEW b \in Buffers, NEW add \in Buffers, CrossOverMessages(b, add)
          PROVE Next
      BY <2>3 DEF CrossOverMessages, WriteAndStore, Next, Fuzz
    <2>4. ASSUME NEW b \in Buffers, LoadProtoInput(b) PROVE Next
      <3>1. CASE LoadCached(b)
        <4>1. cachedMessage \in Messages /\ b = Encoding[cachedMessage]
          BY <3>1 DEF LoadCached, Same, TypeOK, CacheCoherent
        <4>2. Decoding[b] = cachedMessage BY <4>1, CodecAssumption
        <4> QED BY <3>1, <4>2 DEF LoadCached, Next, PostProcess
      <3>2. CASE LoadParsed(b) BY <3>2 DEF LoadParsed, Next, PostProcess
      <3> QED BY <2>4, <3>1, <3>2 DEF LoadProtoInput
    <2> QED BY <2>1, <2>2, <2>3, <2>4 DEF CacheNext
  <1> QED BY <1>1, <1>2, CacheInvariance, PTL DEF CacheSpec, Uncached, Spec
=============================================================================
