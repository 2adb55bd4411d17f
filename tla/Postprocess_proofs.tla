-------------------------- MODULE Postprocess_proofs --------------------------
(* What the post-processor guarantees of the API calls of every message it *)
(* returns, whatever came in and whatever messages were processed before.  *)
EXTENDS Postprocess, TLAPS, SequenceTheorems, FiniteSetTheorems

LEMMA ElementsOfSeq == \A S : \A s \in Seq(S) : \A j \in DOMAIN s : s[j] \in S
  OBVIOUS

LEMMA RemBounds ==
    ASSUME NEW a \in Int, NEW b \in Nat \ {0}
    PROVE  Rem(a, b) \in Int /\ -b < Rem(a, b) /\ Rem(a, b) < b
           /\ (a >= 0 => Rem(a, b) >= 0)
  BY DEF Rem

(* The second remainder is taken of a number that is not negative.         *)
LEMMA NotNegModBounds ==
    ASSUME NEW a \in Int, NEW b \in Nat \ {0}
    PROVE  NotNegMod(a, b) \in 0 .. b - 1
  BY RemBounds DEF NotNegMod

(* clampToRange of an integer: "limit value into [range[0], range[1]]"     *)
(* (openfhe_ckks_postprocess.h:28), for every value and every range.       *)
THEOREM ClampInRange ==
    ASSUME NEW value \in Int, NEW lo \in Int, NEW hi \in Int, lo <= hi
    PROVE  clampToRange(value, <<lo, hi>>) \in lo .. hi
  BY NotNegModBounds DEF clampToRange, Within

LEMMA ClampedRotationType ==
    ASSUME NEW v \in Int PROVE clampToRange(v, rotateIndex_range) \in Int
  <1>1. PICK lo \in Int, hi \in Int : lo = -20000 /\ hi = 20000 /\ lo <= hi
    OBVIOUS
  <1>2. clampToRange(v, <<lo, hi>>) \in lo .. hi
    <2>1. lo <= hi BY <1>1
    <2> QED BY <2>1, ClampInRange
  <1>3. rotateIndex_range = <<lo, hi>> BY <1>1 DEF rotateIndex_range
  <1> QED BY ONLY <1>2, <1>3

LEMMA ClampRealType ==
    ASSUME NEW value \in Reals
    PROVE  clampReal(value, evalData_range) \in Reals
  <1>1. CASE value \in {NaN, Infinity} BY <1>1 DEF clampReal, Reals
  <1>2. CASE value \notin {NaN, Infinity}
    <2>1. value \in Int BY <1>2 DEF Reals
    <2>2. 2 * (value \div 2) \in Int BY <2>1
    <2>3. NotNegMod(2 * (value \div 2), 4) \in Int BY <2>2, NotNegModBounds
    <2> QED BY <1>2, <2>1, <2>2, <2>3 DEF clampReal, Reals, evalData_range
  <1> QED BY <1>1, <1>2

-----------------------------------------------------------------------------
(* The part of a message that the API section reads and writes.            *)
Shaped(m) ==
    /\ m = [param |-> m.param, apis |-> m.apis, lists |-> m.lists]
    /\ m.apis \in Seq(Apis)
    /\ m.lists \in Seq(Seq(Reals))

(* A call that has been clamped and padded against n data lists.           *)
Settled(a, n) ==
    /\ a.dst \in 0 .. n - 1
    /\ a.srcs \in Seq(0 .. n - 1)
    /\ a.kind = "weighted" => Len(a.srcs) = Len(a.nums)

(* From CountData on, dataNum is the number of data lists of this very     *)
(* message, and the calls before next are settled.                         *)
PostInv ==
    /\ Shaped(msg)
    /\ next \in Nat \ {0}
    /\ pc \in {"idle", "param", "rotate", "evalData", "count", "api", "done"}
    /\ pc \in {"count", "api", "done"} => msg.lists # <<>>
    /\ pc \in {"api", "done"} =>
          /\ dataNum = Len(msg.lists)
          /\ \A i \in DOMAIN msg.apis : i < next => Settled(msg.apis[i], dataNum)
    /\ pc = "done" => next > Len(msg.apis)

LEMMA ClampedApiSettled ==
    ASSUME NEW a \in Apis, dataNum \in Nat \ {0}
    PROVE  /\ ClampedApi(a) \in Apis
           /\ ClampedApi(a).dst \in 0 .. dataNum - 1
           /\ ClampedApi(a).srcs \in Seq(0 .. dataNum - 1)
           /\ ClampedApi(a).kind = a.kind
  <1>1. \A v \in Nat : apiSrcAndDstClampToRange(v) \in 0 .. dataNum - 1
    BY ClampInRange DEF apiSrcAndDstClampToRange
  <1> DEFINE srcs == [i \in DOMAIN a.srcs |-> apiSrcAndDstClampToRange(a.srcs[i])]
             nums == ClampedReals(a.nums, evalData_range)
  <1>2. a.dst \in Nat /\ a.srcs \in Seq(Nat) /\ a.nums \in Seq(Reals)
    BY DEF Apis
  <1>3. srcs \in Seq(0 .. dataNum - 1)
    <2>1. DOMAIN a.srcs = 1 .. Len(a.srcs) /\ Len(a.srcs) \in Nat BY <1>2
    <2>2. \A i \in DOMAIN a.srcs : a.srcs[i] \in Nat BY <1>2
    <2> QED BY <1>1, <2>1, <2>2
  <1>4. nums \in Seq(Reals)
    <2>1. DOMAIN a.nums = 1 .. Len(a.nums) /\ Len(a.nums) \in Nat BY <1>2
    <2>2. \A i \in DOMAIN a.nums : clampReal(a.nums[i], evalData_range) \in Reals
      BY <1>2, ClampRealType
    <2> QED BY <2>1, <2>2 DEF ClampedReals
  <1>5. srcs \in Seq(Nat)
    <2>1. 0 .. dataNum - 1 \subseteq Nat OBVIOUS
    <2> HIDE DEF srcs
    <2> QED BY <1>3, <2>1
  <1>6. ClampedApi(a) = [a EXCEPT !.dst = apiSrcAndDstClampToRange(a.dst),
                                  !.srcs = srcs, !.nums = nums]
    BY DEF ClampedApi, Apis
  <1> HIDE DEF srcs, nums
  <1>7. apiSrcAndDstClampToRange(a.dst) \in 0 .. dataNum - 1 BY <1>1, <1>2
  <1>8. ClampedApi(a) \in Apis
    <2>1. apiSrcAndDstClampToRange(a.dst) \in Nat BY <1>7
    <2> QED BY <1>4, <1>5, <1>6, <2>1 DEF Apis
  <1>9. /\ ClampedApi(a).dst = apiSrcAndDstClampToRange(a.dst)
        /\ ClampedApi(a).srcs = srcs /\ ClampedApi(a).kind = a.kind
    BY <1>6 DEF Apis
  <1> QED BY <1>3, <1>7, <1>8, <1>9

LEMMA SeqOfSubset == \A S, T : S \subseteq T => Seq(S) \subseteq Seq(T)
  <1>1. ASSUME NEW S, NEW T, S \subseteq T, NEW s \in Seq(S) PROVE s \in Seq(T)
    <2>1. Len(s) \in Nat /\ s \in [1 .. Len(s) -> T] BY <1>1
    <2> QED BY <2>1
  <1> QED BY <1>1

LEMMA RangeOfNaturals == \A d \in Nat \ {0} : 0 .. d - 1 \subseteq Nat
  OBVIOUS

LEMMA Balance ==
    \A n, k \in Nat : n + (IF k - n > 0 THEN k - n ELSE 0) = k + (IF n - k > 0 THEN n - k ELSE 0)
  OBVIOUS

LEMMA MissingSeq ==
    ASSUME NEW a, NEW n \in Int, NEW S, NEW s \in Missing(a, n, S)
    PROVE  s \in Seq(S) /\ Len(s) = IF a.kind = "weighted" /\ n > 0 THEN n ELSE 0
  <1> DEFINE k == IF a.kind = "weighted" /\ n > 0 THEN n ELSE 0
  <1>1. k \in Nat OBVIOUS
  <1>2. s \in [1 .. k -> S]
    <2>1. 1 .. (IF a.kind = "weighted" THEN n ELSE 0) = 1 .. k OBVIOUS
    <2> QED BY <2>1 DEF Missing
  <1> HIDE DEF k
  <1>3. s \in Seq(S) /\ Len(s) = k BY <1>1, <1>2
  <1> QED BY <1>3 DEF k

(* Padding makes operands and weights equally many.                        *)
LEMMA PaddedApi ==
    ASSUME NEW a \in Apis, NEW n \in Nat, NEW k \in Nat, n = Len(a.srcs), k = Len(a.nums),
           NEW d \in Nat \ {0}, a.dst \in 0 .. d - 1, a.srcs \in Seq(0 .. d - 1),
           NEW s \in Missing(a, k - n, 0 .. d - 1),
           NEW w \in Missing(a, n - k, RandomReals)
    PROVE  Padded(a, s, w) \in Apis /\ Settled(Padded(a, s, w), d)
  <1> DEFINE D == 0 .. d - 1
  <1>1. a.srcs \in Seq(Nat) /\ a.nums \in Seq(Reals) BY DEF Apis
  <1>2. k - n \in Int /\ n - k \in Int OBVIOUS
  <1>3. s \in Seq(D) /\ Len(s) = IF a.kind = "weighted" /\ k - n > 0 THEN k - n ELSE 0
    BY <1>2, MissingSeq
  <1>4. w \in Seq(RandomReals)
        /\ Len(w) = IF a.kind = "weighted" /\ n - k > 0 THEN n - k ELSE 0
    BY <1>2, MissingSeq
  <1>5. w \in Seq(Reals)
    <2>1. RandomReals \subseteq Reals
      BY PostprocessAssumption DEF Reals, evalData_range
    <2> QED BY <1>4, <2>1
  <1>0. n \in Nat /\ k \in Nat /\ d \in Nat \ {0} /\ a.srcs \in Seq(D) OBVIOUS
  <1>6. D \subseteq Nat BY ONLY <1>0, RangeOfNaturals
  <1> HIDE DEF D
  <1>7. s \in Seq(Nat) BY ONLY <1>3, <1>6, SeqOfSubset
  <1>8. a.srcs \o s \in Seq(D) BY <1>0, <1>3
  <1>9. a.srcs \o s \in Seq(Nat) /\ Len(a.srcs \o s) = n + Len(s) BY <1>1, <1>7
  <1>10. a.nums \o w \in Seq(Reals) /\ Len(a.nums \o w) = k + Len(w) BY <1>1, <1>5
  <1>11. a.kind = "weighted" => n + Len(s) = k + Len(w)
    <2>1. CASE a.kind = "weighted"
      <3>1. Len(s) = IF k - n > 0 THEN k - n ELSE 0 BY <1>3, <2>1
      <3>2. Len(w) = IF n - k > 0 THEN n - k ELSE 0 BY <1>4, <2>1
      <3> QED BY ONLY <1>0, <3>1, <3>2, Balance
    <2> QED BY <2>1
  <1> DEFINE b == Padded(a, s, w)
  <1>12. b \in Apis BY <1>9, <1>10 DEF Apis, Padded
  <1>13. b.kind = a.kind /\ b.dst = a.dst /\ b.srcs = a.srcs \o s /\ b.nums = a.nums \o w
    BY DEF Apis, Padded
  <1> HIDE DEF b
  <1>14. Settled(b, d)
    BY <1>8, <1>9, <1>10, <1>11, <1>13 DEF Settled, D
  <1> QED BY <1>12, <1>14 DEF b

-----------------------------------------------------------------------------
LEMMA PostInit ==
    ASSUME Init PROVE PostInv
  BY DEF Init, PostInv, Shaped, NoMessage

(* One step per section.                                                   *)
LEMMA PostStep ==
    ASSUME PostInv, [Next]_vars PROVE PostInv'
  <1> USE DEF PostInv
  <1>1. CASE UNCHANGED vars BY <1>1 DEF vars, Shaped, Settled
  <1>2. CASE Receive
    <2>1. msg' \in Messages BY <1>2, PostprocessAssumption DEF Receive
    <2>2. Shaped(msg)' BY <2>1 DEF Messages, Shaped
    <2> QED BY <1>2, <2>2 DEF Receive
  <1>3. CASE PostParam
    <2>1. PICK p : msg' = [msg EXCEPT !.param = p] BY <1>3 DEF PostParam
    <2>2. Shaped(msg)' BY <2>1 DEF Shaped
    <2> QED BY <1>3, <2>2 DEF PostParam
  <1>4. CASE PostRotate
    <2> DEFINE apis == [i \in DOMAIN msg.apis |-> ClampedRotation(msg.apis[i])]
    <2>1. apis \in Seq(Apis)
      <3>1. DOMAIN msg.apis = 1 .. Len(msg.apis) /\ Len(msg.apis) \in Nat BY DEF Shaped
      <3>2. \A i \in DOMAIN msg.apis : msg.apis[i] \in Apis BY DEF Shaped
      <3>3. ASSUME NEW a \in Apis PROVE ClampedRotation(a) \in Apis
        <4>1. a.index \in Seq(Int) BY DEF Apis
        <4>2. Len(a.index) \in Nat /\ DOMAIN a.index = 1 .. Len(a.index) BY <4>1
        <4>3. \A i \in DOMAIN a.index : clampToRange(a.index[i], rotateIndex_range) \in Int
          <5>1. \A i \in DOMAIN a.index : a.index[i] \in Int BY ONLY <4>1, ElementsOfSeq
          <5> QED BY <5>1, ClampedRotationType
        <4>4. Clamped(a.index, rotateIndex_range) \in Seq(Int)
          BY <4>2, <4>3 DEF Clamped
        <4> QED BY <4>4 DEF Apis, ClampedRotation
      <3> QED BY <3>1, <3>2, <3>3
    <2>2. PICK r : msg' = [msg EXCEPT !.apis = apis, !.param.rotateIndexes = r,
                                      !.param.encryptionTechnique = STANDARD]
      BY <1>4 DEF PostRotate
    <2> HIDE DEF apis
    <2>3. Shaped(msg)' BY <2>1, <2>2 DEF Shaped
    <2> QED BY <1>4, <2>3 DEF PostRotate
  <1>5. CASE PostEvalData
    <2> DEFINE lists == [i \in DOMAIN msg.lists |-> ClampedReals(msg.lists[i], evalData_range)]
    <2>1. lists \in Seq(Seq(Reals))
      <3>1. DOMAIN msg.lists = 1 .. Len(msg.lists) /\ Len(msg.lists) \in Nat BY DEF Shaped
      <3>2. ASSUME NEW l \in Seq(Reals)
            PROVE  ClampedReals(l, evalData_range) \in Seq(Reals)
        <4>1. Len(l) \in Nat /\ DOMAIN l = 1 .. Len(l) OBVIOUS
        <4>2. \A i \in DOMAIN l : clampReal(l[i], evalData_range) \in Reals
          BY ClampRealType
        <4> QED BY <4>1, <4>2 DEF ClampedReals
      <3>3. \A i \in DOMAIN msg.lists : msg.lists[i] \in Seq(Reals) BY DEF Shaped
      <3> QED BY <3>1, <3>2, <3>3
    <2> HIDE DEF lists
    <2>2. CASE lists # <<>> /\ msg' = [msg EXCEPT !.lists = lists]
      <3>1. Shaped(msg)' /\ msg'.lists # <<>> BY <2>1, <2>2 DEF Shaped
      <3> QED BY <1>5, <3>1 DEF PostEvalData
    <2>3. ASSUME NEW new \in [1 .. MaxNewRepeated -> RandomReals],
                 msg' = [msg EXCEPT !.lists = <<new>>]
          PROVE  PostInv'
      <3>1. RandomReals \subseteq Reals
        BY PostprocessAssumption DEF Reals, evalData_range
      <3>2. MaxNewRepeated \in Nat BY PostprocessAssumption
      <3>3. new \in Seq(Reals) BY <3>1, <3>2
      <3>4. <<new>> \in Seq(Seq(Reals)) /\ <<new>> # <<>> BY <3>3
      <3>5. Shaped(msg)' /\ msg'.lists # <<>> BY <2>3, <3>4 DEF Shaped
      <3> QED BY <1>5, <3>5 DEF PostEvalData
    <2> QED BY <1>5, <2>2, <2>3 DEF PostEvalData, lists
  <1>6. CASE CountData BY <1>6 DEF CountData, Shaped, Settled
  <1>7. CASE PostApi
    <2> DEFINE a == ClampedApi(msg.apis[next])
    <2>1. /\ dataNum = Len(msg.lists) /\ msg.lists \in Seq(Seq(Reals)) /\ msg.lists # <<>>
          /\ pc = "api" /\ pc' = "api" /\ next' = next + 1 /\ dataNum' = dataNum
          /\ next \in DOMAIN msg.apis /\ msg.apis[next] \in Apis
      BY <1>7 DEF PostApi, Shaped
    <2>2. dataNum \in Nat \ {0} BY <2>1
    <2>3. /\ a \in Apis
          /\ a.dst \in 0 .. dataNum - 1
          /\ a.srcs \in Seq(0 .. dataNum - 1)
      BY <2>1, <2>2, ClampedApiSettled
    <2>4. PICK s \in Missing(a, Len(a.nums) - Len(a.srcs), 0 .. dataNum - 1),
               w \in Missing(a, Len(a.srcs) - Len(a.nums), RandomReals) :
               msg' = [msg EXCEPT !.apis[next] = Padded(a, s, w)]
      BY <1>7 DEF PostApi
    <2> HIDE DEF a
    <2>5. Len(a.srcs) \in Nat /\ Len(a.nums) \in Nat BY <2>3 DEF Apis
    <2> DEFINE b == Padded(a, s, w)
    <2>6. b \in Apis /\ Settled(b, dataNum) BY <2>2, <2>3, <2>4, <2>5, PaddedApi
    <2> HIDE DEF b
    <2>7. /\ msg'.apis = [msg.apis EXCEPT ![next] = b] /\ msg'.lists = msg.lists
          /\ msg' = [param |-> msg.param, apis |-> msg'.apis, lists |-> msg.lists]
      BY <2>4 DEF Shaped, b
    <2>8. Shaped(msg)' BY <2>1, <2>6, <2>7 DEF Shaped
    <2>9. \A i \in DOMAIN msg'.apis : i < next + 1 => Settled(msg'.apis[i], dataNum)
      <3>1. DOMAIN msg'.apis = DOMAIN msg.apis BY <2>7
      <3>2. DOMAIN msg.apis \subseteq Nat BY DEF Shaped
      <3>3. ASSUME NEW i \in DOMAIN msg.apis, i < next + 1
            PROVE  Settled(msg'.apis[i], dataNum)
        <4>1. CASE i = next BY <2>6, <2>7, <4>1
        <4>2. CASE i # next
          <5>1. i < next BY <3>2, <3>3, <4>2
          <5>2. Settled(msg.apis[i], dataNum) BY <2>1, <5>1
          <5> QED BY <2>7, <4>2, <5>2
        <4> QED BY <4>1, <4>2
      <3> QED BY <3>1, <3>3
    <2> QED BY <2>1, <2>7, <2>8, <2>9
  <1>8. CASE Serialise BY <1>8 DEF Serialise, Shaped, Settled
  <1>9. CASE Return BY <1>9 DEF Return, Shaped, NoMessage
  <1> QED BY <1>1, <1>2, <1>3, <1>4, <1>5, <1>6, <1>7, <1>8, <1>9 DEF Next

(* What is true of all calls before next is true of all calls in the end.  *)
LEMMA PostImplies ==
    ASSUME PostInv PROVE ApiRefsInRange /\ WeightsPaired
  <1>1. CASE pc = "done"
    <2>1. msg.lists # <<>> /\ dataNum = Len(msg.lists) BY <1>1 DEF PostInv
    <2>2. \A i \in DOMAIN msg.apis : i < next
      BY <1>1 DEF PostInv, Shaped
    <2>3. \A i \in DOMAIN msg.apis : Settled(msg.apis[i], dataNum)
      BY <1>1, <2>2 DEF PostInv
    <2>4. \A i \in DOMAIN msg.apis :
             /\ \A j \in DOMAIN msg.apis[i].srcs : msg.apis[i].srcs[j] \in 0 .. dataNum - 1
             /\ msg.apis[i].dst \in 0 .. dataNum - 1
      <3>1. \A i \in DOMAIN msg.apis : /\ msg.apis[i].srcs \in Seq(0 .. dataNum - 1)
                                       /\ msg.apis[i].dst \in 0 .. dataNum - 1
        BY <2>3 DEF Settled
      <3> QED BY ONLY <3>1, ElementsOfSeq
    <2>5. ApiRefsInRange BY <2>1, <2>4 DEF ApiRefsInRange, Range
    <2>6. WeightsPaired BY <2>3 DEF WeightsPaired, Settled
    <2> QED BY <2>5, <2>6
  <1>2. CASE pc # "done" BY <1>2 DEF ApiRefsInRange, WeightsPaired, Done
  <1> QED BY <1>1, <1>2

(* Every message the post-processor returns refers only to data it has,    *)
(* whatever messages were processed before it with other numbers of data   *)
(* lists,                                                                  *)
THEOREM ReturnedRefsInRange == Spec => []ApiRefsInRange
  <1>1. Init => PostInv BY PostInit
  <1>2. PostInv /\ [Next]_vars => PostInv' BY PostStep
  <1>3. PostInv => ApiRefsInRange BY PostImplies
  <1> QED BY <1>1, <1>2, <1>3, PTL DEF Spec

(* and has as many weights as operands in each weighted sum.               *)
THEOREM ReturnedWeightsPaired == Spec => []WeightsPaired
  <1>1. Init => PostInv BY PostInit
  <1>2. PostInv /\ [Next]_vars => PostInv' BY PostStep
  <1>3. PostInv => WeightsPaired BY PostImplies
  <1> QED BY <1>1, <1>2, <1>3, PTL DEF Spec

-----------------------------------------------------------------------------
(* The order of a map's keys exists: by induction over finite subsets,     *)
(* taken as a minimal counterexample.                                      *)

LEMMA MinimalSet ==
    ASSUME NEW S, NEW F \in SUBSET FiniteSubsetsOf(S), F # {}
    PROVE  \E x \in F : \A y \in F : y \subseteq x => y = x
  <1> DEFINE R == StrictSubsetOrdering(S)
  <1>1. IsWellFoundedOn(R, FiniteSubsetsOf(S)) BY FS_StrictSubsetOrderingWellFounded
  <1>2. \A x, y \in SUBSET S : <<x, y>> \in R <=> (x \subseteq y /\ x # y)
    BY DEF StrictSubsetOrdering
  <1> HIDE DEF R
  <1>3. PICK x \in F : \A y \in F : ~(<<y, x>> \in R) BY <1>1, WFMin
  <1> QED BY <1>2, <1>3 DEF FiniteSubsetsOf

LEMMA LargestExists ==
    \A T \in FiniteSubsetsOf(Int) : T # {} => \E x \in T : \A y \in T : y <= x
  <1> DEFINE F == {T \in FiniteSubsetsOf(Int) : T # {} /\ ~ \E x \in T : \A y \in T : y <= x}
  <1> SUFFICES ASSUME F # {} PROVE FALSE OBVIOUS
  <1>0. F \in SUBSET FiniteSubsetsOf(Int) OBVIOUS
  <1>1. PICK T \in F : \A U \in F : U \subseteq T => U = T
    <2> HIDE DEF F
    <2> QED BY <1>0, MinimalSet
  <1>2. PICK a \in T : TRUE BY <1>1
  <1>3. T \in SUBSET Int /\ IsFiniteSet(T) BY <1>1 DEF FiniteSubsetsOf
  <1>4. T \ {a} \in FiniteSubsetsOf(Int)
    <2>1. IsFiniteSet(T \ {a}) BY <1>3, FS_Difference
    <2> QED BY <1>3, <2>1 DEF FiniteSubsetsOf
  <1>5. CASE T \ {a} = {}
    <2>1. \A y \in T : y = a BY <1>5
    <2>2. \A y \in T : y <= a BY <1>2, <1>3, <2>1
    <2> QED BY <1>1, <1>2, <2>2
  <1>6. CASE T \ {a} # {}
    <2>1. T \ {a} \notin F BY <1>1, <1>2
    <2>2. PICK b \in T \ {a} : \A y \in T \ {a} : y <= b BY <1>4, <1>6, <2>1
    <2>3. a \in Int /\ b \in Int BY <1>2, <1>3
    <2> DEFINE c == IF a <= b THEN b ELSE a
    <2>4. c \in T /\ a <= c /\ b <= c /\ c \in Int BY <1>2, <2>2, <2>3
    <2> HIDE DEF c
    <2>5. ASSUME NEW y \in T PROVE y <= c
      <3>1. CASE y = a BY <2>4, <3>1
      <3>2. CASE y # a
        <4>1. y <= b /\ y \in Int BY <1>3, <2>2, <3>2
        <4> QED BY <2>3, <2>4, <4>1
      <3> QED BY <3>1, <3>2
    <2> QED BY <1>1, <2>4, <2>5
  <1> QED BY <1>5, <1>6

IsAscending(s, S) ==
    s \in [1 .. Cardinality(S) -> S] /\ \A i, j \in DOMAIN s : i < j => s[i] < s[j]

LEMMA AscendingExists ==
    \A T \in FiniteSubsetsOf(Int) : \E s : IsAscending(s, T)
  <1> DEFINE F == {T \in FiniteSubsetsOf(Int) : ~ \E s : IsAscending(s, T)}
  <1> SUFFICES ASSUME F # {} PROVE FALSE OBVIOUS
  <1>0. F \in SUBSET FiniteSubsetsOf(Int) OBVIOUS
  <1>1. PICK T \in F : \A U \in F : U \subseteq T => U = T
    <2> HIDE DEF F
    <2> QED BY <1>0, MinimalSet
  <1>2. T \in SUBSET Int /\ IsFiniteSet(T) BY <1>1 DEF FiniteSubsetsOf
  <1>3. CASE T = {}
    <2>1. Cardinality(T) = 0 BY <1>3, FS_EmptySet
    <2>2. IsAscending(<<>>, T) BY <2>1 DEF IsAscending
    <2> QED BY <1>1, <2>2
  <1>4. CASE T # {}
    <2>1. PICK m \in T : \A y \in T : y <= m BY <1>1, <1>4, LargestExists
    <2> DEFINE U == T \ {m}
               n == Cardinality(U)
    <2>2. IsFiniteSet(U) /\ n \in Nat BY <1>2, FS_Difference, FS_CardinalityType
    <2>3. Cardinality(T) = n + 1
      <3>1. U \cup {m} = T /\ m \notin U BY <2>1
      <3> HIDE DEF U
      <3> QED BY <2>2, <3>1, FS_AddElement DEF n
    <2>4. U \notin F /\ U \in FiniteSubsetsOf(Int)
      BY <1>1, <1>2, <2>1, <2>2 DEF FiniteSubsetsOf
    <2>5. PICK g : IsAscending(g, U) BY <2>4
    <2>6. g \in [1 .. n -> U] /\ \A i, j \in 1 .. n : i < j => g[i] < g[j]
      BY <2>5 DEF IsAscending
    <2>7. \A y \in U : y < m /\ y \in T BY <1>2, <2>1
    <2> DEFINE f == [i \in 1 .. n + 1 |-> IF i = n + 1 THEN m ELSE g[i]]
    <2> HIDE DEF U, n
    <2>8. \A i \in 1 .. n + 1 : i # n + 1 => i \in 1 .. n BY <2>2
    <2>9. \A i \in 1 .. n : g[i] \in U BY <2>6
    <2>10. f \in [1 .. n + 1 -> T] BY <2>1, <2>7, <2>8, <2>9
    <2>11. ASSUME NEW i \in 1 .. n + 1, NEW j \in 1 .. n + 1, i < j PROVE f[i] < f[j]
      <3>1. i \in 1 .. n /\ f[i] = g[i] BY <2>2, <2>11
      <3>2. CASE j = n + 1 BY <2>7, <2>9, <3>1, <3>2
      <3>3. CASE j # n + 1 BY <2>6, <2>8, <2>11, <3>1, <3>3
      <3> QED BY <3>2, <3>3
    <2> HIDE DEF f
    <2>12. IsAscending(f, T) BY <2>3, <2>10, <2>11 DEF IsAscending
    <2> QED BY <1>1, <2>12
  <1> QED BY <1>3, <1>4

(* Ascending lists every element of a finite set once.                     *)
LEMMA AscendingLists ==
    ASSUME NEW S \in SUBSET Int, IsFiniteSet(S)
    PROVE  /\ Ascending(S) \in Seq(S)
           /\ \A i, j \in DOMAIN Ascending(S) : i # j => Ascending(S)[i] # Ascending(S)[j]
  <1>1. \E s : IsAscending(s, S) BY AscendingExists DEF FiniteSubsetsOf
  <1> DEFINE a == Ascending(S)
             n == Cardinality(S)
  <1>2. a \in [1 .. n -> S] /\ \A i, j \in DOMAIN a : i < j => a[i] < a[j]
    BY <1>1 DEF Ascending, IsAscending
  <1>3. n \in Nat BY FS_CardinalityType
  <1> HIDE DEF a, n
  <1>4. a \in Seq(S) BY <1>2, <1>3
  <1>5. \A i \in 1 .. n : a[i] \in Int BY <1>2
  <1>6. ASSUME NEW i \in 1 .. n, NEW j \in 1 .. n, i # j PROVE a[i] # a[j]
    <2>1. CASE i < j BY <1>2, <1>5, <2>1
    <2>2. CASE j < i BY <1>2, <1>5, <2>2
    <2> QED BY <1>3, <1>6, <2>1, <2>2
  <1>7. DOMAIN a = 1 .. n BY <1>2
  <1> QED BY <1>4, <1>6, <1>7 DEF a

-----------------------------------------------------------------------------
(* The parameters that PostParam leaves.                                   *)

LEMMA ClampWithin ==
    ASSUME NEW value \in Int, NEW range \in Int \X Int, range[1] <= range[2]
    PROVE  Within(range, clampToRange(value, range)) /\ clampToRange(value, range) \in Int
  <1>1. range = <<range[1], range[2]>> /\ range[1] \in Int /\ range[2] \in Int OBVIOUS
  <1>2. clampToRange(value, <<range[1], range[2]>>) \in range[1] .. range[2]
    BY ONLY ClampInRange, <1>1, value \in Int, range[1] <= range[2]
  <1> QED BY <1>1, <1>2 DEF Within

LEMMA RangesAreRanges ==
    \A r \in {multiplicativeDepth_range, preMode_range, digitSize_range, larger_digitSize_range,
              firstModSize_range, scalingModSize_range, rotateIndex_range} :
        r \in Int \X Int /\ r[1] <= r[2]
  BY DEF multiplicativeDepth_range, preMode_range, digitSize_range, larger_digitSize_range,
         firstModSize_range, scalingModSize_range, rotateIndex_range

DigitSizeSettled(p) ==
    Within(IF Depth(p.multiplicativeDepth) = multiplicativeDepth_range[2]
           THEN larger_digitSize_range ELSE digitSize_range, p.digitSize)

ModSizesSettled(p) ==
    \A first \in Range(p.firstModSize), scaling \in Range(p.scalingModSize) :
        /\ first # scaling
        /\ Within(firstModSize_range, first)
        /\ Within(scalingModSize_range, scaling)

(* No mode that PostParam leaves is the one that switches digits off.      *)
LEMMA ModeInRange ==
    ASSUME NEW s \in Optional(Nat) PROVE Value(Clamped(s, preMode_range)) # NOISE_FLOODING_HRA
  <1>1. CASE s = <<>> BY <1>1 DEF Value, Clamped, NOISE_FLOODING_HRA
  <1>2. CASE s # <<>>
    <2>1. 1 \in DOMAIN s /\ s[1] \in Int BY <1>2 DEF Optional
    <2>2. Within(preMode_range, clampToRange(s[1], preMode_range)) BY <2>1, ClampWithin, RangesAreRanges
    <2> DEFINE c == Clamped(s, preMode_range)
    <2>3. c[1] = clampToRange(s[1], preMode_range) /\ c # <<>> BY <2>1 DEF Clamped
    <2> HIDE DEF c
    <2>4. Value(c) = clampToRange(s[1], preMode_range) BY <2>3 DEF Value
    <2> QED BY <2>2, <2>4 DEF c, Within, preMode_range, NOISE_FLOODING_HRA
  <1> QED BY <1>1, <1>2

LEMMA DigitSizeInRange ==
    ASSUME NEW p \in Parameters, NEW ks, NEW depth
    PROVE  Within(IF depth = multiplicativeDepth_range[2]
                  THEN larger_digitSize_range ELSE digitSize_range,
                  DigitSize([p EXCEPT !.ksTech = ks, !.PREMode = Clamped(p.PREMode, preMode_range)],
                            depth))
  <1> DEFINE mode == Clamped(p.PREMode, preMode_range)
             q == [p EXCEPT !.ksTech = ks, !.PREMode = mode]
             range == IF depth = multiplicativeDepth_range[2]
                      THEN larger_digitSize_range ELSE digitSize_range
  <1>1. p.PREMode \in Optional(Nat) /\ p.digitSize \in Int BY DEF Parameters
  <1>2. Value(mode) # NOISE_FLOODING_HRA BY <1>1, ModeInRange
  <1> HIDE DEF mode
  <1>3. q.PREMode = mode /\ q.digitSize = p.digitSize BY DEF Parameters
  <1> HIDE DEF q
  <1>4. DigitSize(q, depth) = clampToRange(p.digitSize, range) BY <1>2, <1>3 DEF DigitSize
  <1>5. range \in Int \X Int /\ range[1] <= range[2] BY RangesAreRanges
  <1> HIDE DEF range
  <1>6. Within(range, clampToRange(p.digitSize, range)) BY <1>1, <1>5, ClampWithin
  <1> QED BY <1>4, <1>6 DEF q, mode, range

(* The size one below the smallest is brought back to the largest.         *)
LEMMA SizesDiffer ==
    ASSUME NEW first \in 40 .. 60, NEW v \in Int
    PROVE  LET size == clampToRange(v, scalingModSize_range)
               settled == IF size = first THEN clampToRange(size - 1, scalingModSize_range) ELSE size
           IN  settled # first /\ Within(scalingModSize_range, settled)
  <1> DEFINE size == clampToRange(v, scalingModSize_range)
             below == clampToRange(size - 1, scalingModSize_range)
  <1>1. Within(scalingModSize_range, size) /\ size \in Int BY ClampWithin, RangesAreRanges
  <1> HIDE DEF size
  <1>2. size \in 40 .. 59 BY <1>1 DEF Within, scalingModSize_range
  <1>3. Within(scalingModSize_range, below) BY <1>2, ClampWithin, RangesAreRanges
  <1>4. below = IF size = 40 THEN 59 ELSE size - 1
    <2>1. CASE size = 40
      <3>1. clampToRange(39, <<40, 59>>) = 59 BY DEF clampToRange, Within, NotNegMod, Rem
      <3> QED BY <2>1, <3>1 DEF scalingModSize_range
    <2>2. CASE size # 40 BY <1>2, <2>2 DEF clampToRange, Within, scalingModSize_range
    <2> QED BY <2>1, <2>2
  <1> HIDE DEF below
  <1>5. below # size BY <1>2, <1>4
  <1> QED BY <1>1, <1>3, <1>5 DEF size, below

LEMMA ModSizesInRange ==
    ASSUME NEW firstSize \in Optional(Nat), NEW scalingSize \in Optional(Nat)
    PROVE  \A first \in Range(Clamped(firstSize, firstModSize_range)),
              scaling \in Range(ScalingModSize(Clamped(firstSize, firstModSize_range), scalingSize)) :
              /\ first # scaling
              /\ Within(firstModSize_range, first)
              /\ Within(scalingModSize_range, scaling)
  <1> DEFINE f == Clamped(firstSize, firstModSize_range)
             s == ScalingModSize(f, scalingSize)
  <1> SUFFICES ASSUME NEW first \in Range(f), NEW scaling \in Range(s)
               PROVE  /\ first # scaling
                      /\ Within(firstModSize_range, first)
                      /\ Within(scalingModSize_range, scaling)
    OBVIOUS
  <1>1. /\ DOMAIN f = DOMAIN firstSize
        /\ \A i \in DOMAIN firstSize : f[i] = clampToRange(firstSize[i], firstModSize_range)
    BY DEF Clamped
  <1> HIDE DEF f
  <1>2. /\ DOMAIN s = DOMAIN scalingSize
        /\ \A j \in DOMAIN scalingSize :
              s[j] = LET size == clampToRange(scalingSize[j], scalingModSize_range)
                     IN  IF size = Value(f) THEN clampToRange(size - 1, scalingModSize_range) ELSE size
    BY DEF ScalingModSize
  <1> HIDE DEF s
  <1>3. PICK i \in DOMAIN firstSize : first = f[i] BY <1>1 DEF Range
  <1>4. i = 1 /\ firstSize[i] \in Int BY DEF Optional
  <1>5. Value(f) = first BY <1>1, <1>3, <1>4 DEF Value
  <1>6. Within(firstModSize_range, first) /\ first \in Int
    BY <1>1, <1>3, <1>4, ClampWithin, RangesAreRanges
  <1>7. first \in 40 .. 60 BY <1>6 DEF Within, firstModSize_range
  <1>8. PICK j \in DOMAIN scalingSize : scaling = s[j] BY <1>2 DEF Range
  <1>9. scalingSize[j] \in Int BY DEF Optional
  <1>10. scaling = LET size == clampToRange(scalingSize[j], scalingModSize_range)
                   IN  IF size = first THEN clampToRange(size - 1, scalingModSize_range) ELSE size
    BY <1>2, <1>5, <1>8
  <1> QED BY <1>6, <1>7, <1>9, <1>10, SizesDiffer

LEMMA ParamIsSettled ==
    ASSUME NEW p \in Parameters, NEW batch, NEW ks, NEW security, NEW q,
           q = Param(p, batch, ks, security)
    PROVE  DigitSizeSettled(q) /\ ModSizesSettled(q) /\ q.rotateIndexes = p.rotateIndexes
  <1> DEFINE depth == Depth(Clamped(p.multiplicativeDepth, multiplicativeDepth_range))
  <1>1. q = ParamFor(p, batch, ks, security, depth) BY DEF Param
  <1> HIDE DEF depth
  <1>2. /\ q.multiplicativeDepth = Clamped(p.multiplicativeDepth, multiplicativeDepth_range)
        /\ q.digitSize =
              DigitSize([p EXCEPT !.ksTech = ks, !.PREMode = Clamped(p.PREMode, preMode_range)], depth)
        /\ q.firstModSize = Clamped(p.firstModSize, firstModSize_range)
        /\ q.scalingModSize =
              ScalingModSize(Clamped(p.firstModSize, firstModSize_range), p.scalingModSize)
        /\ q.rotateIndexes = p.rotateIndexes
    BY <1>1 DEF ParamFor, Parameters
  <1>3. Depth(q.multiplicativeDepth) = depth BY <1>2 DEF depth
  <1>4. DigitSizeSettled(q) BY <1>2, <1>3, DigitSizeInRange DEF DigitSizeSettled
  <1>5. p.firstModSize \in Optional(Nat) /\ p.scalingModSize \in Optional(Nat) BY DEF Parameters
  <1>6. ModSizesSettled(q) BY <1>2, <1>5, ModSizesInRange DEF ModSizesSettled
  <1> QED BY <1>2, <1>4, <1>6

-----------------------------------------------------------------------------
(* reduceToPowerOfTwo.  Induction is again over a minimal counterexample.  *)

(* The powers of two, by counting subsets.                                 *)
LEMMA PowerType == \A n \in Nat : 2 ^ n \in Nat \ {0}
  <1> SUFFICES ASSUME NEW n \in Nat PROVE 2 ^ n \in Nat \ {0} OBVIOUS
  <1> DEFINE S == 1 .. n
             A == SUBSET S
  <1>1. IsFiniteSet(S) /\ Cardinality(S) = n BY FS_Interval
  <1>2. {} \in A OBVIOUS
  <1> HIDE DEF S
  <1>3. IsFiniteSet(A) /\ Cardinality(A) = 2 ^ n BY <1>1, FS_SUBSET
  <1> HIDE DEF A
  <1>4. Cardinality(A) \in Nat /\ Cardinality(A) # 0 BY <1>2, <1>3, FS_CardinalityType, FS_EmptySet
  <1> QED BY <1>3, <1>4

LEMMA PowerZero == 2 ^ 0 = 1
  OBVIOUS

LEMMA PowerSucc == \A n \in Nat : 2 ^ (n + 1) = 2 * 2 ^ n
  <1> SUFFICES ASSUME NEW n \in Nat PROVE 2 ^ (n + 1) = 2 * 2 ^ n OBVIOUS
  <1> DEFINE S == 1 .. n
             S1 == 1 .. n + 1
             A == SUBSET S
             B == {T \cup {n + 1} : T \in A}
             f == [T \in A |-> T \cup {n + 1}]
  <1>1. IsFiniteSet(S) /\ Cardinality(S) = n BY FS_Interval
  <1>2. n + 1 \in Nat /\ IsFiniteSet(S1) /\ Cardinality(S1) = n + 1
    <2>1. n + 1 \in Int /\ ~(1 > n + 1) /\ (n + 1) - 1 + 1 = n + 1 OBVIOUS
    <2> QED BY <2>1, FS_Interval
  <1>3. S1 = S \cup {n + 1} /\ n + 1 \notin S OBVIOUS
  <1> HIDE DEF S, S1
  <1>4. IsFiniteSet(A) /\ Cardinality(A) = 2 ^ n BY <1>1, FS_SUBSET
  <1>5. Cardinality(SUBSET S1) = 2 ^ (n + 1) BY <1>2, FS_SUBSET
  <1>6. SUBSET S1 = A \cup B
    <2>1. ASSUME NEW T \in SUBSET S1, T \notin A PROVE T \in B
      <3>1. n + 1 \in T /\ T \ {n + 1} \in A BY <1>3, <2>1
      <3>2. T = (T \ {n + 1}) \cup {n + 1} BY <3>1
      <3> QED BY <3>1, <3>2
    <2>2. A \subseteq SUBSET S1 /\ B \subseteq SUBSET S1 BY <1>3
    <2> QED BY <2>1, <2>2
  <1>7. A \cap B = {} BY <1>3
  <1>8. IsFiniteSet(B) /\ Cardinality(B) = Cardinality(A)
    <2>1. f \in [A -> B] /\ (\A T \in A : f[T] = T \cup {n + 1}) OBVIOUS
    <2>2. ASSUME NEW T \in A, NEW U \in A, f[T] = f[U] PROVE T = U
      <3>1. T = (T \cup {n + 1}) \ {n + 1} /\ U = (U \cup {n + 1}) \ {n + 1} BY <1>3
      <3> QED BY <2>1, <2>2, <3>1
    <2>3. \A b \in B : \E T \in A : f[T] = b OBVIOUS
    <2> HIDE DEF f, A, B
    <2>4. f \in Surjection(A, B) BY <2>1, <2>3 DEF Surjection
    <2>5. f \in Injection(A, B) BY <2>1, <2>2 DEF Injection, IsInjective
    <2> QED BY <1>4, <2>4, <2>5, FS_Surjection
  <1> HIDE DEF A, B
  <1>9. Cardinality(A \cup B) = Cardinality(A) + Cardinality(B) - Cardinality(A \cap B)
    BY <1>4, <1>8, FS_Union
  <1>10. Cardinality(A) \in Nat /\ Cardinality(A \cap B) = 0 BY <1>4, <1>7, FS_CardinalityType, FS_EmptySet
  <1>11. Cardinality(A \cup B) = 2 * Cardinality(A) BY <1>8, <1>9, <1>10
  <1> QED BY <1>4, <1>5, <1>6, <1>11

LEMMA MinimalNatural ==
    ASSUME NEW T \in SUBSET Nat, T # {}
    PROVE  \E x \in T : \A y \in T : x <= y
  <1> DEFINE R == OpToRel(<, Nat)
  <1>1. IsWellFoundedOn(R, Nat) BY NatLessThanWellFounded
  <1>2. \A x, y \in Nat : <<x, y>> \in R <=> x < y BY DEF OpToRel
  <1> HIDE DEF R
  <1>3. PICK x \in T : \A y \in T : ~(<<y, x>> \in R) BY <1>1, WFMin
  <1>4. \A y \in T : ~(y < x) BY <1>2, <1>3
  <1>5. \A y \in T : y \in Nat /\ x \in Nat OBVIOUS
  <1>6. \A y \in T : x <= y BY <1>4, <1>5
  <1> QED BY <1>6

(* The same minimal counterexample shows that powers grow.                 *)
LEMMA PowerMonotonic == \A m, n \in Nat : m < n => 2 ^ m < 2 ^ n
  <1> SUFFICES ASSUME NEW m \in Nat PROVE \A n \in Nat : m < n => 2 ^ m < 2 ^ n OBVIOUS
  <1> DEFINE T == {n \in Nat : m < n /\ ~(2 ^ m < 2 ^ n)}
  <1>1. ASSUME T # {} PROVE FALSE
    <2>1. T \in SUBSET Nat OBVIOUS
    <2> HIDE DEF T
    <2>2. PICK n \in T : \A i \in T : n <= i BY <1>1, <2>1, MinimalNatural
    <2>3. n \in Nat /\ m < n /\ ~(2 ^ m < 2 ^ n) BY <2>2 DEF T
    <2>4. n - 1 \in Nat /\ (n - 1) + 1 = n /\ n - 1 < n BY <2>3
    <2>5. n - 1 \notin T BY <2>2, <2>3, <2>4
    <2>6. m < n - 1 => 2 ^ m < 2 ^ (n - 1) BY <2>4, <2>5 DEF T
    <2>7. m = n - 1 \/ m < n - 1 BY <2>3
    <2>8. 2 ^ n = 2 * 2 ^ (n - 1) /\ 2 ^ (n - 1) \in Nat \ {0} /\ 2 ^ m \in Nat
      BY <2>4, PowerSucc, PowerType
    <2> QED BY <2>3, <2>6, <2>7, <2>8
  <1> QED BY <1>1

(* One round of the loop of reduceToPowerOfTwo, on M values.               *)
Round(g, value, M, res) ==
    IF res > value THEN res \div 2
    ELSE IF (2 * res) % M < res THEN res ELSE g[(2 * res) % M]

Unrolls(g, value, M) == g = [res \in 0 .. M - 1 |-> Round(g, value, M, res)]

LEMMA LoopIsChosen ==
    ASSUME NEW value \in Nat, value # 0, ~IsPowerOfTwo(value)
    PROVE  reduceToPowerOfTwo(value) = (CHOOSE g : Unrolls(g, value, 2 ^ Bits))[1]
  BY DEF reduceToPowerOfTwo, Unrolls, Round

(* Above 0, doubling modulo M either goes up or wraps below.               *)
LEMMA DoublingMoves ==
    ASSUME NEW M \in Nat \ {0}, NEW res \in 1 .. M - 1
    PROVE  /\ (2 * res) % M \in 0 .. M - 1
           /\ (2 * res) % M # res
           /\ 2 * res < M => (2 * res) % M = 2 * res
           /\ 2 * res >= M => (2 * res) % M = 2 * res - M
  <1>1. (2 * res) % M = IF 2 * res < M THEN 2 * res ELSE 2 * res - M OBVIOUS
  <1> QED BY <1>1

(* The recursion has a solution: it is built from the largest value down.  *)
LEMMA LoopExists ==
    ASSUME NEW value \in Nat \ {0}, NEW M \in Nat \ {0}
    PROVE  \E g : Unrolls(g, value, M)
  <1> DEFINE Solved(g, r) == DOMAIN g = 0 .. M - 1 /\ \A x \in r .. M - 1 : g[x] = Round(g, value, M, x)
             T == {r \in 1 .. M : \E g : g = [x \in 0 .. M - 1 |-> g[x]] /\ Solved(g, r)}
  <1>1. M \in T
    <2> DEFINE g == [x \in 0 .. M - 1 |-> 0]
    <2>1. g = [x \in 0 .. M - 1 |-> g[x]] /\ Solved(g, M) OBVIOUS
    <2> HIDE DEF g, Solved
    <2> QED BY <2>1
  <1>2. T \in SUBSET Nat OBVIOUS
  <1> HIDE DEF T
  <1>3. PICK r \in T : \A y \in T : r <= y BY <1>1, <1>2, MinimalNatural
  <1> USE DEF T
  <1>4. PICK g : g = [x \in 0 .. M - 1 |-> g[x]] /\ Solved(g, r) BY <1>3
  <1>5. r \in 1 .. M BY <1>3
  <1>6. CASE r # 1
    <2> DEFINE s == r - 1
               h == [x \in 0 .. M - 1 |-> IF x = s THEN Round(g, value, M, s) ELSE g[x]]
    <2>1. s \in 1 .. M - 1 /\ s < r /\ (\A x \in s .. M - 1 : x # s => x \in r .. M - 1)
      BY <1>5, <1>6
    <2>2. \A x \in 0 .. M - 1 : x # s => h[x] = g[x] OBVIOUS
    <2>3. h[s] = Round(g, value, M, s) /\ DOMAIN h = 0 .. M - 1 BY <2>1
    <2>4. h = [x \in 0 .. M - 1 |-> h[x]] OBVIOUS
    <2> HIDE DEF h, s
    <2>5. ASSUME NEW x \in s .. M - 1 PROVE Round(h, value, M, x) = Round(g, value, M, x)
      <3>1. x \in 1 .. M - 1 BY <2>1
      <3> DEFINE d == (2 * x) % M
      <3>2. d \in 0 .. M - 1 /\ d # x BY <3>1, DoublingMoves
      <3> HIDE DEF d
      <3>3. ~(d < x) => d # s BY <2>1, <3>1, <3>2
      <3>4. ~(d < x) => h[d] = g[d] BY <2>2, <3>2, <3>3
      <3> QED BY <3>4 DEF Round, d
    <2>6. \A x \in s .. M - 1 : h[x] = Round(h, value, M, x)
      <3> TAKE x \in s .. M - 1
      <3>1. CASE x = s BY <2>3, <2>5, <3>1
      <3>2. CASE x # s
        <4>1. x \in r .. M - 1 /\ x \in 0 .. M - 1 BY <1>5, <2>1, <3>2
        <4>2. g[x] = Round(g, value, M, x) BY <1>4, <4>1
        <4> QED BY <2>2, <2>5, <3>2, <4>1, <4>2
      <3> QED BY <3>1, <3>2
    <2>7. Solved(h, s) BY <2>3, <2>6
    <2>8. s \in T
      <3>1. s \in 1 .. M BY <2>1
      <3> HIDE DEF Solved
      <3> QED BY <2>4, <2>7, <3>1
    <2> HIDE DEF T
    <2>9. r <= s BY <1>3, <2>8
    <2> QED BY <1>5, <2>1, <2>9
  <1>7. CASE r = 1
    <2>1. Round(g, value, M, 0) = g[0]
      <3>1. ~(0 > value) OBVIOUS
      <3>2. (2 * 0) % M = 0 OBVIOUS
      <3> QED BY <3>1, <3>2 DEF Round
    <2>2. \A x \in 0 .. M - 1 : g[x] = Round(g, value, M, x)
      <3> TAKE x \in 0 .. M - 1
      <3>1. CASE x = 0 BY <2>1, <3>1
      <3>2. CASE x # 0
        <4>1. x \in 1 .. M - 1 BY <3>2
        <4> QED BY <1>4, <1>7, <4>1
      <3> QED BY <3>1, <3>2
    <2>3. Unrolls(g, value, M) BY <1>4, <2>2 DEF Unrolls
    <2> QED BY <2>3
  <1> QED BY <1>6, <1>7

(* Started at a power of two not above twice the value, the loop ends with *)
(* what reduceToPowerOfTwo promises, whether it wraps or not.              *)
LEMMA LoopReduces ==
    ASSUME NEW value \in Nat \ {0}, NEW g, Unrolls(g, value, 2 ^ Bits)
    PROVE  \A k \in 0 .. Bits - 1 :
              /\ g[2 ^ k] \in Nat
              /\ (value < 2 ^ Bits /\ 2 ^ k <= 2 * value) => IsReduced(value, g[2 ^ k])
  <1> DEFINE Good(k) == /\ g[2 ^ k] \in Nat
                        /\ (value < 2 ^ Bits /\ 2 ^ k <= 2 * value) => IsReduced(value, g[2 ^ k])
             T == {j \in 1 .. Bits : ~Good(Bits - j)}
  <1>1. Bits \in Nat \ {0} BY BitsAssumption
  <1>2. ASSUME T # {} PROVE FALSE
    <2>1. T \in SUBSET Nat OBVIOUS
    <2> HIDE DEF T
    <2>2. PICK j \in T : \A i \in T : j <= i BY <1>2, <2>1, MinimalNatural
    <2> USE DEF T
    <2> DEFINE k == Bits - j
               p == 2 ^ k
               M == 2 ^ Bits
    <2>3. j \in 1 .. Bits /\ ~Good(k) BY <2>2
    <2>4. k \in 0 .. Bits - 1 /\ k \in Nat /\ k + 1 \in Nat BY <1>1, <2>3
    <2>5. p \in Nat \ {0} /\ M \in Nat \ {0} /\ 2 ^ (k + 1) = 2 * p
      BY <1>1, <2>4, PowerType, PowerSucc
    <2> HIDE DEF k
    <2>6. k # 0 => \E q \in Nat : p = 2 * q /\ q = 2 ^ (k - 1) /\ IsPowerOfTwo(q)
      <3> SUFFICES ASSUME k # 0 PROVE p = 2 * 2 ^ (k - 1) /\ 2 ^ (k - 1) \in Nat /\ IsPowerOfTwo(2 ^ (k - 1))
        OBVIOUS
      <3>1. k - 1 \in Nat /\ (k - 1) + 1 = k /\ k - 1 \in 0 .. Bits - 1 BY <1>1, <2>4
      <3>2. p = 2 * 2 ^ (k - 1) BY <3>1, PowerSucc
      <3>3. 2 ^ (k - 1) \in Nat BY <3>1, PowerType
      <3>4. IsPowerOfTwo(2 ^ (k - 1)) BY <3>1 DEF IsPowerOfTwo
      <3> QED BY <3>2, <3>3, <3>4
    <2>7. k = 0 => p = 1 BY PowerZero
    <2>8. IsPowerOfTwo(p) BY <2>4 DEF IsPowerOfTwo
    <2>9. p \in 1 .. M - 1 /\ (k = Bits - 1 => 2 * p = M) /\ (k # Bits - 1 => 2 * p < M)
      <3>1. k = Bits - 1 => 2 * p = M BY <1>1, <2>5
      <3>2. k # Bits - 1 => 2 * p < M BY PowerMonotonic, <1>1, <2>4, <2>5
      <3> HIDE DEF p, M
      <3> QED BY <2>5, <3>1, <3>2
    <2>10. g[p] = Round(g, value, M, p)
      <3>1. Unrolls(g, value, M) BY DEF M
      <3> HIDE DEF p, M
      <3>2. p \in 0 .. M - 1 BY <2>5, <2>9
      <3> QED BY <3>1, <3>2 DEF Unrolls
    <2> HIDE DEF k, p, M
    <2>11. CASE p > value
      <3>1. g[p] = p \div 2 BY <2>10, <2>11 DEF Round
      <3>2. k # 0 BY <2>7, <2>11
      <3>3. PICK q \in Nat : p = 2 * q /\ IsPowerOfTwo(q) BY <2>6, <3>2
      <3>4. g[p] = q BY <3>1, <3>3
      <3>5. p <= 2 * value => IsReduced(value, q) BY <2>11, <3>3 DEF IsReduced
      <3> QED BY <2>3, <3>4, <3>5 DEF p
    <2>12. CASE ~(p > value) /\ 2 * p = M
      <3>0. p \in 1 .. M - 1 /\ 2 * p >= M /\ 2 * p - M = 0 BY <2>5, <2>9, <2>12
      <3>1. (2 * p) % M = 0 BY <2>5, <3>0, DoublingMoves
      <3>2. g[p] = p BY <2>5, <2>10, <2>12, <3>1 DEF Round
      <3>3. value < M => IsReduced(value, p) BY <2>5, <2>8, <2>12 DEF IsReduced
      <3> QED BY <2>3, <2>5, <3>2, <3>3 DEF p, M
    <2>13. CASE ~(p > value) /\ 2 * p < M
      <3>1. (2 * p) % M = 2 * p BY <2>5, <2>9, <2>13, DoublingMoves
      <3>2. g[p] = g[2 * p] BY <2>5, <2>10, <2>13, <3>1 DEF Round
      <3>3. k # Bits - 1 BY <2>9, <2>13
      <3>4. j - 1 \in 1 .. Bits /\ j - 1 < j /\ Bits - (j - 1) = k + 1 BY <1>1, <2>3, <2>4, <3>3 DEF k
      <3>5. Good(k + 1)
        <4> HIDE DEF Good
        <4>1. j - 1 \notin T
          <5> HIDE DEF T
          <5> QED BY <2>2, <3>4, <2>3
        <4> QED BY <3>4, <4>1
      <3>6. 2 * p <= 2 * value BY <2>5, <2>13
      <3>7. g[2 * p] \in Nat /\ (value < M => IsReduced(value, g[2 * p]))
        BY <2>5, <3>5, <3>6 DEF M
      <3> QED BY <2>3, <3>2, <3>7 DEF p, M
    <2> QED BY <2>5, <2>9, <2>11, <2>12, <2>13
  <1>3. ASSUME NEW k \in 0 .. Bits - 1 PROVE Good(k)
    <2>1. Bits - k \in 1 .. Bits /\ Bits - (Bits - k) = k BY <1>1
    <2> HIDE DEF Good
    <2> QED BY <1>2, <2>1
  <1> QED BY <1>3

(* reduceToPowerOfTwo, whatever the width of the unsigned type: "the       *)
(* largest power of 2 that is less than or equal to" its argument.         *)
THEOREM ReducesToPowerOfTwo ==
    \A value \in Nat :
        /\ reduceToPowerOfTwo(value) \in Nat
        /\ value < 2 ^ Bits => IsReduced(value, reduceToPowerOfTwo(value))
  <1> SUFFICES ASSUME NEW value \in Nat
               PROVE  /\ reduceToPowerOfTwo(value) \in Nat
                      /\ value < 2 ^ Bits => IsReduced(value, reduceToPowerOfTwo(value))
    OBVIOUS
  <1>1. CASE value = 0 BY <1>1 DEF reduceToPowerOfTwo, IsReduced
  <1>2. CASE value # 0 /\ IsPowerOfTwo(value)
    <2>1. reduceToPowerOfTwo(value) = value BY <1>2 DEF reduceToPowerOfTwo
    <2>2. value < 2 * value BY <1>2
    <2> QED BY <1>2, <2>1, <2>2 DEF IsReduced
  <1>3. CASE value # 0 /\ ~IsPowerOfTwo(value)
    <2> DEFINE g == CHOOSE g : Unrolls(g, value, 2 ^ Bits)
    <2>1. 2 ^ Bits \in Nat \ {0} BY BitsAssumption, PowerType
    <2>2. \E h : Unrolls(h, value, 2 ^ Bits) BY <1>3, <2>1, LoopExists
    <2>3. Unrolls(g, value, 2 ^ Bits) BY <2>2
    <2>4. reduceToPowerOfTwo(value) = g[1] BY <1>3, LoopIsChosen
    <2> HIDE DEF g
    <2>5. 0 \in 0 .. Bits - 1 BY BitsAssumption
    <2>6. /\ g[2 ^ 0] \in Nat
          /\ (value < 2 ^ Bits /\ 2 ^ 0 <= 2 * value) => IsReduced(value, g[2 ^ 0])
      BY <1>3, <2>3, <2>5, LoopReduces
    <2>7. 1 <= 2 * value BY <1>3
    <2> QED BY <2>4, <2>6, <2>7, PowerZero
  <1> QED BY <1>1, <1>2, <1>3

-----------------------------------------------------------------------------
(* PostParam keeps the types.                                              *)

LEMMA ClampNatural ==
    ASSUME NEW value \in Int, NEW range \in Nat \X Nat, range[1] <= range[2]
    PROVE  clampToRange(value, range) \in Nat
  <1>1. range \in Int \X Int /\ range[1] \in Nat OBVIOUS
  <1>2. range[1] <= clampToRange(value, range) /\ clampToRange(value, range) \in Int
    BY <1>1, ClampWithin DEF Within
  <1> QED BY <1>1, <1>2

LEMMA NaturalRanges ==
    \A r \in {multiplicativeDepth_range, batchSize_range, preMode_range, digitSize_range,
              larger_digitSize_range, scalTech_range, firstModSize_range, scalingModSize_range} :
        r \in Nat \X Nat /\ r[1] <= r[2]
  BY DEF multiplicativeDepth_range, batchSize_range, preMode_range, digitSize_range,
         larger_digitSize_range, scalTech_range, firstModSize_range, scalingModSize_range

LEMMA OptionalType ==
    ASSUME NEW S, NEW s \in Optional(S), NEW T, NEW t, DOMAIN t = DOMAIN s,
           t = [i \in DOMAIN s |-> t[i]], \A i \in DOMAIN s : t[i] \in T
    PROVE  t \in Optional(T)
  <1>1. s \in Seq(S) /\ Len(s) \in Nat /\ Len(s) <= 1 /\ DOMAIN s = 1 .. Len(s) BY DEF Optional
  <1>2. t \in [1 .. Len(s) -> T] BY <1>1
  <1>3. t \in Seq(T) /\ Len(t) = Len(s) BY <1>1, <1>2
  <1> QED BY <1>1, <1>3 DEF Optional

LEMMA ClampedType ==
    ASSUME NEW s \in Optional(Nat), NEW range \in Nat \X Nat, range[1] <= range[2]
    PROVE  Clamped(s, range) \in Optional(Nat)
  <1> DEFINE t == Clamped(s, range)
  <1>1. \A i \in DOMAIN s : s[i] \in Int BY DEF Optional
  <1>2. DOMAIN t = DOMAIN s /\ t = [i \in DOMAIN s |-> t[i]] BY DEF Clamped
  <1>3. \A i \in DOMAIN s : t[i] \in Nat BY <1>1, ClampNatural DEF Clamped
  <1> HIDE DEF t
  <1>4. t \in Optional(Nat) BY <1>2, <1>3, OptionalType
  <1> QED BY <1>4 DEF t

LEMMA ScalingModSizeType ==
    ASSUME NEW first, NEW s \in Optional(Nat)
    PROVE  ScalingModSize(first, s) \in Optional(Nat)
  <1> DEFINE t == ScalingModSize(first, s)
             settled(v) == LET size == clampToRange(v, scalingModSize_range)
                           IN  IF size = Value(first) THEN clampToRange(size - 1, scalingModSize_range)
                               ELSE size
  <1>1. \A i \in DOMAIN s : s[i] \in Int BY DEF Optional
  <1>2. scalingModSize_range \in Nat \X Nat /\ scalingModSize_range[1] <= scalingModSize_range[2]
    BY NaturalRanges
  <1>3. ASSUME NEW v \in Int PROVE settled(v) \in Nat
    <2>1. clampToRange(v, scalingModSize_range) \in Nat BY <1>2, ClampNatural
    <2>2. clampToRange(v, scalingModSize_range) - 1 \in Int BY <2>1
    <2>3. clampToRange(clampToRange(v, scalingModSize_range) - 1, scalingModSize_range) \in Nat
      BY <1>2, <2>2, ClampNatural
    <2> QED BY <2>1, <2>3
  <1>4. DOMAIN t = DOMAIN s /\ t = [i \in DOMAIN s |-> t[i]] BY DEF ScalingModSize
  <1>5. \A i \in DOMAIN s : t[i] = settled(s[i]) BY DEF ScalingModSize
  <1> HIDE DEF t, settled
  <1>6. \A i \in DOMAIN s : t[i] \in Nat BY <1>1, <1>3, <1>5
  <1>7. t \in Optional(Nat) BY <1>4, <1>6, OptionalType
  <1> QED BY <1>7 DEF t

LEMMA DeviationType ==
    ASSUME NEW s \in Optional(Reals) PROVE ClampedReals(s, standardDeviation_range) \in Optional(Reals)
  <1> DEFINE t == ClampedReals(s, standardDeviation_range)
  <1>1. \A i \in DOMAIN s : s[i] \in Reals BY DEF Optional
  <1>2. ASSUME NEW v \in Reals PROVE clampReal(v, standardDeviation_range) \in Reals
    <2>1. CASE v \in {NaN, Infinity} BY <2>1 DEF clampReal, Reals
    <2>2. CASE v \notin {NaN, Infinity}
      <3>1. v \in Int BY <2>2 DEF Reals
      <3>2. 2 * (v \div 2) \in Int BY <3>1
      <3>3. NotNegMod(2 * (v \div 2), 400000000) \in Int BY <3>2, NotNegModBounds
      <3>4. standardDeviation_range[2] - standardDeviation_range[1] = 400000000
            /\ standardDeviation_range[1] \in Int
        BY DEF standardDeviation_range
      <3> QED BY <2>2, <3>1, <3>2, <3>3, <3>4 DEF clampReal, Reals
    <2> QED BY <2>1, <2>2
  <1>3. DOMAIN t = DOMAIN s /\ t = [i \in DOMAIN s |-> t[i]] BY DEF ClampedReals
  <1>4. \A i \in DOMAIN s : t[i] \in Reals BY <1>1, <1>2 DEF ClampedReals
  <1> HIDE DEF t
  <1>5. t \in Optional(Reals) BY <1>3, <1>4, OptionalType
  <1> QED BY <1>5 DEF t

LEMMA BatchSizeType ==
    ASSUME NEW s \in Optional(Nat), NEW batch \in BatchSizes(s)
    PROVE  batch \in Optional(Nat)
  <1> DEFINE c == Clamped(s, batchSize_range)
  <1>1. c \in Optional(Nat) BY ClampedType, NaturalRanges
  <1> HIDE DEF c
  <1>2. PICK v \in Range(c) \cup {0} : batch = [i \in DOMAIN s |-> reduceToPowerOfTwo(v)]
    BY DEF BatchSizes, c
  <1>3. v \in Nat BY <1>1 DEF Optional, Range
  <1>4. reduceToPowerOfTwo(v) \in Nat BY <1>3, ReducesToPowerOfTwo
  <1>5. DOMAIN batch = DOMAIN s /\ batch = [i \in DOMAIN s |-> batch[i]]
        /\ \A i \in DOMAIN s : batch[i] \in Nat
    BY <1>2, <1>4
  <1> QED BY <1>5, OptionalType

LEMMA ParamType ==
    ASSUME NEW p \in Parameters, NEW batch \in Optional(Nat), NEW ks \in Optional(Nat),
           NEW security \in Nat
    PROVE  Param(p, batch, ks, security) \in Parameters
  <1> DEFINE depth == Depth(Clamped(p.multiplicativeDepth, multiplicativeDepth_range))
             mode == Clamped(p.PREMode, preMode_range)
             first == Clamped(p.firstModSize, firstModSize_range)
             scaling == ScalingModSize(first, p.scalingModSize)
             deviation == ClampedReals(p.standardDeviation, standardDeviation_range)
             mult == Clamped(p.multiplicativeDepth, multiplicativeDepth_range)
             tech == Clamped(p.scalTech, scalTech_range)
             digit == DigitSize([p EXCEPT !.ksTech = ks, !.PREMode = mode], depth)
             q == Param(p, batch, ks, security)
  <1>1. /\ p.PREMode \in Optional(Nat) /\ p.firstModSize \in Optional(Nat)
        /\ p.scalingModSize \in Optional(Nat) /\ p.standardDeviation \in Optional(Reals)
        /\ p.multiplicativeDepth \in Optional(Nat) /\ p.scalTech \in Optional(Nat)
        /\ p.digitSize \in Nat
    BY DEF Parameters
  <1>2. /\ mode \in Optional(Nat) /\ first \in Optional(Nat) /\ mult \in Optional(Nat)
        /\ tech \in Optional(Nat)
    BY <1>1, NaturalRanges, ClampedType
  <1>3. scaling \in Optional(Nat) BY <1>1, ScalingModSizeType
  <1>4. deviation \in Optional(Reals) BY <1>1, DeviationType
  <1>5. digit \in Nat
    <2> DEFINE r == [p EXCEPT !.ksTech = ks, !.PREMode = mode]
    <2>1. r.digitSize = p.digitSize BY DEF Parameters
    <2> HIDE DEF r
    <2>2. \A range \in {digitSize_range, larger_digitSize_range} :
             clampToRange(p.digitSize, range) \in Nat
      BY <1>1, NaturalRanges, ClampNatural
    <2>3. DigitSize(r, depth) \in Nat BY <2>1, <2>2 DEF DigitSize
    <2> QED BY <2>3 DEF r
  <1>6. q = [p EXCEPT !.multiplicativeDepth = mult, !.batchSize = batch, !.ksTech = ks,
                      !.PREMode = mode, !.digitSize = digit, !.standardDeviation = deviation,
                      !.scalTech = tech, !.firstModSize = first, !.scalingModSize = scaling,
                      !.numLargeDigits = 0, !.securityLevel = security, !.ringDim = 0]
    BY DEF Param, ParamFor
  <1> HIDE DEF mode, first, scaling, deviation, mult, tech, digit, q
  <1>7. q \in Parameters BY <1>2, <1>3, <1>4, <1>5, <1>6 DEF Parameters
  <1> QED BY <1>7 DEF q

-----------------------------------------------------------------------------
(* The rotation indexes that PostRotate leaves.                            *)

RotationsSettled(m) ==
    LET r == m.param.rotateIndexes
    IN  /\ \A i, j \in DOMAIN r : i # j => r[i] # r[j]
        /\ \A i \in DOMAIN r : Within(rotateIndex_range, r[i])
        /\ \A i \in DOMAIN r : i > MaxRotations => r[i] \in Used(m.apis)

ClampedIndexes(s) == Clamped(s, rotateIndex_range)

LEMMA ClampedIndexesType ==
    ASSUME NEW s \in Seq(Int)
    PROVE  /\ ClampedIndexes(s) \in Seq(Int) /\ Len(ClampedIndexes(s)) = Len(s)
           /\ \A i \in 1 .. Len(s) : Within(rotateIndex_range, ClampedIndexes(s)[i])
           /\ \A x \in Range(ClampedIndexes(s)) : x \in Int /\ Within(rotateIndex_range, x)
  <1> DEFINE c == ClampedIndexes(s)
             n == Len(s)
  <1>1. n \in Nat /\ DOMAIN s = 1 .. n /\ \A i \in 1 .. n : s[i] \in Int OBVIOUS
  <1> HIDE DEF n
  <1>2. \A i \in 1 .. n : /\ clampToRange(s[i], rotateIndex_range) \in Int
                          /\ Within(rotateIndex_range, clampToRange(s[i], rotateIndex_range))
    BY <1>1, ClampWithin, RangesAreRanges
  <1>3. c = [i \in 1 .. n |-> clampToRange(s[i], rotateIndex_range)]
    BY <1>1 DEF ClampedIndexes, Clamped
  <1> HIDE DEF c
  <1>4. c \in [1 .. n -> Int] /\ \A i \in 1 .. n : Within(rotateIndex_range, c[i]) BY <1>2, <1>3
  <1>5. c \in Seq(Int) /\ Len(c) = n BY <1>1, <1>4
  <1>6. \A x \in Range(c) : x \in Int /\ Within(rotateIndex_range, x) BY <1>4 DEF Range
  <1> QED BY <1>4, <1>5, <1>6 DEF c, n

LEMMA KeptType ==
    ASSUME NEW p \in Parameters
    PROVE  /\ Kept(p) \in Seq(Int) /\ Len(Kept(p)) <= MaxRotations
           /\ \A i \in 1 .. Len(Kept(p)) : Within(rotateIndex_range, Kept(p)[i])
  <1> DEFINE n == IF Len(p.rotateIndexes) < MaxRotations THEN Len(p.rotateIndexes) ELSE MaxRotations
             s == SubSeq(p.rotateIndexes, 1, n)
  <1>1. p.rotateIndexes \in Seq(Int) BY DEF Parameters
  <1>2. n \in Nat /\ n <= MaxRotations /\ n <= Len(p.rotateIndexes)
    BY <1>1, PostprocessAssumption
  <1> HIDE DEF n
  <1>3. s \in Seq(Int) /\ Len(s) = n
    <2>1. \A i \in 1 .. n : p.rotateIndexes[i] \in Int BY <1>1, <1>2
    <2>2. 1 \in Int /\ n \in Int BY <1>2
    <2>3. s \in Seq(Int) /\ Len(s) = IF 1 <= n THEN n - 1 + 1 ELSE 0 BY ONLY <2>1, <2>2, SubSeqProperties
    <2>4. (IF 1 <= n THEN n - 1 + 1 ELSE 0) = n BY <1>2
    <2> QED BY <2>3, <2>4
  <1> HIDE DEF s
  <1>4. Kept(p) = ClampedIndexes(s) BY DEF Kept, ClampedIndexes, s, n
  <1> QED BY <1>2, <1>3, <1>4, ClampedIndexesType

(* Indexes that were clamped are finitely many.                            *)
LEMMA UsedFinite ==
    ASSUME NEW apis, \A i \in DOMAIN apis : \A x \in Range(apis[i].index) :
                         x \in Int /\ Within(rotateIndex_range, x)
    PROVE  /\ Used(apis) \in SUBSET Int /\ IsFiniteSet(Used(apis))
           /\ \A x \in Used(apis) : Within(rotateIndex_range, x)
  <1>1. \A x \in Used(apis) : x \in Int /\ Within(rotateIndex_range, x) BY DEF Used
  <1>2. PICK lo \in Int, hi \in Int : lo = rotateIndex_range[1] /\ hi = rotateIndex_range[2]
    BY RangesAreRanges
  <1>3. Used(apis) \in SUBSET (lo .. hi) BY <1>1, <1>2 DEF Within
  <1>4. IsFiniteSet(lo .. hi) BY FS_Interval
  <1>5. IsFiniteSet(Used(apis)) BY <1>3, <1>4, FS_Subset
  <1> QED BY <1>1, <1>5

(* At most one index is kept, and what is added is in use and not kept.    *)
LEMMA RotationsListed ==
    ASSUME MaxRotations <= 1, NEW kept \in Seq(Int), Len(kept) <= MaxRotations,
           \A i \in 1 .. Len(kept) : Within(rotateIndex_range, kept[i]),
           NEW used \in SUBSET Int, IsFiniteSet(used),
           \A x \in used : Within(rotateIndex_range, x),
           NEW more \in SUBSET (used \ Range(kept))
    PROVE  LET r == kept \o Ascending(more)
           IN  /\ \A i, j \in DOMAIN r : i # j => r[i] # r[j]
               /\ \A i \in DOMAIN r : Within(rotateIndex_range, r[i])
               /\ \A i \in DOMAIN r : i > MaxRotations => r[i] \in used
  <1> DEFINE a == Ascending(more)
             r == kept \o a
             m == Len(kept)
             n == Len(a)
  <1>1. more \in SUBSET Int /\ IsFiniteSet(more) BY FS_Subset
  <1>2. a \in Seq(more) /\ \A i, j \in DOMAIN a : i # j => a[i] # a[j] BY <1>1, AscendingLists
  <1> HIDE DEF a
  <1>3. a \in Seq(Int) BY <1>1, <1>2, SeqMonotonic
  <1>4. /\ m \in Nat /\ n \in Nat /\ DOMAIN kept = 1 .. m /\ DOMAIN a = 1 .. n
        /\ DOMAIN r = 1 .. m + n
        /\ \A i \in 1 .. m : r[i] = kept[i]
        /\ \A i \in 1 .. m + n : i > m => i - m \in 1 .. n /\ r[i] = a[i - m]
    BY <1>3
  <1>5. \A i \in 1 .. n : a[i] \in more BY <1>2, <1>4
  <1>6. \A i \in 1 .. m : kept[i] \in Range(kept) BY <1>4 DEF Range
  <1>7. m <= 1 /\ m <= MaxRotations /\ MaxRotations \in Nat BY <1>4, PostprocessAssumption
  <1> HIDE DEF r, m, n
  <1>8. \A i \in 1 .. m + n : i > m => r[i] \in more BY <1>4, <1>5
  <1>9. \A i \in 1 .. m + n : ~(i > m) => i \in 1 .. m /\ i = 1 /\ r[i] \in Range(kept)
    BY <1>4, <1>6, <1>7
  <1>10. ASSUME NEW i \in 1 .. m + n, NEW j \in 1 .. m + n, i # j PROVE r[i] # r[j]
    <2>1. CASE i > m /\ j > m
      <3>1. i - m \in 1 .. n /\ j - m \in 1 .. n /\ r[i] = a[i - m] /\ r[j] = a[j - m] BY <1>4, <2>1
      <3>2. i - m # j - m BY <1>4, <1>10
      <3> QED BY <1>2, <1>4, <3>1, <3>2
    <2>2. CASE i > m /\ ~(j > m) BY <1>8, <1>9, <2>2
    <2>3. CASE ~(i > m) /\ j > m BY <1>8, <1>9, <2>3
    <2>4. CASE ~(i > m) /\ ~(j > m) BY <1>9, <1>10, <2>4
    <2> QED BY <2>1, <2>2, <2>3, <2>4
  <1>11. ASSUME NEW i \in 1 .. m + n PROVE Within(rotateIndex_range, r[i])
    <2>1. CASE i > m BY <1>8, <2>1
    <2>2. CASE ~(i > m) BY <1>4, <1>9, <2>2 DEF m
    <2> QED BY <2>1, <2>2
  <1>12. ASSUME NEW i \in 1 .. m + n, i > MaxRotations PROVE r[i] \in used
    <2>1. i > m BY <1>4, <1>7, <1>12
    <2> QED BY <1>8, <2>1
  <1>13. DOMAIN r = 1 .. m + n BY <1>4
  <1> QED BY <1>10, <1>11, <1>12, <1>13 DEF r, a

-----------------------------------------------------------------------------
(* The parameters are settled by the section that comes first, the         *)
(* rotations by the second; the sections after them leave both alone.      *)
LeaveInv ==
    /\ PostInv
    /\ msg.param \in Parameters
    /\ dataNum \in Nat
    /\ next \in 1 .. Len(msg.apis) + 1
    /\ pc \in {"idle", "param", "rotate", "evalData", "count"} => next = 1
    /\ pc \in {"rotate", "evalData", "count", "api", "done"} =>
          DigitSizeSettled(msg.param) /\ ModSizesSettled(msg.param)
    /\ MaxRotations <= 1 /\ pc \in {"evalData", "count", "api", "done"} => RotationsSettled(msg)

LEMMA LeaveInit == ASSUME Init PROVE LeaveInv
  <1>1. PostInv BY PostInit
  <1>2. msg.param \in Parameters BY DEF Init, NoMessage, Parameters, Optional
  <1>3. dataNum \in Nat /\ next = 1 /\ pc = "idle" /\ msg.apis = <<>> BY DEF Init, NoMessage
  <1> QED BY <1>1, <1>2, <1>3 DEF LeaveInv

LEMMA PaddedKeepsIndex ==
    ASSUME NEW a \in Apis, NEW s, NEW w PROVE Padded(ClampedApi(a), s, w).index = a.index
  BY DEF Padded, ClampedApi, Apis

LEMMA LeaveParam == ASSUME LeaveInv, PostInv', PostParam PROVE LeaveInv'
  <1>1. PICK batch \in BatchSizes(msg.param.batchSize),
             ks \in IF msg.param.ksTech = <<INVALID_KS_TECH>>
                    THEN {<<k>> : k \in ksTech_range[1] .. ksTech_range[2]}
                    ELSE {msg.param.ksTech},
             security \in IF msg.param.securityLevel \in {HEStd_NotSet, HEStd_256_classic}
                          THEN securityLevel_range[1] .. securityLevel_range[2]
                          ELSE {msg.param.securityLevel} :
             msg' = [msg EXCEPT !.param = Param(@, batch, ks, security)]
    BY DEF PostParam
  <1>2. /\ msg.param \in Parameters /\ msg.param.batchSize \in Optional(Nat)
        /\ msg.param.ksTech \in Optional(Nat) /\ msg.param.securityLevel \in Nat
    BY DEF LeaveInv, Parameters
  <1>3. batch \in Optional(Nat) BY <1>2, BatchSizeType
  <1>4. ks \in Optional(Nat)
    <2>1. \A k \in 1 .. 2 : <<k>> \in Optional(Nat) BY DEF Optional
    <2> QED BY <1>2, <2>1 DEF ksTech_range
  <1>5. security \in Nat BY <1>2 DEF securityLevel_range
  <1> DEFINE q == Param(msg.param, batch, ks, security)
  <1>6. q \in Parameters BY <1>2, <1>3, <1>4, <1>5, ParamType
  <1>7. DigitSizeSettled(q) /\ ModSizesSettled(q) BY <1>2, ParamIsSettled
  <1>8. msg'.param = q /\ msg'.apis = msg.apis BY <1>1 DEF LeaveInv, PostInv, Shaped
  <1> HIDE DEF q
  <1>9. /\ pc = "param" /\ pc' = "rotate" /\ next' = next /\ dataNum' = dataNum
        /\ next = 1 /\ dataNum \in Nat /\ next \in 1 .. Len(msg.apis) + 1
    BY DEF PostParam, LeaveInv
  <1> QED BY <1>6, <1>7, <1>8, <1>9 DEF LeaveInv

LEMMA LeaveRotate == ASSUME LeaveInv, PostInv', PostRotate PROVE LeaveInv'
  <1> DEFINE apis == [i \in DOMAIN msg.apis |-> ClampedRotation(msg.apis[i])]
             kept == Kept(msg.param)
  <1>1. PICK more \in SUBSET (Used(apis) \ Range(kept)) :
             msg' = [msg EXCEPT !.apis = apis,
                                !.param.rotateIndexes = kept \o Ascending(more),
                                !.param.encryptionTechnique = STANDARD]
    BY DEF PostRotate
  <1>2. msg.param \in Parameters /\ msg.apis \in Seq(Apis)
        /\ msg = [param |-> msg.param, apis |-> msg.apis, lists |-> msg.lists]
    BY DEF LeaveInv, PostInv, Shaped
  <1>3. /\ kept \in Seq(Int) /\ Len(kept) <= MaxRotations
        /\ \A i \in 1 .. Len(kept) : Within(rotateIndex_range, kept[i])
    BY <1>2, KeptType
  <1>4. \A i \in DOMAIN msg.apis : msg.apis[i] \in Apis BY <1>2
  <1>5. ASSUME NEW i \in DOMAIN msg.apis
        PROVE  \A x \in Range(apis[i].index) : x \in Int /\ Within(rotateIndex_range, x)
    <2>1. msg.apis[i] \in Apis /\ msg.apis[i].index \in Seq(Int) BY <1>4 DEF Apis
    <2>2. ClampedRotation(msg.apis[i]).index = ClampedIndexes(msg.apis[i].index)
      BY <2>1 DEF ClampedRotation, ClampedIndexes, Apis
    <2> QED BY <2>1, <2>2, ClampedIndexesType
  <1>6. DOMAIN apis = DOMAIN msg.apis /\ Len(apis) = Len(msg.apis)
    <2>1. Len(msg.apis) \in Nat /\ DOMAIN msg.apis = 1 .. Len(msg.apis) BY <1>2
    <2>2. DOMAIN apis = 1 .. Len(msg.apis) BY <2>1
    <2> HIDE DEF apis
    <2> QED BY <2>1, <2>2
  <1> HIDE DEF apis, kept
  <1>7. /\ Used(apis) \in SUBSET Int /\ IsFiniteSet(Used(apis))
        /\ \A x \in Used(apis) : Within(rotateIndex_range, x)
    BY <1>5, <1>6, UsedFinite
  <1> DEFINE r == kept \o Ascending(more)
  <1>8. MaxRotations <= 1 =>
          /\ \A i, j \in DOMAIN r : i # j => r[i] # r[j]
          /\ \A i \in DOMAIN r : Within(rotateIndex_range, r[i])
          /\ \A i \in DOMAIN r : i > MaxRotations => r[i] \in Used(apis)
    BY <1>3, <1>7, RotationsListed
  <1>9. r \in Seq(Int)
    <2>1. more \in SUBSET Int /\ IsFiniteSet(more) BY <1>7, FS_Subset
    <2>2. Ascending(more) \in Seq(more) BY <2>1, AscendingLists
    <2>3. Ascending(more) \in Seq(Int) BY <2>1, <2>2, SeqMonotonic
    <2> QED BY <1>3, <2>3
  <1> HIDE DEF r
  <1>10. msg' = [param |-> [[msg.param EXCEPT !.rotateIndexes = r] EXCEPT !.encryptionTechnique = STANDARD],
                 apis |-> apis, lists |-> msg.lists]
    BY <1>1, <1>2 DEF r
  <1>11. /\ msg'.param \in Parameters /\ msg'.param.rotateIndexes = r /\ msg'.apis = apis
         /\ msg'.param.digitSize = msg.param.digitSize
         /\ msg'.param.multiplicativeDepth = msg.param.multiplicativeDepth
         /\ msg'.param.firstModSize = msg.param.firstModSize
         /\ msg'.param.scalingModSize = msg.param.scalingModSize
    <2> DEFINE q == [[msg.param EXCEPT !.rotateIndexes = r] EXCEPT !.encryptionTechnique = STANDARD]
    <2>1. STANDARD \in Nat BY DEF STANDARD
    <2>2. q \in Parameters BY <1>2, <1>9, <2>1 DEF Parameters
    <2>3. /\ q.rotateIndexes = r /\ q.digitSize = msg.param.digitSize
          /\ q.multiplicativeDepth = msg.param.multiplicativeDepth
          /\ q.firstModSize = msg.param.firstModSize /\ q.scalingModSize = msg.param.scalingModSize
      BY <1>2 DEF Parameters
    <2>4. msg'.param = q /\ msg'.apis = apis BY <1>10
    <2> HIDE DEF q
    <2> QED BY <2>2, <2>3, <2>4
  <1>12. /\ pc = "rotate" /\ pc' = "evalData" /\ next' = next /\ dataNum' = dataNum
         /\ next = 1 /\ dataNum \in Nat /\ next \in 1 .. Len(msg.apis) + 1
         /\ DigitSizeSettled(msg.param) /\ ModSizesSettled(msg.param)
    BY DEF PostRotate, LeaveInv
  <1>13. DigitSizeSettled(msg.param)' /\ ModSizesSettled(msg.param)'
    BY <1>11, <1>12 DEF DigitSizeSettled, ModSizesSettled
  <1>14. MaxRotations <= 1 => RotationsSettled(msg)'
    BY <1>8, <1>11 DEF RotationsSettled
  <1>15. next' \in 1 .. Len(msg'.apis) + 1 BY <1>6, <1>11, <1>12
  <1> QED BY <1>11, <1>12, <1>13, <1>14, <1>15 DEF LeaveInv

LEMMA LeaveApi == ASSUME LeaveInv, PostInv', PostApi PROVE LeaveInv'
  <1>1. PICK s, w : msg' = [msg EXCEPT !.apis[next] = Padded(ClampedApi(msg.apis[next]), s, w)]
    BY DEF PostApi
  <1>2. /\ msg = [param |-> msg.param, apis |-> msg.apis, lists |-> msg.lists]
        /\ msg.apis \in Seq(Apis) /\ next \in DOMAIN msg.apis /\ msg.apis[next] \in Apis
        /\ DOMAIN msg.apis = 1 .. Len(msg.apis) /\ Len(msg.apis) \in Nat
    BY DEF LeaveInv, PostInv, Shaped, PostApi
  <1> DEFINE b == Padded(ClampedApi(msg.apis[next]), s, w)
  <1>3. b.index = msg.apis[next].index BY <1>2, PaddedKeepsIndex
  <1>4. msg'.apis = [msg.apis EXCEPT ![next] = b] /\ msg'.param = msg.param BY <1>1, <1>2
  <1> HIDE DEF b
  <1>5. DOMAIN msg'.apis = DOMAIN msg.apis
        /\ \A i \in DOMAIN msg.apis : msg'.apis[i].index = msg.apis[i].index
    BY <1>2, <1>3, <1>4
  <1>6. Used(msg'.apis) = Used(msg.apis) BY <1>5 DEF Used
  <1>7. Len(msg'.apis) = Len(msg.apis) BY <1>2, <1>4
  <1>8. pc = "api" /\ pc' = "api" /\ next' = next + 1 /\ dataNum' = dataNum
        /\ next \in 1 .. Len(msg.apis)
    BY <1>2 DEF PostApi
  <1>9. RotationsSettled(msg) => RotationsSettled(msg)' BY <1>4, <1>6 DEF RotationsSettled
  <1>10. next' \in 1 .. Len(msg'.apis) + 1 BY <1>2, <1>7, <1>8
  <1> QED BY <1>4, <1>8, <1>9, <1>10 DEF LeaveInv

LEMMA LeaveStep == ASSUME LeaveInv, [Next]_vars PROVE LeaveInv'
  <1>0. PostInv' BY PostStep DEF LeaveInv
  <1>1. CASE UNCHANGED vars
    BY <1>0, <1>1 DEF vars, LeaveInv, DigitSizeSettled, ModSizesSettled, RotationsSettled
  <1>2. CASE Receive
    <2>1. msg' \in Messages BY <1>2, PostprocessAssumption DEF Receive
    <2>2. msg'.param \in Parameters /\ Len(msg'.apis) \in Nat BY <2>1 DEF Messages
    <2> QED BY <1>0, <1>2, <2>2 DEF Receive, LeaveInv
  <1>3. CASE PostParam BY <1>0, <1>3, LeaveParam
  <1>4. CASE PostRotate BY <1>0, <1>4, LeaveRotate
  <1>5. CASE PostEvalData
    <2>1. PICK lists : msg' = [msg EXCEPT !.lists = lists] BY <1>5 DEF PostEvalData
    <2>2. msg'.param = msg.param /\ msg'.apis = msg.apis
      BY <2>1 DEF LeaveInv, PostInv, Shaped
    <2> QED BY <1>0, <1>5, <2>2
        DEF PostEvalData, LeaveInv, DigitSizeSettled, ModSizesSettled, RotationsSettled
  <1>6. CASE CountData
    <2>1. Len(msg.lists) \in Nat /\ Len(msg.apis) \in Nat BY DEF LeaveInv, PostInv, Shaped
    <2> QED BY <1>0, <1>6, <2>1
        DEF CountData, LeaveInv, DigitSizeSettled, ModSizesSettled, RotationsSettled
  <1>7. CASE PostApi BY <1>0, <1>7, LeaveApi
  <1>8. CASE Serialise
    BY <1>0, <1>8 DEF Serialise, LeaveInv, DigitSizeSettled, ModSizesSettled, RotationsSettled
  <1>9. CASE Return
    <2>1. NoMessage.param \in Parameters BY DEF NoMessage, Parameters, Optional
    <2>2. Len(NoMessage.apis) = 0 BY DEF NoMessage
    <2> QED BY <1>0, <1>9, <2>1, <2>2 DEF Return, LeaveInv
  <1> QED BY <1>1, <1>2, <1>3, <1>4, <1>5, <1>6, <1>7, <1>8, <1>9 DEF Next

LEMMA LeaveImplies ==
    ASSUME LeaveInv
    PROVE  /\ TypeOK /\ DigitSizeFitsDepth /\ SetModSizesDiffer
           /\ MaxRotations <= 1 => RotationsDistinct
  <1>1. TypeOK
    <2>1. msg \in Messages BY DEF LeaveInv, PostInv, Shaped, Messages
    <2> QED BY <2>1 DEF LeaveInv, PostInv, TypeOK
  <1>2. DigitSizeFitsDepth BY DEF LeaveInv, DigitSizeFitsDepth, DigitSizeSettled, Done
  <1>3. SetModSizesDiffer BY DEF LeaveInv, SetModSizesDiffer, ModSizesSettled, Done
  <1>4. MaxRotations <= 1 => RotationsDistinct
    BY DEF LeaveInv, RotationsDistinct, RotationsSettled, Done
  <1> QED BY <1>1, <1>2, <1>3, <1>4

(* Post-processing keeps every field of a message within its type, from    *)
(* section to section and from message to message.                         *)
THEOREM PostprocessTypes == Spec => []TypeOK
  <1>1. Init => LeaveInv BY LeaveInit
  <1>2. LeaveInv /\ [Next]_vars => LeaveInv' BY LeaveStep
  <1>3. LeaveInv => TypeOK BY LeaveImplies
  <1> QED BY <1>1, <1>2, <1>3, PTL DEF Spec

(* Whatever digit size, depth and modes come in, the digit size fits the   *)
(* depth that leaves with it.                                              *)
THEOREM DigitSizeFits == Spec => []DigitSizeFitsDepth
  <1>1. Init => LeaveInv BY LeaveInit
  <1>2. LeaveInv /\ [Next]_vars => LeaveInv' BY LeaveStep
  <1>3. LeaveInv => DigitSizeFitsDepth BY LeaveImplies
  <1> QED BY <1>1, <1>2, <1>3, PTL DEF Spec

(* Two sizes that are set leave different, also at the borders of their    *)
(* ranges.                                                                 *)
THEOREM SetSizesDiffer == Spec => []SetModSizesDiffer
  <1>1. Init => LeaveInv BY LeaveInit
  <1>2. LeaveInv /\ [Next]_vars => LeaveInv' BY LeaveStep
  <1>3. LeaveInv => SetModSizesDiffer BY LeaveImplies
  <1> QED BY <1>1, <1>2, <1>3, PTL DEF Spec

(* As long as the code keeps at most one listed rotation                   *)
(* (rotateIndexed_maxNum is 1), those that leave are distinct, in range    *)
(* and, but for the one kept, all in use.  Two that are kept could be the  *)
(* same.                                                                   *)
THEOREM RotationsAreDistinct ==
    ASSUME MaxRotations <= 1 PROVE Spec => []RotationsDistinct
  <1>1. Init => LeaveInv BY LeaveInit
  <1>2. LeaveInv /\ [Next]_vars => LeaveInv' BY LeaveStep
  <1>3. LeaveInv => RotationsDistinct BY LeaveImplies
  <1> QED BY <1>1, <1>2, <1>3, PTL DEF Spec

(* A set batch size leaves as the largest power of two that is not above   *)
(* what it was clamped to, or as 0, whatever the width of the type.        *)
THEOREM BatchSizeLargestPower ==
    ASSUME batchSize_range[2] < 2 ^ Bits PROVE Spec => LargestPower
  <1> DEFINE Becomes == \A i \in DOMAIN msg.param.batchSize :
                 \/ IsReduced(Clamped(msg.param.batchSize, batchSize_range)[i], msg'.param.batchSize[i])
                 \/ msg'.param.batchSize[i] = 0
             Action == pc = "param" => Becomes
  <1>1. Init => LeaveInv BY LeaveInit
  <1>2. LeaveInv /\ [Next]_vars => LeaveInv' BY LeaveStep
  <1>3. LeaveInv /\ [Next]_vars => [Action]_vars
    <2> SUFFICES ASSUME LeaveInv, [Next]_vars, vars' # vars, pc = "param" PROVE Becomes
      OBVIOUS
    <2>1. PostParam
      BY DEF Next, Receive, PostRotate, PostEvalData, CountData, PostApi, Serialise, Return
    <2>2. PICK batch, ks, security :
               /\ batch \in BatchSizes(msg.param.batchSize)
               /\ msg' = [msg EXCEPT !.param = Param(@, batch, ks, security)]
      BY <2>1 DEF PostParam
    <2>3. msg.param \in Parameters /\ msg.param.batchSize \in Optional(Nat)
      BY DEF LeaveInv, Parameters
    <2>4. msg'.param = Param(msg.param, batch, ks, security)
      BY <2>2 DEF LeaveInv, PostInv, Shaped
    <2>5. msg'.param.batchSize = batch BY <2>3, <2>4 DEF Param, ParamFor, Parameters
    <2> DEFINE size == msg.param.batchSize
               c == Clamped(size, batchSize_range)
    <2>6. PICK v \in Range(c) \cup {0} : batch = [i \in DOMAIN size |-> reduceToPowerOfTwo(v)]
      BY <2>2 DEF BatchSizes
    <2>7. c \in Optional(Nat) /\ DOMAIN c = DOMAIN size
      BY <2>3, ClampedType, NaturalRanges DEF Clamped
    <2>8. ASSUME NEW i \in DOMAIN size
          PROVE  IsReduced(c[i], batch[i]) \/ batch[i] = 0
      <3>1. CASE v = 0
        <4>1. reduceToPowerOfTwo(0) = 0 BY DEF reduceToPowerOfTwo
        <4> QED BY <2>6, <3>1, <4>1
      <3>2. CASE v \in Range(c)
        <4>1. i = 1 /\ size[i] \in Int BY <2>3 DEF Optional
        <4>2. DOMAIN c \subseteq {1} BY <2>7 DEF Optional
        <4>3. v = c[i] BY <2>7, <3>2, <4>1, <4>2 DEF Range
        <4>4. c[i] = clampToRange(size[i], batchSize_range) BY DEF Clamped
        <4>5. batchSize_range \in Int \X Int /\ batchSize_range[1] <= batchSize_range[2]
          BY DEF batchSize_range
        <4>6. c[i] <= batchSize_range[2] /\ c[i] \in Nat
          BY <2>7, <4>1, <4>4, <4>5, ClampWithin DEF Within, Optional
        <4>7. 2 ^ Bits \in Nat BY PowerType, BitsAssumption
        <4>8. c[i] < 2 ^ Bits BY <4>5, <4>6, <4>7
        <4>9. IsReduced(c[i], reduceToPowerOfTwo(c[i])) BY <4>6, <4>8, ReducesToPowerOfTwo
        <4> QED BY <2>6, <4>3, <4>9
      <3> QED BY <2>6, <3>1, <3>2
    <2> QED BY <2>5, <2>8
  <1> QED BY <1>1, <1>2, <1>3, PTL DEF Spec, LargestPower
=============================================================================
