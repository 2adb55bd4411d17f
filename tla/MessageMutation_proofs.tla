------------------------ MODULE MessageMutation_proofs ------------------------
(* Mutator::Mutate: first the documented size limit, for the messages for  *)
(* which the code keeps it, those without embedded messages and without    *)
(* groups of several members (MutateFits shows that it is broken for the   *)
(* others); then, for every schema, what a call may do to repeated fields  *)
(* and to groups.                                                          *)
EXTENDS MessageMutation, ProtoMessage_proofs, WellFoundedInduction

(* No embedded messages, and every oneof is a proto3 `optional`.           *)
Flat ==
    \A f \in DOMAIN RootType :
        ~IsMessageType(RootType[f]) /\ Group(RootType, f) = {f}

SizeLaws == \A m : IsRoot(m) => SizeLawsAt(m)

(* The budget in remain and in the one activation is exact: remain_size is *)
(* max_size minus the current size at the top of every iteration.          *)
BudgetExact ==
    /\ remain = maxSize - RootSize(root)
    /\ stack # <<>> =>
          \E f \in Nat \ {0} : stack = <<Frame(<<>>, f, maxSize)>>

FlatInv ==
    /\ BudgetExact
    /\ NeverGrowsPastLimit
    /\ IsRoot(root) /\ IsRoot(seed) /\ maxSize \in Nat

(* What a field of a flat message may hold.                                *)
Fits(f, c) ==
    /\ c \in Seq(Scalars)
    /\ ~IsRepeated(RootType[f]) => Len(c) <= 1
    /\ (RootType[f].kind = "scalar" /\ RootType[f].oneof = 0) => c # <<Default>>

LEMMA FlatRoot ==
    ASSUME Flat, NEW m
    PROVE  IsRoot(m) <=> /\ m = [f \in DOMAIN RootType |-> m[f]]
                         /\ \A f \in DOMAIN RootType : Fits(f, m[f])
  BY DEF Flat, IsRoot, Holds, Fits

LEMMA PutField ==
    ASSUME Flat, NEW m, IsRoot(m), NEW f \in DOMAIN RootType, NEW c, Fits(f, c)
    PROVE  IsRoot([m EXCEPT ![f] = c])
  BY FlatRoot

(* A nonempty set of positions has a last one.                             *)
LEMMA LastPosition ==
    ASSUME NEW n \in Nat, NEW S \in SUBSET (1 .. n), S # {}
    PROVE  \E i \in S : \A j \in S : j <= i
  <1> DEFINE back == {n - i : i \in S}
  <1>1. back \subseteq Nat /\ back # {}
    <2>1. \A i \in S : i \in 1 .. n OBVIOUS
    <2>2. \A i \in 1 .. n : n - i \in Nat OBVIOUS
    <2>3. PICK i \in S : TRUE OBVIOUS
    <2>4. n - i \in back OBVIOUS
    <2> QED BY <2>1, <2>2, <2>4
  <1>2. PICK x \in back : \A y \in back : <<y, x>> \notin OpToRel(<, Nat)
    BY <1>1, WFMin, NatLessThanWellFounded
  <1>3. \A y \in back : ~(y < x) BY <1>1, <1>2 DEF OpToRel
  <1>4. PICK i \in S : x = n - i OBVIOUS
  <1>5. ASSUME NEW j \in S PROVE j <= i
    <2>1. n - j \in back OBVIOUS
    <2>2. ~(n - j < n - i) BY <1>3, <1>4, <2>1
    <2>3. i \in 1 .. n /\ j \in 1 .. n OBVIOUS
    <2> QED BY <2>2, <2>3
  <1> QED BY <1>5

(* MutateRepeatedField leaves the message as it was, or within max: after  *)
(* the last element it changed, the message is already the result.         *)
LEMMA MutateRepeatedWithinMax ==
    ASSUME NEW m, NEW f \in DOMAIN m, NEW max,
           m = [h \in DOMAIN m |-> m[h]], m[f] \in Seq(Scalars),
           NEW x \in MutateRepeatedField(<<>>, m, f, max)
    PROVE  x = m \/ RootSize(x) <= max
  <1>1. PICK c \in [DOMAIN m[f] -> Scalars] : x = [m EXCEPT ![f] = c]
    BY DEF MutateRepeatedField
  <1>2. x[f] = c BY <1>1
  <1> DEFINE S == {i \in DOMAIN m[f] : x[f][i] # m[f][i]}
  <1>3. Len(m[f]) \in Nat /\ DOMAIN m[f] = 1 .. Len(m[f]) OBVIOUS
  <1>4. CASE S = {}
    <2>1. c = m[f] BY <1>2, <1>3, <1>4
    <2> QED BY <1>1, <2>1
  <1>5. CASE S # {}
    <2>1. PICK i \in S : \A j \in S : j <= i
      BY <1>3, <1>5, LastPosition
    <2>2. [j \in DOMAIN m[f] |-> IF j <= i THEN x[f][j] ELSE m[f][j]] = c
      BY <1>2, <1>3, <2>1
    <2>3. RootSize([m EXCEPT ![f] = [j \in DOMAIN m[f] |->
                    IF j <= i THEN x[f][j] ELSE m[f][j]]]) <= max
      BY <2>1 DEF MutateRepeatedField, SizeAt
    <2> QED BY <1>1, <2>2, <2>3
  <1> QED BY <1>4, <1>5

(* The messages a helper may leave behind without breaking the limit.      *)
Keeps(m) == IsRoot(m) /\ (RootSize(m) <= maxSize \/ RootSize(m) <= RootSize(root))

(* The end of an iteration that leaves such a message preserves the        *)
(* invariant.                                                              *)
LEMMA EndFieldPreserves ==
    ASSUME SizeLaws, FlatInv, NEW m, InLoop, EndField(m), Keeps(m)
    PROVE  FlatInv'
  <1>1. PICK f \in Nat \ {0} : stack = <<Frame(<<>>, f, maxSize)>>
    BY DEF FlatInv, BudgetExact, InLoop
  <1>2. Len(stack) = 1 /\ Top = Frame(<<>>, f, maxSize) /\ Top.at = <<>>
        /\ Top.max = maxSize /\ Top.field = f
    BY <1>1 DEF Top, Last, Frame
  <1>3. root' = m /\ remain' = maxSize - RootSize(m) /\ UNCHANGED <<seed, maxSize>>
    BY <1>2 DEF EndField, PutAt, Size, SizeAt, call
  <1>4. stack' = <<Frame(<<>>, f + 1, maxSize)>>
    BY <1>1, <1>2 DEF EndField
  <1>5. RootSize(m) \in Nat /\ RootSize(root) \in Nat /\ RootSize(seed) \in Nat
    BY DEF SizeLaws, SizeLawsAt, FlatInv, Keeps
  <1>6. IsRoot(root') /\ IsRoot(seed') BY <1>3 DEF FlatInv, Keeps, IsRoot
  <1> QED BY <1>3, <1>4, <1>5, <1>6 DEF FlatInv, BudgetExact, NeverGrowsPastLimit, Keeps

(* In a flat message every activation works on the outer message, and a    *)
(* helper's max_size is the max_size of the call.                          *)
LEMMA AtRoot ==
    ASSUME SizeLaws, Flat, FlatInv, InLoop
    PROVE  /\ Top.at = <<>> /\ Msg = root /\ Type = RootType /\ F \in DOMAIN RootType
           /\ HelperMax = maxSize
           /\ \A x : Size(x) = RootSize(x)
           /\ Group(Type, F) = {F} /\ ~IsMessageType(Type[F])
  <1>1. PICK f \in Nat \ {0} : stack = <<Frame(<<>>, f, maxSize)>>
    BY DEF FlatInv, BudgetExact, InLoop
  <1>2. Top = Frame(<<>>, f, maxSize) BY <1>1 DEF Top, Last
  <1>3. Top.at = <<>> /\ Msg = root /\ Type = RootType /\ F \in DOMAIN RootType
    BY <1>2, TypesAssumption DEF Frame, Msg, MessageAt, Type, TypeAt, F, InLoop
  <1>4. \A x : Size(x) = RootSize(x) BY <1>3 DEF Size, SizeAt
  <1>5. HelperMax = maxSize
    BY <1>3, <1>4 DEF HelperMax, FlatInv, BudgetExact, SizeLaws, SizeLawsAt
  <1> QED BY <1>3, <1>4, <1>5 DEF Flat

LEMMA AddKeeps ==
    ASSUME SizeLaws, Flat, FlatInv, InLoop, NEW m,
           \/ m \in AddUnsetField(Top.at, Msg, F, HelperMax) /\ ~IsRepeated(Type[F])
           \/ m \in MutateSetField(Top.at, Msg, F, HelperMax) /\ ~IsRepeated(Type[F])
           \/ m \in AddRepeatedField(Top.at, Msg, F, HelperMax) /\ IsRepeated(Type[F])
    PROVE  Keeps(m)
  <1>0. /\ Top.at = <<>> /\ Msg = root /\ Type = RootType /\ F \in DOMAIN RootType
        /\ HelperMax = maxSize /\ \A x : Size(x) = RootSize(x)
        /\ Group(RootType, F) = {F} /\ ~IsMessageType(RootType[F])
    BY AtRoot
  <1> USE <1>0
  <1>1. IsRoot(root) /\ RootSize(root) \in Nat /\ maxSize \in Nat
    BY DEF FlatInv, SizeLaws, SizeLawsAt
  <1>2. ASSUME NEW v \in Scalars PROVE IsRoot(SetField(RootType, root, F, v))
               \/ IsRepeated(RootType[F])
    <2> DEFINE c == Content(RootType, F, v)
    <2>1. SetField(RootType, root, F, v) = [root EXCEPT ![F] = c]
      BY <1>1, FlatRoot DEF SetField
    <2>2. c \in Seq(Scalars) /\ Len(c) <= 1 BY DEF Content
    <2>3. (RootType[F].kind = "scalar" /\ RootType[F].oneof = 0) => c # <<Default>>
      BY DEF Content
    <2> HIDE DEF c
    <2>4. Fits(F, c) BY <2>2, <2>3 DEF Fits
    <2>5. IsRoot([root EXCEPT ![F] = c]) BY <1>1, <2>4, PutField
    <2> QED BY <2>1, <2>5
  <1>3. CASE m \in AddUnsetField(Top.at, Msg, F, HelperMax) /\ ~IsRepeated(Type[F])
    <2>1. m = root \/ \E v \in Scalars :
             m = SetField(RootType, root, F, v) /\ RootSize(m) <= maxSize
      BY <1>3 DEF AddUnsetField, TypeAt, SizeAt
    <2> QED BY <1>1, <1>2, <1>3, <2>1 DEF Keeps
  <1>4. CASE m \in MutateSetField(Top.at, Msg, F, HelperMax) /\ ~IsRepeated(Type[F])
    <2>1. m = root \/ \E v \in Scalars :
             m = SetField(RootType, root, F, v) /\ RootSize(m) <= maxSize
      BY <1>4 DEF MutateSetField, TypeAt, SizeAt
    <2> QED BY <1>1, <1>2, <1>4, <2>1 DEF Keeps
  <1>5. CASE m \in AddRepeatedField(Top.at, Msg, F, HelperMax) /\ IsRepeated(Type[F])
    <2>1. m = root \/ \E s \in BoundedSeq(Scalars, MaxNewRepeated) :
             m = Extend(root, F, s) /\ RootSize(m) <= maxSize
      BY <1>5 DEF AddRepeatedField, TypeAt, SizeAt
    <2>2. ASSUME NEW s \in BoundedSeq(Scalars, MaxNewRepeated)
          PROVE  IsRoot(Extend(root, F, s))
      <3>1. s \in Seq(Scalars) BY MutationAssumption DEF BoundedSeq, SeqOf
      <3>2. root[F] \in Seq(Scalars) BY <1>1, FlatRoot DEF Fits
      <3>3. RootType[F].kind # "scalar" BY <1>5 DEF IsRepeated
      <3>4. Fits(F, root[F] \o s) BY <1>5, <3>1, <3>2, <3>3 DEF Fits
      <3> QED BY <1>1, <3>4, PutField DEF Extend
    <2> QED BY <1>1, <2>1, <2>2 DEF Keeps
  <1> QED BY <1>3, <1>4, <1>5

LEMMA MutateRepeatedKeeps ==
    ASSUME SizeLaws, Flat, FlatInv, InLoop, IsRepeated(Type[F]),
           NEW m \in MutateRepeatedField(Top.at, Msg, F, HelperMax)
    PROVE  Keeps(m)
  <1>0. /\ Top.at = <<>> /\ Msg = root /\ Type = RootType /\ F \in DOMAIN RootType
        /\ HelperMax = maxSize /\ \A x : Size(x) = RootSize(x)
        /\ Group(RootType, F) = {F} /\ ~IsMessageType(RootType[F])
    BY AtRoot
  <1> USE <1>0
  <1>1. IsRoot(root) /\ RootSize(root) \in Nat /\ maxSize \in Nat
    BY DEF FlatInv, SizeLaws, SizeLawsAt
  <1>2. root = [h \in DOMAIN root |-> root[h]] /\ root[F] \in Seq(Scalars)
        /\ DOMAIN root = DOMAIN RootType
    BY <1>1, FlatRoot DEF Fits
  <1>3. root = m \/ Size(m) <= maxSize
    <2>1. m \in MutateRepeatedField(<<>>, root, F, maxSize)
      BY DEF MutateRepeatedField
    <2> QED BY <1>2, <2>1, MutateRepeatedWithinMax
  <1>4. PICK c \in [DOMAIN root[F] -> Scalars] : m = [root EXCEPT ![F] = c]
    BY DEF MutateRepeatedField
  <1>5. c \in Seq(Scalars) BY <1>2, <1>4
  <1>6. RootType[F].kind # "scalar" BY DEF IsRepeated
  <1>7. Fits(F, c) BY <1>5, <1>6 DEF Fits
  <1>8. IsRoot(m) BY <1>1, <1>4, <1>7, PutField
  <1> QED BY <1>1, <1>3, <1>8 DEF Keeps

LEMMA RearrangeKeeps ==
    ASSUME SizeLaws, Flat, FlatInv, InLoop, NEW m,
           \/ m \in DeleteSetField(Msg, F) /\ Singular
           \/ m \in DeleteRepeatedField(Msg, F) /\ IsRepeated(Type[F])
           \/ m \in ShuffleRepeatedField(Msg, F) /\ IsRepeated(Type[F])
    PROVE  Keeps(m)
  <1>0. /\ Top.at = <<>> /\ Msg = root /\ Type = RootType /\ F \in DOMAIN RootType
        /\ HelperMax = maxSize /\ \A x : Size(x) = RootSize(x)
        /\ Group(RootType, F) = {F} /\ ~IsMessageType(RootType[F])
    BY AtRoot
  <1> USE <1>0
  <1>1. IsRoot(root) /\ RootSize(root) \in Nat /\ maxSize \in Nat
    BY DEF FlatInv, SizeLaws, SizeLawsAt
  <1>2. root[F] \in Seq(Scalars) BY <1>1, FlatRoot DEF Fits
  <1>3. RootSize(m) <= RootSize(root) BY <1>1 DEF SizeLaws, SizeLawsAt
  <1>4. IsRepeated(Type[F]) => \A c \in Seq(Scalars) : Fits(F, c)
    BY DEF IsRepeated, Fits
  <1>5. CASE m \in DeleteSetField(Msg, F) /\ Singular
    <2>1. m = root \/ m = [root EXCEPT ![F] = <<>>] BY <1>5 DEF DeleteSetField
    <2>2. Fits(F, <<>>) BY DEF Fits
    <2> QED BY <1>1, <1>3, <2>1, <2>2, PutField DEF Keeps
  <1>6. CASE m \in DeleteRepeatedField(Msg, F) /\ IsRepeated(Type[F])
    <2> DEFINE n == Len(root[F])
    <2>1. n \in Nat BY <1>2
    <2>2. PICK k \in Nat : \E g \in [1 .. k -> 1 .. n] :
             m = [root EXCEPT ![F] = [i \in DOMAIN g |-> root[F][g[i]]]]
      BY <1>6, <2>1, MutationAssumption DEF DeleteRepeatedField, Subsequences
    <2>3. PICK g \in [1 .. k -> 1 .. n] :
             m = [root EXCEPT ![F] = [i \in DOMAIN g |-> root[F][g[i]]]]
      BY <2>2
    <2>4. [i \in DOMAIN g |-> root[F][g[i]]] \in Seq(Scalars)
      <3>1. DOMAIN g = 1 .. k /\ \A i \in 1 .. k : g[i] \in 1 .. n BY <2>3
      <3>2. \A i \in 1 .. n : root[F][i] \in Scalars BY <1>2
      <3> QED BY <3>1, <3>2
    <2> QED BY <1>1, <1>3, <1>4, <1>6, <2>3, <2>4, PutField DEF Keeps
  <1>7. CASE m \in ShuffleRepeatedField(Msg, F) /\ IsRepeated(Type[F])
    <2>1. PICK p \in [DOMAIN root[F] -> DOMAIN root[F]] :
             m = [root EXCEPT ![F] = [i \in DOMAIN root[F] |-> root[F][p[i]]]]
      BY <1>7 DEF ShuffleRepeatedField
    <2>2. [i \in DOMAIN root[F] |-> root[F][p[i]]] \in Seq(Scalars)
      <3>1. DOMAIN root[F] = 1 .. Len(root[F]) /\ Len(root[F]) \in Nat BY <1>2
      <3> QED BY <1>2, <2>1, <3>1
    <2> QED BY <1>1, <1>3, <1>4, <1>7, <2>1, <2>2, PutField DEF Keeps
  <1> QED BY <1>5, <1>6, <1>7

(* The invariant holds initially,                                          *)
LEMMA FlatInit ==
    ASSUME SizeLaws, Init PROVE FlatInv
  <1>1. IsRoot(seed) /\ maxSize \in Nat BY MutationAssumption DEF Init
  <1>2. RootSize(seed) \in Nat /\ RootSize(seed) + (maxSize - RootSize(seed)) = maxSize
    BY <1>1 DEF SizeLaws, SizeLawsAt
  <1>3. stack = <<Frame(<<>>, 1, maxSize)>> BY <1>2 DEF Init
  <1> QED BY <1>1, <1>2, <1>3 DEF Init, FlatInv, BudgetExact, NeverGrowsPastLimit

(* and every step preserves it.                                            *)
LEMMA FlatStep ==
    ASSUME SizeLaws, Flat, FlatInv, [Next]_vars PROVE FlatInv'
  <1>1. CASE UNCHANGED vars
    BY <1>1 DEF vars, call, FlatInv, BudgetExact, NeverGrowsPastLimit, IsRoot, Frame
  <1>2. ASSUME NEW m, InLoop, Mutated(m), Keeps(m) PROVE FlatInv'
    <2>1. EndField(m) BY <1>2, AtRoot DEF Mutated, IsMessageType
    <2> QED BY <1>2, <2>1, EndFieldPreserves
  <1>3. InLoop => Keeps(Msg) BY AtRoot DEF Keeps, FlatInv, SizeLaws, SizeLawsAt
  <1>4. CASE SkipMember BY <1>3, <1>4, EndFieldPreserves DEF SkipMember
  <1>5. CASE NoMutation BY <1>2, <1>3, <1>5 DEF NoMutation
  <1>6. CASE MutationAdd
    <2>1. InLoop BY <1>6 DEF MutationAdd
    <2>2. PICK m : /\ Mutated(m)
                   /\ \/ m \in AddUnsetField(Top.at, Msg, F, HelperMax)
                         /\ ~IsRepeated(Type[F])
                      \/ m \in AddRepeatedField(Top.at, Msg, F, HelperMax)
                         /\ IsRepeated(Type[F])
      BY <1>6, <2>1, AtRoot, TypesAssumption
         DEF MutationAdd, Singular, Repeated, IsRepeated, InGroup
    <2>3. Keeps(m) BY <2>1, <2>2, AddKeeps
    <2> QED BY <1>2, <2>1, <2>2, <2>3
  <1>7. CASE Delete
    <2>1. InLoop BY <1>7 DEF Delete
    <2>2. PICK m : /\ Mutated(m)
                   /\ \/ m \in DeleteSetField(Msg, F) /\ Singular
                      \/ m \in DeleteRepeatedField(Msg, F) /\ IsRepeated(Type[F])
      BY <1>7 DEF Delete, Repeated
    <2>3. Keeps(m) BY <2>1, <2>2, RearrangeKeeps
    <2> QED BY <1>2, <2>1, <2>2, <2>3
  <1>8. CASE Mutate
    <2>1. InLoop BY <1>8 DEF Mutate
    <2>2. PICK m : /\ Mutated(m)
                   /\ \/ m \in MutateSetField(Top.at, Msg, F, HelperMax)
                         /\ ~IsRepeated(Type[F])
                      \/ m \in MutateRepeatedField(Top.at, Msg, F, HelperMax)
                         /\ IsRepeated(Type[F])
      <3>1. CASE Singular /\ \E m \in MutateSetField(Top.at, Msg, F, HelperMax) : Mutated(m)
        BY <3>1 DEF Singular, IsRepeated
      <3>2. CASE Repeated /\ \E m \in MutateRepeatedField(Top.at, Msg, F, HelperMax) : Mutated(m)
        BY <3>2 DEF Repeated
      <3>3. CASE InGroup /\ \E h \in GroupOf :
                   \E m \in MutateSetField(Top.at, Msg, h, HelperMax) :
                      IF m[h] # <<>> /\ IsMessageType(Type[h])
                      THEN StartDescent(m, h, remain) ELSE Mutated(m)
        <4>1. GroupOf \subseteq {F} BY <2>1, AtRoot DEF GroupOf, SetMembers
        <4>2. ~IsMessageType(Type[F]) BY <2>1, AtRoot
        <4>3. \E m \in MutateSetField(Top.at, Msg, F, HelperMax) : Mutated(m)
          BY <3>3, <4>1, <4>2
        <4>4. ~IsRepeated(Type[F])
          BY <2>1, <3>3, AtRoot, TypesAssumption DEF InGroup, IsRepeated
        <4> QED BY <4>3, <4>4
      <3> QED BY <1>8, <3>1, <3>2, <3>3 DEF Mutate
    <2>3. Keeps(m) BY <2>1, <2>2, AddKeeps, MutateRepeatedKeeps
    <2> QED BY <1>2, <2>1, <2>2, <2>3
  <1>9. CASE Shuffle
    <2>1. InLoop /\ IsRepeated(Type[F]) BY <1>9 DEF Shuffle, Repeated
    <2>2. PICK m \in ShuffleRepeatedField(Msg, F) : Mutated(m) BY <1>9 DEF Shuffle
    <2>3. Keeps(m) BY <2>1, <2>2, RearrangeKeeps
    <2> QED BY <1>2, <2>1, <2>2, <2>3
  <1>10. CASE EnterMessage
    BY <1>10, AtRoot DEF EnterMessage, IsMessageType
  <1>11. CASE Descend \/ EndDescent
    <2>1. stack # <<>> /\ Top.into # 0 BY <1>11 DEF Descend, EndDescent
    <2>2. PICK f \in Nat \ {0} : stack = <<Frame(<<>>, f, maxSize)>>
      BY <2>1 DEF FlatInv, BudgetExact
    <2>3. Top = Frame(<<>>, f, maxSize) BY <2>2 DEF Top, Last
    <2> QED BY <2>1, <2>3 DEF Frame
  <1>12. CASE Return
    <2>1. PICK f \in Nat \ {0} : stack = <<Frame(<<>>, f, maxSize)>>
      BY <1>12 DEF Return, FlatInv, BudgetExact
    <2>2. stack' = <<>> BY <1>12, <2>1 DEF Return, Front
    <2>3. UNCHANGED <<root, remain, seed, maxSize>> BY <1>12 DEF Return, call
    <2> QED BY <2>2, <2>3 DEF FlatInv, BudgetExact, NeverGrowsPastLimit, IsRoot
  <1> QED BY <1>1, <1>4, <1>5, <1>6, <1>7, <1>8, <1>9, <1>10, <1>11, <1>12 DEF Next

(* Mutator::Mutate keeps a flat message within max_size, or within the size*)
(* it came with, at every moment: "the result size does not exceed         *)
(* max_size" (mutator.h:68) holds where no embedded message is involved.   *)
THEOREM FlatMutationKeepsLimit ==
    ASSUME SizeLaws, Flat PROVE Spec => []NeverGrowsPastLimit
  <1>1. Init => FlatInv BY FlatInit
  <1>2. FlatInv /\ [Next]_vars => FlatInv' BY FlatStep
  <1>3. FlatInv => NeverGrowsPastLimit BY DEF FlatInv
  <1> QED BY <1>1, <1>2, <1>3, PTL DEF Spec

-----------------------------------------------------------------------------
(* What one iteration makes of the message it works on, for any schema.    *)

(* What a repeated field of length `old` may have become over a call.      *)
Lost(old) == IF old <= MaxNewRepeated THEN 0 ELSE MaxNewRepeated \div 2
Bounded(old, new) == new \in old - Lost(old) .. old + MaxNewRepeated

(* m, of type T, becomes `new` at field f.                                 *)
Revised(T, m, f, new) ==
    /\ IsMsg(T, new)
    /\ \A h \in DOMAIN T \ Group(T, f) : new[h] = m[h]
    /\ T[f].oneof # 0 /\ SetMembers(T, m, f) # {} => SetMembers(T, new, f) # {}
    /\ IsRepeated(T[f]) => Bounded(Len(m[f]), Len(new[f]))

LEMMA HalfOfNew ==
    /\ MaxNewRepeated \in Nat \ {0} /\ MaxNewRepeated \div 2 \in Nat
    /\ MaxNewRepeated \div 2 <= MaxNewRepeated
  BY MutationAssumption

LEMMA SameBounded == \A n \in Nat : Bounded(n, n)
  BY HalfOfNew DEF Bounded, Lost

LEMMA SameRevised ==
    ASSUME NEW T \in Types, NEW m, IsMsg(T, m), NEW f \in DOMAIN T
    PROVE  Revised(T, m, f, m)
  <1>1. Len(m[f]) \in Nat BY MsgFields
  <1>2. Bounded(Len(m[f]), Len(m[f])) BY <1>1, SameBounded
  <1> QED BY <1>2 DEF Revised

(* A member of f's group is set.                                           *)
LEMMA SetRevised ==
    ASSUME NEW T \in Types, NEW m, IsMsg(T, m), NEW f \in DOMAIN T, ~IsRepeated(T[f]),
           NEW h \in Group(T, f), NEW v \in Values(T, h),
           NEW x, x = SetField(T, m, h, v)
    PROVE  Revised(T, m, f, x)
  <1>1. /\ h \in DOMAIN T /\ ~IsRepeated(T[h]) /\ Group(T, h) = Group(T, f)
    BY GroupLaws
  <1>2. /\ IsMsg(T, x) /\ x[h] = Content(T, h, v)
        /\ \A g \in DOMAIN T : g # h => x[g] = IF g \in Group(T, h) THEN <<>> ELSE m[g]
    BY <1>1, SetFieldMsg
  <1>3. \A g \in DOMAIN T \ Group(T, f) : x[g] = m[g] BY <1>1, <1>2
  <1>4. ASSUME T[f].oneof # 0 PROVE SetMembers(T, x, f) # {}
    <2>1. T[h].oneof # 0 BY <1>4 DEF Group
    <2>2. x[h] = <<v>> BY <1>2, <2>1 DEF Content
    <2>3. x[h] # <<>> BY <2>2
    <2> QED BY <2>3 DEF SetMembers
  <1> QED BY <1>2, <1>3, <1>4 DEF Revised

(* A repeated field gets other elements, or a plain field is cleared.      *)
LEMMA PutRevised ==
    ASSUME NEW T \in Types, NEW m, IsMsg(T, m), NEW f \in DOMAIN T, NEW c,
           \/ IsRepeated(T[f]) /\ c \in Seq(Values(T, f)) /\ Bounded(Len(m[f]), Len(c))
           \/ c = <<>> /\ T[f].oneof = 0 /\ ~IsRepeated(T[f]),
           NEW x, x = Put(m, f, c)
    PROVE  Revised(T, m, f, x)
  <1>1. IsMsg(T, x) /\ x[f] = c /\ \A h \in DOMAIN T : h # f => x[h] = m[h]
    BY PutFieldMsg
  <1>2. f \in Group(T, f) /\ (IsRepeated(T[f]) => T[f].oneof = 0) BY GroupLaws, SchemaLaws
  <1>3. T[f].oneof = 0 BY <1>2
  <1> QED BY <1>1, <1>2, <1>3 DEF Revised

(* createRandomMessage makes messages of the embedded type.                *)
LEMMA CreatedAreLeaves ==
    /\ NewLeaves \subseteq Leaves
    /\ \A max : CreatedLeaves(max) \subseteq Leaves
  <1>1. NewLeaves \subseteq Leaves
    <2>1. \A m \in NewLeaves : IsLeaf(m) BY DEF NewLeaves
    <2> QED BY <2>1, LeavesAreLeaves
  <1>2. \A max : CreatedLeaves(max) \subseteq NewLeaves BY DEF CreatedLeaves
  <1> QED BY <1>1, <1>2

LEMMA AddUnsetRevised ==
    ASSUME NEW at, NEW T, T = TypeAt(at), NEW m, IsMsg(T, m), NEW f \in DOMAIN T,
           ~IsRepeated(T[f]), SetMembers(T, m, f) = {},
           NEW max, NEW x \in AddUnsetField(at, m, f, max)
    PROVE  Revised(T, m, f, x)
  <1>1. T \in Types BY TypesAreTypes
  <1>2. f \in Group(T, f) BY <1>1, GroupLaws
  <1>4. CASE x = m BY <1>1, <1>4, SameRevised
  <1>5. CASE \E h \in Group(T, f) : IsMessageType(T[h])
               /\ \E leaf \in CreatedLeaves(max - SizeAt(at, m)) : x = SetField(T, m, h, leaf)
    <2>1. PICK h \in Group(T, f), leaf \in CreatedLeaves(max - SizeAt(at, m)) :
             IsMessageType(T[h]) /\ x = SetField(T, m, h, leaf)
      BY <1>5
    <2>2. leaf \in Values(T, h) BY <2>1, CreatedAreLeaves DEF Values
    <2> QED BY <1>1, <2>1, <2>2, SetRevised
  <1>6. CASE \E h \in Group(T, f) : ~IsMessageType(T[h])
               /\ \E v \in Scalars : x = SetField(T, m, h, v)
    <2>1. PICK h \in Group(T, f), v \in Scalars : ~IsMessageType(T[h]) /\ x = SetField(T, m, h, v)
      BY <1>6
    <2>2. v \in Values(T, h) BY <2>1 DEF Values
    <2> QED BY <1>1, <2>1, <2>2, SetRevised
  <1> QED BY <1>4, <1>5, <1>6 DEF AddUnsetField

LEMMA MutateSetRevised ==
    ASSUME NEW at, NEW T, T = TypeAt(at), NEW m, IsMsg(T, m), NEW f \in DOMAIN T,
           ~IsRepeated(T[f]), NEW h \in Group(T, f), h = f \/ T[f].oneof # 0,
           T[f].oneof = 0 => T[f].kind = "scalar",
           NEW max, NEW x \in MutateSetField(at, m, h, max)
    PROVE  Revised(T, m, f, x)
  <1>1. T \in Types BY TypesAreTypes
  <1>2. Group(T, h) = Group(T, f) /\ (T[h].oneof = 0 <=> T[f].oneof = 0)
    BY <1>1, GroupLaws DEF Group
  <1>3. CASE x = m BY <1>1, <1>3, SameRevised
  <1>4. CASE T[h].oneof = 0 /\ \E v \in Scalars : x = SetField(T, m, h, v)
    <2>1. PICK v \in Scalars : x = SetField(T, m, h, v) BY <1>4
    <2>2. h = f /\ T[f].kind = "scalar" /\ T[f].oneof = 0 BY <1>2, <1>4
    <2>3. v \in Values(T, h) BY <2>2 DEF Values, IsMessageType
    <2> QED BY <1>1, <2>1, <2>2, <2>3, SetRevised
  <1>5. ASSUME NEW k \in Group(T, h) \ {h}, NEW v \in Values(T, k), x = SetField(T, m, k, v)
        PROVE  Revised(T, m, f, x)
    <2>1. k \in Group(T, f) BY <1>2
    <2> QED BY <1>1, <1>5, <2>1, SetRevised
  <1>6. CASE \E k \in Group(T, h) \ {h} : IsMessageType(T[k])
               /\ \E leaf \in CreatedLeaves(max - SizeAt(at, m)) : x = SetField(T, m, k, leaf)
    <2>1. PICK k \in Group(T, h) \ {h}, leaf \in CreatedLeaves(max - SizeAt(at, m)) :
             IsMessageType(T[k]) /\ x = SetField(T, m, k, leaf)
      BY <1>6
    <2>2. leaf \in Values(T, k) BY <2>1, CreatedAreLeaves DEF Values
    <2> QED BY <1>5, <2>1, <2>2
  <1>7. CASE \E k \in Group(T, h) \ {h} : ~IsMessageType(T[k])
               /\ \E v \in Scalars : x = SetField(T, m, k, v)
    <2>1. PICK k \in Group(T, h) \ {h}, v \in Scalars :
             ~IsMessageType(T[k]) /\ x = SetField(T, m, k, v)
      BY <1>7
    <2>2. v \in Values(T, k) BY <2>1 DEF Values
    <2> QED BY <1>5, <2>1, <2>2
  <1>8. Default \in Scalars BY TypesAssumption
  <1> QED BY <1>3, <1>4, <1>6, <1>7, <1>8 DEF MutateSetField

LEMMA AddRepeatedRevised ==
    ASSUME NEW at, NEW T, T = TypeAt(at), NEW m, IsMsg(T, m), NEW f \in DOMAIN T,
           IsRepeated(T[f]), NEW max, NEW x \in AddRepeatedField(at, m, f, max)
    PROVE  Revised(T, m, f, x)
  <1>1. T \in Types BY TypesAreTypes
  <1>2. CASE x = m BY <1>1, <1>2, SameRevised
  <1> DEFINE added == IF IsMessageType(T[f]) THEN NewLeaves ELSE Scalars
  <1>3. CASE \E s \in BoundedSeq(added, MaxNewRepeated) : x = Extend(m, f, s)
    <2>1. PICK s \in BoundedSeq(added, MaxNewRepeated) : x = Extend(m, f, s) BY <1>3
    <2>2. s \in Seq(added) /\ Len(s) \in 0 .. MaxNewRepeated
      <3> HIDE DEF added
      <3> QED BY MutationAssumption DEF BoundedSeq, SeqOf
    <2>3. added \subseteq Values(T, f) BY CreatedAreLeaves DEF Values
    <2>4. s \in Seq(Values(T, f))
      <3> HIDE DEF added
      <3> QED BY <2>2, <2>3, SeqMonotonic
    <2>5. m[f] \in Seq(Values(T, f)) /\ Len(m[f]) \in Nat BY <1>1, MsgFields
    <2>6. PICK c : c = m[f] \o s OBVIOUS
    <2>7. c \in Seq(Values(T, f)) /\ Len(c) = Len(m[f]) + Len(s) BY <2>4, <2>5, <2>6
    <2>8. Bounded(Len(m[f]), Len(c))
      <3>1. PICK a, b : a = Len(m[f]) /\ b = Len(s) OBVIOUS
      <3>2. a \in Nat /\ b \in 0 .. MaxNewRepeated /\ Lost(a) \in Nat
        BY <2>2, <2>5, <3>1, HalfOfNew DEF Lost
      <3>3. a + b \in a - Lost(a) .. a + MaxNewRepeated BY <3>2, HalfOfNew
      <3> QED BY <2>7, <3>1, <3>3 DEF Bounded
    <2>9. x = Put(m, f, c)
      <3>1. x = [m EXCEPT ![f] = m[f] \o s] BY <2>1 DEF Extend
      <3> QED BY <2>6, <3>1 DEF Put
    <2> QED BY <1>1, <2>7, <2>8, <2>9, PutRevised
  <1> QED BY <1>2, <1>3 DEF AddRepeatedField

LEMMA DeleteRepeatedRevised ==
    ASSUME NEW T \in Types, NEW m, IsMsg(T, m), NEW f \in DOMAIN T, IsRepeated(T[f]),
           NEW x \in DeleteRepeatedField(m, f)
    PROVE  Revised(T, m, f, x)
  <1> DEFINE n == Len(m[f])
             fewest == IF n <= MaxNewRepeated THEN n ELSE n - (MaxNewRepeated \div 2)
             V == Values(T, f)
  <1>1. n \in Nat /\ m[f] \in Seq(V) /\ DOMAIN m[f] = 1 .. n BY MsgFields
  <1>2. PICK g \in Subsequences(n, fewest) :
           x = [m EXCEPT ![f] = [i \in DOMAIN g |-> m[f][g[i]]]]
    BY DEF DeleteRepeatedField
  <1>3. PICK k \in fewest .. n : g \in [1 .. k -> 1 .. n]
    <2> HIDE DEF n, fewest
    <2> QED BY DEF Subsequences
  <1>4. fewest \in Nat /\ fewest >= n - Lost(n) /\ k \in Nat /\ k \in n - Lost(n) .. n
    <2>1. fewest \in Nat /\ fewest = n - Lost(n)
      <3> HIDE DEF n
      <3> QED BY <1>1, HalfOfNew DEF Lost
    <2>2. Lost(n) \in Nat BY HalfOfNew DEF Lost
    <2> HIDE DEF n, fewest
    <2> QED BY <1>1, <1>3, <2>1, <2>2
  <1>5. PICK c : c = [i \in DOMAIN g |-> m[f][g[i]]] OBVIOUS
  <1>6. c \in Seq(V) /\ Len(c) = k
    <2>1. c = [i \in 1 .. k |-> m[f][g[i]]] BY <1>3, <1>5
    <2>2. \A i \in 1 .. k : m[f][g[i]] \in V
      <3> HIDE DEF n, V
      <3> QED BY <1>1, <1>3
    <2> HIDE DEF n, V, fewest
    <2> QED BY <1>4, <2>1, <2>2
  <1>7. Bounded(Len(m[f]), Len(c))
    <2> HIDE DEF fewest
    <2>1. Lost(n) \in Nat BY HalfOfNew DEF Lost
    <2>2. k \in n - Lost(n) .. n + MaxNewRepeated
      <3> HIDE DEF n
      <3> QED BY <1>1, <1>4, <2>1, HalfOfNew
    <2> QED BY <1>6, <2>2 DEF Bounded
  <1>8. x = Put(m, f, c) BY <1>2, <1>5 DEF Put
  <1> QED BY <1>6, <1>7, <1>8, PutRevised

LEMMA RearrangedRevised ==
    ASSUME NEW at, NEW T, T = TypeAt(at), NEW m, IsMsg(T, m), NEW f \in DOMAIN T,
           IsRepeated(T[f]), NEW max, NEW x,
           \/ x \in ShuffleRepeatedField(m, f)
           \/ ~IsMessageType(T[f]) /\ x \in MutateRepeatedField(at, m, f, max)
    PROVE  Revised(T, m, f, x)
  <1> DEFINE n == Len(m[f])
             V == Values(T, f)
  <1>1. T \in Types BY TypesAreTypes
  <1>2. n \in Nat /\ m[f] \in Seq(V) /\ DOMAIN m[f] = 1 .. n BY <1>1, MsgFields
  <1>3. \E c \in [1 .. n -> V] : x = [m EXCEPT ![f] = c]
    <2>1. CASE x \in ShuffleRepeatedField(m, f)
      <3>1. PICK p \in [DOMAIN m[f] -> DOMAIN m[f]] :
               x = [m EXCEPT ![f] = [i \in DOMAIN m[f] |-> m[f][p[i]]]]
        BY <2>1 DEF ShuffleRepeatedField
      <3>2. PICK c : c = [i \in 1 .. n |-> m[f][p[i]]] OBVIOUS
      <3>3. c \in [1 .. n -> V]
        <4> HIDE DEF n, V
        <4> QED BY <1>2, <3>1, <3>2
      <3>4. x = [m EXCEPT ![f] = c] BY <1>2, <3>1, <3>2
      <3> QED BY <3>3, <3>4
    <2>2. CASE ~IsMessageType(T[f]) /\ x \in MutateRepeatedField(at, m, f, max)
      <3>1. V = Scalars BY <2>2 DEF Values
      <3>2. PICK c \in [DOMAIN m[f] -> Scalars] : x = [m EXCEPT ![f] = c]
        BY <2>2 DEF MutateRepeatedField
      <3>3. c \in [1 .. n -> V] BY <1>2, <3>1, <3>2
      <3> QED BY <3>2, <3>3
    <2> QED BY <2>1, <2>2
  <1>4. PICK c \in [1 .. n -> V] : x = [m EXCEPT ![f] = c] BY <1>3
  <1>5. c \in Seq(V) /\ Len(c) = n
    <2> HIDE DEF n, V
    <2> QED BY <1>2, <1>4
  <1>6. Bounded(Len(m[f]), Len(c)) BY <1>2, <1>5, SameBounded
  <1>7. x = Put(m, f, c) BY <1>4 DEF Put
  <1> QED BY <1>1, <1>5, <1>6, <1>7, PutRevised

-----------------------------------------------------------------------------
(* Where a call is: at a field of the outer message, between the embedded  *)
(* messages of one, or inside one of them; the last two only when the      *)
(* field is of a message type.                                             *)
Outer(f, i, e, x) == [at |-> <<>>, field |-> f, into |-> i, elem |-> e, max |-> x]

Embedded(f, i) == f \in DOMAIN RootType /\ i \in Group(RootType, f) /\ IsMessageType(RootType[i])

AtField(f, x) == f \in 1 .. Len(RootType) + 1 /\ stack = <<Outer(f, 0, 0, x)>>

Between(f, i, e, x) ==
    Embedded(f, i) /\ e \in Nat \ {0} /\ stack = <<Outer(f, i, e, x)>>

Inside(f, i, e, x, g, y) ==
    /\ Embedded(f, i) /\ e \in DOMAIN root[i] /\ g \in 1 .. Len(LeafType) + 1
    /\ stack = <<Outer(f, i, e + 1, x), Frame(<<i, e>>, g, y)>>

Placed ==
    \/ stack = <<>>
    \/ \E f, x : AtField(f, x)
    \/ \E f, i, e, x : Between(f, i, e, x)
    \/ \E f, i, e, x, g, y : Inside(f, i, e, x, g, y)

(* Fields the loop has not come to are as long as they were in the seed.   *)
Ahead(h) ==
    /\ stack # <<>>
    /\ IF stack[1].into = 0 THEN h >= stack[1].field ELSE h > stack[1].field

Lengths ==
    \A h \in DOMAIN RootType : IsRepeated(RootType[h]) =>
        /\ Bounded(Len(seed[h]), Len(root[h]))
        /\ Ahead(h) => Len(root[h]) = Len(seed[h])

MutInv ==
    /\ IsRoot(root) /\ seed \in Seeds /\ maxSize \in Budgets
    /\ Placed
    /\ Lengths

(* With sizes that are numbers, every budget is one, possibly negative.    *)
Numbers == remain \in Int /\ \A k \in DOMAIN stack : stack[k].max \in Int

(* What no step does: empty a group.                                       *)
GroupsIn(T, m, new) ==
    \A f \in DOMAIN T :
        SetMembers(T, m, f) # {} /\ T[f].oneof # 0 => SetMembers(T, new, f) # {}

GroupsStep ==
    \A i \in DOMAIN stack \cap DOMAIN stack' :
        stack'[i].at = stack[i].at =>
        GroupsIn(TypeAt(stack[i].at), MessageAt(root, stack[i].at),
                 MessageAt(root', stack[i].at))

LEMMA RevisedGroups ==
    ASSUME NEW T \in Types, NEW m, NEW f \in DOMAIN T, NEW new, Revised(T, m, f, new)
    PROVE  /\ GroupsIn(T, m, new)
           /\ \A h \in DOMAIN T : IsRepeated(T[h]) /\ h # f => new[h] = m[h]
  <1>1. ASSUME NEW h \in DOMAIN T, h \notin Group(T, f)
        PROVE  \A g \in Group(T, h) : new[g] = m[g]
    <2>1. ASSUME NEW g \in Group(T, h), g \in Group(T, f) PROVE FALSE
      <3>1. Group(T, g) = Group(T, h) /\ Group(T, g) = Group(T, f) BY <1>1, <2>1, GroupLaws
      <3>2. h \in Group(T, h) BY <1>1, GroupLaws
      <3> QED BY <1>1, <3>1, <3>2
    <2>2. Group(T, h) \subseteq DOMAIN T BY <1>1, GroupLaws
    <2> QED BY <2>1, <2>2 DEF Revised
  <1>2. GroupsIn(T, m, new)
    <2> SUFFICES ASSUME NEW h \in DOMAIN T, SetMembers(T, m, h) # {}, T[h].oneof # 0
                 PROVE  SetMembers(T, new, h) # {}
      BY DEF GroupsIn
    <2>1. CASE h \in Group(T, f)
      <3>1. Group(T, h) = Group(T, f) /\ T[f].oneof # 0
        <4>1. T[f].oneof = 0 => Group(T, f) = {f} BY GroupLaws
        <4> QED BY <2>1, <4>1, GroupLaws
      <3>2. SetMembers(T, m, h) = SetMembers(T, m, f) /\ SetMembers(T, new, h) = SetMembers(T, new, f)
        BY <3>1 DEF SetMembers
      <3> QED BY <3>1, <3>2 DEF Revised
    <2>2. CASE h \notin Group(T, f)
      <3>1. \A g \in Group(T, h) : new[g] = m[g] BY <1>1, <2>2
      <3> QED BY <3>1 DEF SetMembers
    <2> QED BY <2>1, <2>2
  <1>3. ASSUME NEW h \in DOMAIN T, IsRepeated(T[h]), h # f PROVE new[h] = m[h]
    <2>1. h \notin Group(T, f)
      <3>1. Group(T, h) = {h} BY <1>3, GroupLaws
      <3>2. h \in Group(T, f) => f \in Group(T, h) BY GroupLaws
      <3> QED BY <1>3, <3>1, <3>2
    <2>2. h \in Group(T, h) BY GroupLaws
    <2> QED BY <1>1, <2>1, <2>2
  <1> QED BY <1>2, <1>3

(* An iteration ends with a revision of the field, or descends with one.   *)
LEMMA LoopBody ==
    ASSUME InLoop, IsMsg(Type, Msg), F \in DOMAIN Type,
           \/ SkipMember \/ NoMutation \/ MutationAdd \/ Delete \/ Mutate \/ Shuffle
           \/ EnterMessage
    PROVE  \E m : /\ Revised(Type, Msg, F, m)
                  /\ \/ EndField(m)
                     \/ \E i \in Group(Type, F) :
                           /\ IsMessageType(Type[i])
                           /\ StartDescent(m, i, Top.max - Size(m)) \/ StartDescent(m, i, remain)
  <1> DEFINE Goal(m) == \/ EndField(m)
                        \/ \E i \in Group(Type, F) :
                              /\ IsMessageType(Type[i])
                              /\ \/ StartDescent(m, i, Top.max - Size(m))
                                 \/ StartDescent(m, i, remain)
  <1>1. Type \in Types /\ Type = TypeAt(Top.at) BY TypesAreTypes DEF Type
  <1>2. /\ F \in Group(Type, F)
        /\ Type[F].oneof = 0 => Group(Type, F) = {F}
        /\ InGroup => ~IsRepeated(Type[F]) /\ Type[F].oneof # 0
        /\ Singular => ~IsRepeated(Type[F]) /\ Type[F].oneof = 0 /\ Type[F].kind = "scalar"
        /\ Repeated => IsRepeated(Type[F])
    BY <1>1, GroupLaws, SchemaLaws DEF InGroup, Singular, Repeated, IsRepeated
  <1>3. Revised(Type, Msg, F, Msg) BY <1>1, SameRevised
  <1>4. \A m : Mutated(m) => Goal(m) BY <1>2 DEF Mutated, IsMessageType
  <1>5. Singular /\ Msg[F] = <<>> => SetMembers(Type, Msg, F) = {} BY <1>2 DEF SetMembers
  <1> SUFFICES \E m : Revised(Type, Msg, F, m) /\ Goal(m) OBVIOUS
  <1>6. CASE SkipMember
    <2>1. Goal(Msg) BY <1>6 DEF SkipMember
    <2> QED BY <1>3, <2>1
  <1>7. CASE NoMutation
    <2>1. Goal(Msg) BY <1>4, <1>7 DEF NoMutation
    <2> QED BY <1>3, <2>1
  <1> HIDE DEF Goal
  <1>8. CASE MutationAdd
    <2>1. CASE \E m \in AddUnsetField(Top.at, Msg, F, HelperMax) :
                  Mutated(m) /\ ~IsRepeated(Type[F]) /\ SetMembers(Type, Msg, F) = {}
      <3>1. PICK m \in AddUnsetField(Top.at, Msg, F, HelperMax) :
               Mutated(m) /\ ~IsRepeated(Type[F]) /\ SetMembers(Type, Msg, F) = {}
        BY <2>1
      <3>2. Revised(Type, Msg, F, m) BY <1>1, <3>1, AddUnsetRevised
      <3> QED BY <1>4, <3>1, <3>2
    <2>2. CASE Repeated /\ \E m \in AddRepeatedField(Top.at, Msg, F, HelperMax) : Mutated(m)
      <3>1. PICK m \in AddRepeatedField(Top.at, Msg, F, HelperMax) : Mutated(m) BY <2>2
      <3>2. Revised(Type, Msg, F, m) BY <1>1, <1>2, <2>2, <3>1, AddRepeatedRevised
      <3> QED BY <1>4, <3>1, <3>2
    <2>3. CASE /\ InGroup /\ GroupOf = {}
               /\ \E m \in AddUnsetField(Top.at, Msg, F, HelperMax) : Mutated(m)
      BY <1>2, <2>1, <2>3 DEF GroupOf
    <2>4. CASE /\ Singular /\ Msg[F] = <<>>
               /\ \E m \in AddUnsetField(Top.at, Msg, F, HelperMax) : Mutated(m)
      BY <1>2, <1>5, <2>1, <2>4
    <2> QED BY <1>8, <2>2, <2>3, <2>4 DEF MutationAdd
  <1>9. CASE Delete
    <2>1. CASE Singular /\ \E m \in DeleteSetField(Msg, F) : Mutated(m)
      <3>1. PICK m \in DeleteSetField(Msg, F) : Mutated(m) BY <2>1
      <3>2. m = Msg \/ m = Put(Msg, F, <<>>) BY <3>1 DEF DeleteSetField, Put
      <3>3. Revised(Type, Msg, F, m) BY <1>1, <1>2, <1>3, <2>1, <3>2, PutRevised
      <3> QED BY <1>4, <3>1, <3>3
    <2>2. CASE Repeated /\ \E m \in DeleteRepeatedField(Msg, F) : Mutated(m)
      <3>1. PICK m \in DeleteRepeatedField(Msg, F) : Mutated(m) BY <2>2
      <3>2. Revised(Type, Msg, F, m) BY <1>1, <1>2, <2>2, <3>1, DeleteRepeatedRevised
      <3> QED BY <1>4, <3>1, <3>2
    <2> QED BY <1>9, <2>1, <2>2 DEF Delete
  <1>10. CASE Mutate
    <2>1. CASE Singular /\ \E m \in MutateSetField(Top.at, Msg, F, HelperMax) : Mutated(m)
      <3>1. PICK m \in MutateSetField(Top.at, Msg, F, HelperMax) : Mutated(m) BY <2>1
      <3>2. Revised(Type, Msg, F, m) BY <1>1, <1>2, <2>1, <3>1, MutateSetRevised
      <3> QED BY <1>4, <3>1, <3>2
    <2>2. CASE /\ Repeated /\ ~IsMessageType(Type[F])
               /\ \E m \in MutateRepeatedField(Top.at, Msg, F, HelperMax) : Mutated(m)
      <3>1. PICK m \in MutateRepeatedField(Top.at, Msg, F, HelperMax) : Mutated(m) BY <2>2
      <3>2. Revised(Type, Msg, F, m) BY <1>1, <1>2, <2>2, <3>1, RearrangedRevised
      <3> QED BY <1>4, <3>1, <3>2
    <2>3. CASE /\ InGroup
               /\ \E h \in GroupOf : \E m \in MutateSetField(Top.at, Msg, h, HelperMax) :
                     IF m[h] # <<>> /\ IsMessageType(Type[h])
                     THEN StartDescent(m, h, remain) ELSE Mutated(m)
      <3>0. PICK h \in GroupOf : \E m \in MutateSetField(Top.at, Msg, h, HelperMax) :
               IF m[h] # <<>> /\ IsMessageType(Type[h])
               THEN StartDescent(m, h, remain) ELSE Mutated(m)
        BY <2>3
      <3>1. PICK m \in MutateSetField(Top.at, Msg, h, HelperMax) :
               IF m[h] # <<>> /\ IsMessageType(Type[h])
               THEN StartDescent(m, h, remain) ELSE Mutated(m)
        BY <3>0
      <3>2. h \in Group(Type, F) BY DEF GroupOf, SetMembers
      <3>3. Revised(Type, Msg, F, m) BY <1>1, <1>2, <2>3, <3>2, MutateSetRevised
      <3>4. Goal(m) BY <1>4, <3>1, <3>2 DEF Goal
      <3> QED BY <3>3, <3>4
    <2> QED BY <1>10, <2>1, <2>2, <2>3 DEF Mutate
  <1>11. CASE Shuffle
    <2>1. PICK m \in ShuffleRepeatedField(Msg, F) : Mutated(m) BY <1>11 DEF Shuffle
    <2>2. Repeated BY <1>11 DEF Shuffle
    <2>3. Revised(Type, Msg, F, m) BY <1>1, <1>2, <2>1, <2>2, RearrangedRevised
    <2> QED BY <1>4, <2>1, <2>3
  <1>12. CASE EnterMessage
    <2>1. PICK m : /\ m = IF Msg[F] = <<>> THEN SetField(Type, Msg, F, EmptyLeaf) ELSE Msg
                   /\ StartDescent(m, F, remain)
      BY <1>12 DEF EnterMessage
    <2>2. Type[F].oneof = 0 /\ IsMessageType(Type[F]) /\ ~IsRepeated(Type[F])
      BY <1>12 DEF EnterMessage, InGroup, IsMessageType, IsRepeated
    <2>3. Goal(m) BY <1>2, <2>1, <2>2 DEF Goal
    <2>4. Revised(Type, Msg, F, m)
      <3>1. EmptyLeaf \in Values(Type, F) BY <2>2, EmptyIsLeaf, LeavesAreLeaves DEF Values
      <3>3. CASE Msg[F] = <<>> BY <1>1, <1>2, <2>1, <2>2, <3>1, <3>3, SetRevised
      <3>4. CASE Msg[F] # <<>> BY <1>3, <2>1, <3>4
      <3> QED BY <3>3, <3>4
    <2> QED BY <2>3, <2>4
  <1> QED BY <1>6, <1>7, <1>8, <1>9, <1>10, <1>11, <1>12

-----------------------------------------------------------------------------
(* The positions, seen as what they are.                                   *)

LEMMA Schemas ==
    /\ RootType \in Types /\ DOMAIN RootType = 1 .. Len(RootType) /\ Len(RootType) \in Nat
    /\ LeafType \in Types /\ DOMAIN LeafType = 1 .. Len(LeafType) /\ Len(LeafType) \in Nat
  BY SchemaLaws DEF Types

LEMMA OuterFields ==
    ASSUME NEW f, NEW i, NEW e, NEW x
    PROVE  /\ Outer(f, i, e, x).at = <<>> /\ Outer(f, i, e, x).field = f
           /\ Outer(f, i, e, x).into = i /\ Outer(f, i, e, x).elem = e
           /\ Outer(f, i, e, x).max = x
  BY DEF Outer

LEMMA OuterView ==
    ASSUME NEW f, NEW i, NEW e, NEW x, stack = <<Outer(f, i, e, x)>>
    PROVE  /\ stack # <<>> /\ Len(stack) = 1 /\ stack[1] = Outer(f, i, e, x)
           /\ DOMAIN stack = {1} /\ Top = Outer(f, i, e, x)
           /\ Top.into = i /\ Top.elem = e /\ Top.at = <<>> /\ Top.max = x /\ Top.field = f
           /\ F = f /\ Type = RootType /\ Msg = root
           /\ \A m : Size(m) = RootSize(m)
  <1>1. stack # <<>> /\ Len(stack) = 1 /\ stack[1] = Outer(f, i, e, x) /\ DOMAIN stack = {1}
    OBVIOUS
  <1>2. Top = Outer(f, i, e, x) BY <1>1 DEF Top, Last
  <1>3. /\ Top.into = i /\ Top.elem = e /\ Top.at = <<>> /\ Top.max = x /\ Top.field = f
    BY <1>2, OuterFields
  <1> QED BY <1>1, <1>2, <1>3 DEF F, Type, Msg, Size, TypeAt, MessageAt, SizeAt

LEMMA InsideView ==
    ASSUME NEW f, NEW i, NEW e, NEW x, NEW g, NEW y, Inside(f, i, e, x, g, y)
    PROVE  /\ stack # <<>> /\ Len(stack) = 2 /\ DOMAIN stack = {1, 2}
           /\ stack[1] = Outer(f, i, e + 1, x) /\ stack[2] = Frame(<<i, e>>, g, y)
           /\ Top.into = 0 /\ Top.at = <<i, e>> /\ Top.max = y /\ Top.field = g
           /\ F = g /\ Type = LeafType /\ Msg = root[i][e]
           /\ \A m : Size(m) = LeafSize(m)
  <1>1. /\ stack # <<>> /\ Len(stack) = 2 /\ stack[2] = Frame(<<i, e>>, g, y)
        /\ DOMAIN stack = 1 .. 2 /\ stack[1] = Outer(f, i, e + 1, x)
    BY DEF Inside
  <1>2. Top = Frame(<<i, e>>, g, y) BY <1>1 DEF Top, Last
  <1>3. Top.into = 0 /\ Top.at = <<i, e>> /\ Top.field = g /\ Top.max = y
    BY <1>2 DEF Frame
  <1>4. Top.at # <<>> /\ Top.at[1] = i /\ Top.at[2] = e BY <1>3
  <1>5. \A k \in 1 .. 2 : k = 1 \/ k = 2 OBVIOUS
  <1>6. DOMAIN stack = {1, 2} BY <1>1, <1>5
  <1>7. F = g /\ Type = LeafType /\ Msg = root[i][e] /\ \A m : Size(m) = LeafSize(m)
    BY <1>3, <1>4 DEF F, Type, Msg, Size, TypeAt, MessageAt, SizeAt
  <1> QED BY <1>1, <1>3, <1>6, <1>7

(* A field in a group that is repeated is the group; one that holds        *)
(* embedded messages holds a sequence of them.                             *)
LEMMA EmbeddedLaws ==
    ASSUME IsRoot(root), NEW f, NEW i, Embedded(f, i)
    PROVE  /\ f \in DOMAIN RootType /\ i \in DOMAIN RootType /\ i # 0 /\ f \in Nat /\ i \in Nat
           /\ IsRepeated(RootType[i]) => i = f
           /\ root[i] \in Seq(Leaves) /\ Len(root[i]) \in Nat /\ DOMAIN root[i] = 1 .. Len(root[i])
  <1>1. f \in DOMAIN RootType /\ i \in DOMAIN RootType BY DEF Embedded, Group
  <1>2. f \in Nat /\ i \in Nat \ {0} BY <1>1, Schemas
  <1>3. IsRepeated(RootType[i]) => i = f
    BY <1>1, Schemas, GroupLaws DEF Embedded
  <1>4. root[i] \in Seq(Leaves)
    BY <1>1, Schemas, RootIsMsg, MsgFields DEF Embedded, Values
  <1> QED BY <1>1, <1>2, <1>3, <1>4

LEMMA NextField ==
    ASSUME NEW f, NEW i, NEW e, NEW x, stack = <<Outer(f, i, e, x)>>, NEW m, EndField(m)
    PROVE  /\ root' = m /\ remain' = x - RootSize(m) /\ seed' = seed /\ maxSize' = maxSize
           /\ stack' = <<Outer(f + 1, 0, 0, x)>>
  <1>1. Len(stack) = 1 /\ Top.at = <<>> /\ Top.field = f /\ Top.max = x
        /\ Size(m) = RootSize(m)
    BY OuterView
  <1>2. Frame(<<>>, f + 1, x) = Outer(f + 1, 0, 0, x) BY DEF Frame, Outer
  <1>3. stack' = [stack EXCEPT ![1] = Outer(f + 1, 0, 0, x)] BY <1>1, <1>2 DEF EndField
  <1>4. stack' = <<Outer(f + 1, 0, 0, x)>> BY <1>3
  <1> QED BY <1>1, <1>4 DEF EndField, PutAt, call

LEMMA IntoEmbedded ==
    ASSUME NEW f, NEW x, stack = <<Outer(f, 0, 0, x)>>, NEW m, NEW i, NEW left,
           StartDescent(m, i, left)
    PROVE  /\ root' = m /\ remain' = left /\ seed' = seed /\ maxSize' = maxSize
           /\ stack' = <<Outer(f, i, 1, x)>>
  <1>1. Len(stack) = 1 /\ Top.at = <<>> BY OuterView
  <1>2. stack' = <<Outer(f, i, 1, x)>>
    <2>1. stack' = [stack EXCEPT ![1].into = i, ![1].elem = 1] BY <1>1 DEF StartDescent
    <2>2. Outer(f, i, 1, x) = [Outer(f, 0, 0, x) EXCEPT !.into = i, !.elem = 1]
      <3>1. [Outer(f, 0, 0, x) EXCEPT !.into = i] = Outer(f, i, 0, x) BY DEF Outer
      <3>2. [Outer(f, i, 0, x) EXCEPT !.elem = 1] = Outer(f, i, 1, x) BY DEF Outer
      <3> QED BY <3>1, <3>2
    <2>3. stack' = <<[Outer(f, 0, 0, x) EXCEPT !.into = i, !.elem = 1]>> BY <2>1
    <2> QED BY <2>2, <2>3
  <1> QED BY <1>1, <1>2 DEF StartDescent, PutAt, call

-----------------------------------------------------------------------------
(* What each kind of step does.                                            *)

(* A revision of the outer message at field f, which the loop leaves or    *)
(* descends into.                                                          *)
LEMMA OuterRevised ==
    ASSUME MutInv, NEW f, NEW x, AtField(f, x), f <= Len(RootType),
           NEW m, Revised(RootType, root, f, m), root' = m, seed' = seed, maxSize' = maxSize,
           NEW f1, NEW i1, NEW e1, stack' = <<Outer(f1, i1, e1, x)>>,
           \/ f1 = f + 1 /\ i1 = 0
           \/ f1 = f /\ i1 # 0
    PROVE  IsRoot(root') /\ Lengths' /\ GroupsStep
  <1>1. f \in DOMAIN RootType /\ stack = <<Outer(f, 0, 0, x)>> BY Schemas DEF AtField
  <1>2. /\ stack # <<>> /\ stack[1].into = 0 /\ stack[1].field = f /\ stack[1].at = <<>>
        /\ DOMAIN stack = {1}
    BY <1>1, OuterView, OuterFields
  <1>3. /\ stack' # <<>> /\ stack'[1].into = i1 /\ stack'[1].field = f1
    BY OuterFields
  <1>4. /\ GroupsIn(RootType, root, m)
        /\ \A h \in DOMAIN RootType : IsRepeated(RootType[h]) /\ h # f => m[h] = root[h]
    <2>1. RootType \in Types BY Schemas
    <2>2. f \in DOMAIN RootType /\ Revised(RootType, root, f, m) BY <1>1
    <2>3. GroupsIn(RootType, root, m) BY <2>1, <2>2, RevisedGroups
    <2>5. \A h \in DOMAIN RootType : IsRepeated(RootType[h]) /\ h # f => m[h] = root[h]
      BY <2>1, <2>2, RevisedGroups
    <2> QED BY <2>3, <2>5
  <1>5. IsRoot(root') BY RootIsMsg DEF Revised
  <1>6. GroupsStep
    <2>1. \A i \in DOMAIN stack : stack[i].at = <<>> BY <1>2
    <2> QED BY <1>4, <2>1 DEF GroupsStep, TypeAt, MessageAt
  <1>8. Lengths'
    <2> SUFFICES ASSUME NEW h \in DOMAIN RootType, IsRepeated(RootType[h])
                 PROVE  /\ Bounded(Len(seed[h]), Len(m[h]))
                        /\ Ahead(h)' => Len(m[h]) = Len(seed[h])
      BY DEF Lengths
    <2>1. h \in Nat /\ f \in Nat BY <1>1, Schemas
    <2>2. Bounded(Len(seed[h]), Len(root[h])) /\ (Ahead(h) => Len(root[h]) = Len(seed[h]))
      BY DEF MutInv, Lengths
    <2>3. Ahead(h) <=> h >= f BY <1>2 DEF Ahead
    <2>4. Ahead(h)' => h > f BY <1>3, <2>1 DEF Ahead
    <2>5. CASE h = f
      <3>1. Len(root[h]) = Len(seed[h]) BY <2>1, <2>2, <2>3, <2>5
      <3>2. Bounded(Len(root[h]), Len(m[h])) BY <2>5 DEF Revised
      <3> QED BY <2>1, <2>4, <2>5, <3>1, <3>2
    <2>6. CASE h # f
      <3>1. m[h] = root[h] BY <1>4, <2>6
      <3> QED BY <2>1, <2>2, <2>3, <2>4, <3>1
    <2> QED BY <2>5, <2>6
  <1> QED BY <1>5, <1>6, <1>8

LEMMA OuterStep ==
    ASSUME MutInv, NEW f, NEW x, AtField(f, x), f <= Len(RootType),
           NEW m, Revised(RootType, root, f, m),
           \/ EndField(m)
           \/ \E i \in Group(RootType, f) :
                 /\ IsMessageType(RootType[i])
                 /\ StartDescent(m, i, x - RootSize(m)) \/ StartDescent(m, i, remain)
    PROVE  /\ MutInv' /\ GroupsStep
           /\ SizesAreNumbers /\ Numbers => Numbers'
  <1>1. f \in DOMAIN RootType /\ stack = <<Outer(f, 0, 0, x)>> BY Schemas DEF AtField
  <1>2. IsRoot(m) BY RootIsMsg DEF Revised
  <1>3. SizesAreNumbers /\ Numbers => x \in Int /\ RootSize(m) \in Nat /\ remain \in Int
    BY <1>1, <1>2, OuterView DEF SizesAreNumbers, Numbers
  <1>4. CASE EndField(m)
    <2>1. /\ root' = m /\ remain' = x - RootSize(m) /\ seed' = seed /\ maxSize' = maxSize
          /\ stack' = <<Outer(f + 1, 0, 0, x)>>
      BY <1>1, <1>4, NextField
    <2>2. IsRoot(root') /\ Lengths' /\ GroupsStep BY <2>1, OuterRevised
    <2>3. Placed'
      <3>1. f + 1 \in 1 .. Len(RootType) + 1 BY Schemas DEF AtField
      <3>2. AtField(f + 1, x)' BY <2>1, <3>1 DEF AtField
      <3> QED BY <3>2 DEF Placed
    <2>4. DOMAIN stack' = {1} /\ stack'[1].max = x BY <2>1, OuterFields
    <2> QED BY <1>3, <2>1, <2>2, <2>3, <2>4 DEF MutInv, Numbers
  <1>5. CASE \E i \in Group(RootType, f) :
                /\ IsMessageType(RootType[i])
                /\ StartDescent(m, i, x - RootSize(m)) \/ StartDescent(m, i, remain)
    <2>1. PICK i \in Group(RootType, f), left \in {x - RootSize(m), remain} :
             IsMessageType(RootType[i]) /\ StartDescent(m, i, left)
      BY <1>5
    <2>2. Embedded(f, i) BY <1>1, <2>1 DEF Embedded
    <2>3. i # 0 BY <2>2, EmbeddedLaws DEF MutInv
    <2>4. /\ root' = m /\ remain' = left /\ seed' = seed /\ maxSize' = maxSize
          /\ stack' = <<Outer(f, i, 1, x)>>
      BY <1>1, <2>1, IntoEmbedded
    <2>5. IsRoot(root') /\ Lengths' /\ GroupsStep BY <2>3, <2>4, OuterRevised
    <2>6. Placed'
      <3>1. Between(f, i, 1, x)' BY <2>2, <2>4 DEF Between, Embedded
      <3> QED BY <3>1 DEF Placed
    <2>7. DOMAIN stack' = {1} /\ stack'[1].max = x BY <2>4, OuterFields
    <2>8. SizesAreNumbers /\ Numbers => Numbers'
      <3>1. SizesAreNumbers /\ Numbers => left \in Int BY <1>3, <2>1
      <3> QED BY <1>3, <2>4, <2>7, <3>1 DEF Numbers
    <2> QED BY <2>4, <2>5, <2>6, <2>8 DEF MutInv
  <1> QED BY <1>4, <1>5

(* A step that leaves every message as it is.                              *)
LEMMA MessagesKept ==
    ASSUME MutInv, root' = root, seed' = seed, maxSize' = maxSize,
           stack' = <<>> \/ \A h \in Nat : Ahead(h)' => Ahead(h)
    PROVE  IsRoot(root') /\ Lengths' /\ GroupsStep
  <1>1. \A h \in DOMAIN RootType : Ahead(h)' => Ahead(h)
    <2>1. stack' = <<>> => \A h : ~Ahead(h)' BY DEF Ahead
    <2>2. DOMAIN RootType \subseteq Nat BY Schemas
    <2> QED BY <2>1, <2>2
  <1>2. Lengths' BY <1>1 DEF MutInv, Lengths
  <1>3. GroupsStep BY DEF GroupsStep, GroupsIn
  <1> QED BY <1>2, <1>3 DEF MutInv, IsRoot

(* A revision of the embedded message at <<i, e>>.                         *)
LEMMA InnerStep ==
    ASSUME MutInv, NEW f, NEW i, NEW e, NEW x, NEW g, NEW y, Inside(f, i, e, x, g, y),
           g <= Len(LeafType), NEW m, Revised(LeafType, root[i][e], g, m), EndField(m)
    PROVE  /\ MutInv' /\ GroupsStep
           /\ SizesAreNumbers /\ Numbers => Numbers'
  <1>1. /\ Embedded(f, i) /\ e \in DOMAIN root[i] /\ g \in DOMAIN LeafType
        /\ g + 1 \in 1 .. Len(LeafType) + 1
        /\ stack = <<Outer(f, i, e + 1, x), Frame(<<i, e>>, g, y)>>
    BY Schemas DEF Inside
  <1>2. /\ stack # <<>> /\ Len(stack) = 2 /\ DOMAIN stack = {1, 2}
        /\ stack[1] = Outer(f, i, e + 1, x) /\ stack[2] = Frame(<<i, e>>, g, y)
        /\ Top.at = <<i, e>> /\ Top.max = y /\ Top.field = g /\ Size(m) = LeafSize(m)
    BY InsideView DEF Inside
  <1>3. /\ i \in DOMAIN RootType /\ IsMessageType(RootType[i]) /\ i # 0
    BY <1>1, EmbeddedLaws DEF MutInv, Embedded
  <1>4. IsLeaf(m) BY LeafIsMsg DEF Revised
  <1>5. /\ root' = PutAt(root, <<i, e>>, m) /\ remain' = y - LeafSize(m)
        /\ seed' = seed /\ maxSize' = maxSize
        /\ stack' = <<Outer(f, i, e + 1, x), Frame(<<i, e>>, g + 1, y)>>
    <2>1. stack' = [stack EXCEPT ![2] = Frame(<<i, e>>, g + 1, y)] BY <1>2 DEF EndField
    <2>2. stack' = <<Outer(f, i, e + 1, x), Frame(<<i, e>>, g + 1, y)>> BY <1>1, <2>1
    <2> QED BY <1>2, <2>2 DEF EndField, call
  <1>6. PICK r : r = PutAt(root, <<i, e>>, m) OBVIOUS
  <1>7. /\ IsRoot(r) /\ r[i][e] = m
        /\ DOMAIN r[i] = DOMAIN root[i] /\ Len(r[i]) = Len(root[i])
        /\ \A h \in DOMAIN RootType : h # i => r[h] = root[h]
        /\ \A h \in DOMAIN RootType : r[h] = <<>> <=> root[h] = <<>>
    BY <1>1, <1>3, <1>4, <1>6, PutEmbedded DEF MutInv
  <1>8. root' = r BY <1>5, <1>6
  <1>9. /\ stack' # <<>> /\ DOMAIN stack' = {1, 2} /\ stack'[1] = stack[1]
        /\ stack'[2] = Frame(<<i, e>>, g + 1, y)
    <2>1. DOMAIN stack' = 1 .. 2 /\ stack' # <<>> /\ stack'[1] = stack[1] BY <1>2, <1>5
    <2>2. \A k \in 1 .. 2 : k = 1 \/ k = 2 OBVIOUS
    <2> QED BY <1>5, <2>1, <2>2
  <1>10. Placed'
    <2>1. Inside(f, i, e, x, g + 1, y)' BY <1>1, <1>5, <1>7, <1>8 DEF Inside, Embedded
    <2> QED BY <2>1 DEF Placed
  <1>11. Lengths'
    <2> SUFFICES ASSUME NEW h \in DOMAIN RootType, IsRepeated(RootType[h])
                 PROVE  /\ Bounded(Len(seed[h]), Len(r[h]))
                        /\ Ahead(h)' => Len(r[h]) = Len(seed[h])
      BY <1>5, <1>8 DEF Lengths
    <2>1. Len(r[h]) = Len(root[h]) BY <1>7
    <2>2. Ahead(h)' => Ahead(h) BY <1>2, <1>9 DEF Ahead
    <2> QED BY <2>1, <2>2 DEF MutInv, Lengths
  <1>12. GroupsStep
    <2>1. GroupsIn(LeafType, root[i][e], m) BY <1>1, Schemas, RevisedGroups
    <2>2. GroupsIn(RootType, root, r) BY <1>7 DEF GroupsIn, SetMembers, Group
    <2>3. stack[1].at = <<>> /\ stack[2].at = <<i, e>> BY <1>2, OuterFields DEF Frame
    <2>4. <<i, e>> # <<>> /\ <<i, e>>[1] = i /\ <<i, e>>[2] = e OBVIOUS
    <2>5. GroupsIn(TypeAt(stack[1].at), MessageAt(root, stack[1].at), MessageAt(r, stack[1].at))
      BY <2>2, <2>3 DEF TypeAt, MessageAt
    <2>6. GroupsIn(TypeAt(stack[2].at), MessageAt(root, stack[2].at), MessageAt(r, stack[2].at))
      BY <1>7, <2>1, <2>3, <2>4 DEF TypeAt, MessageAt
    <2> QED BY <1>2, <1>8, <2>5, <2>6 DEF GroupsStep
  <1>14. ASSUME SizesAreNumbers, Numbers PROVE Numbers'
    <2>1. x \in Int /\ y \in Int
      <3>1. stack[1].max = x /\ stack[2].max = y BY <1>2, OuterFields DEF Frame
      <3> QED BY <1>2, <1>14, <3>1 DEF Numbers
    <2>2. stack'[1].max = x /\ stack'[2].max = y BY <1>2, <1>9, OuterFields DEF Frame
    <2>3. LeafSize(m) \in Nat BY <1>4, <1>14 DEF SizesAreNumbers
    <2> QED BY <1>5, <1>9, <2>1, <2>2, <2>3 DEF Numbers
  <1> QED BY <1>5, <1>7, <1>8, <1>10, <1>11, <1>12, <1>14 DEF MutInv

LEMMA DescendStep ==
    ASSUME MutInv, NEW f, NEW i, NEW e, NEW x, Between(f, i, e, x), Descend
    PROVE  /\ MutInv' /\ GroupsStep
           /\ SizesAreNumbers /\ Numbers => Numbers'
  <1>1. /\ stack = <<Outer(f, i, e, x)>> /\ Embedded(f, i) /\ e \in Nat \ {0} BY DEF Between
  <1>2. /\ stack # <<>> /\ Len(stack) = 1 /\ stack[1] = Outer(f, i, e, x)
        /\ Top.into = i /\ Top.elem = e /\ Msg = root /\ DOMAIN stack = {1}
    BY <1>1, OuterView
  <1>3. /\ root' = root /\ remain' = remain /\ seed' = seed /\ maxSize' = maxSize
        /\ e <= Len(root[i])
    BY <1>2 DEF Descend, call
  <1>4. /\ root[i] \in Seq(Leaves) /\ Len(root[i]) \in Nat /\ DOMAIN root[i] = 1 .. Len(root[i])
        /\ i # 0
    BY <1>1, EmbeddedLaws DEF MutInv
  <1>5. e \in DOMAIN root[i] BY <1>1, <1>3, <1>4
  <1>6. PICK y : y = LeafSize(root[i][e]) + remain OBVIOUS
  <1>7. stack' = <<Outer(f, i, e + 1, x), Frame(<<i, e>>, 1, y)>>
    <2>1. [Outer(f, i, e, x) EXCEPT !.elem = e + 1] = Outer(f, i, e + 1, x) BY DEF Outer
    <2>2. stack' = Append([stack EXCEPT ![1].elem = @ + 1], Frame(<<i, e>>, 1, y))
      BY <1>2, <1>6 DEF Descend
    <2>3. Outer(f, i, e, x).elem = e BY OuterFields
    <2>4. [stack EXCEPT ![1].elem = @ + 1] = <<Outer(f, i, e + 1, x)>>
      <3>1. [stack EXCEPT ![1].elem = @ + 1] = <<[Outer(f, i, e, x) EXCEPT !.elem = @ + 1]>>
        BY <1>1
      <3>2. [Outer(f, i, e, x) EXCEPT !.elem = @ + 1] = Outer(f, i, e + 1, x) BY <2>1, <2>3
      <3> QED BY <3>1, <3>2
    <2>5. stack' = Append(<<Outer(f, i, e + 1, x)>>, Frame(<<i, e>>, 1, y)) BY <2>2, <2>4, Zenon
    <2> QED BY <2>5, Pushed
  <1>8. Placed'
    <2>1. 1 \in 1 .. Len(LeafType) + 1 BY Schemas
    <2>2. Inside(f, i, e, x, 1, y)' BY <1>1, <1>3, <1>5, <1>7, <2>1 DEF Inside, Embedded
    <2> QED BY <2>2 DEF Placed
  <1>9. /\ stack' # <<>> /\ DOMAIN stack' = 1 .. 2 /\ stack'[1] = Outer(f, i, e + 1, x)
        /\ stack'[2] = Frame(<<i, e>>, 1, y)
    BY <1>7
  <1>10. IsRoot(root') /\ Lengths' /\ GroupsStep
    <2>1. /\ stack'[1].into = stack[1].into /\ stack'[1].field = stack[1].field
      BY <1>2, <1>9, OuterFields
    <2>2. \A h \in Nat : Ahead(h)' => Ahead(h) BY <1>2, <1>9, <2>1 DEF Ahead
    <2> QED BY <1>3, <2>2, MessagesKept
  <1>11. ASSUME SizesAreNumbers, Numbers PROVE Numbers'
    <2>1. IsLeaf(root[i][e]) BY <1>4, <1>5, LeavesAreLeaves
    <2>2. remain \in Int /\ x \in Int /\ LeafSize(root[i][e]) \in Nat
      BY <1>2, <1>11, <2>1, OuterFields DEF Numbers, SizesAreNumbers
    <2>3. y \in Int BY <1>6, <2>2
    <2>4. stack'[1].max = x /\ stack'[2].max = y BY <1>9, OuterFields DEF Frame
    <2>5. \A k \in 1 .. 2 : k = 1 \/ k = 2 OBVIOUS
    <2> QED BY <1>3, <1>9, <2>2, <2>3, <2>4, <2>5 DEF Numbers
  <1> QED BY <1>3, <1>8, <1>10, <1>11 DEF MutInv

LEMMA EndDescentStep ==
    ASSUME MutInv, NEW f, NEW i, NEW e, NEW x, Between(f, i, e, x), EndDescent
    PROVE  /\ MutInv' /\ GroupsStep
           /\ SizesAreNumbers /\ Numbers => Numbers'
  <1>1. /\ stack = <<Outer(f, i, e, x)>> /\ Embedded(f, i) BY DEF Between
  <1>2. stack # <<>> /\ stack[1] = Outer(f, i, e, x) /\ Msg = root /\ DOMAIN stack = {1}
    BY <1>1, OuterView
  <1>3. f \in DOMAIN RootType /\ f \in Nat /\ i # 0 BY <1>1, EmbeddedLaws DEF MutInv
  <1>4. EndField(root) BY <1>2 DEF EndDescent
  <1>5. /\ root' = root /\ remain' = x - RootSize(root) /\ seed' = seed /\ maxSize' = maxSize
        /\ stack' = <<Outer(f + 1, 0, 0, x)>>
    BY <1>1, <1>4, NextField
  <1>6. Placed'
    <2>1. f + 1 \in 1 .. Len(RootType) + 1 BY <1>3, Schemas
    <2>2. AtField(f + 1, x)' BY <1>5, <2>1 DEF AtField
    <2> QED BY <2>2 DEF Placed
  <1>7. stack' # <<>> /\ stack'[1] = Outer(f + 1, 0, 0, x) /\ DOMAIN stack' = {1} BY <1>5
  <1>8. IsRoot(root') /\ Lengths' /\ GroupsStep
    <2>1. /\ stack'[1].into = 0 /\ stack'[1].field = f + 1
          /\ stack[1].into = i /\ stack[1].field = f
      BY <1>2, <1>7, OuterFields
    <2>2. \A h \in Nat : h >= f + 1 => h > f BY <1>3
    <2>3. \A h \in Nat : Ahead(h)' => Ahead(h) BY <1>2, <1>3, <2>1, <2>2 DEF Ahead
    <2> QED BY <1>5, <2>3, MessagesKept
  <1>9. ASSUME SizesAreNumbers, Numbers PROVE Numbers'
    <2>1. x \in Int /\ stack'[1].max = x BY <1>2, <1>7, <1>9, OuterFields DEF Numbers
    <2>2. RootSize(root) \in Nat BY <1>9 DEF SizesAreNumbers, MutInv
    <2> QED BY <1>5, <1>7, <2>1, <2>2 DEF Numbers
  <1> QED BY <1>5, <1>6, <1>8, <1>9 DEF MutInv

(* An activation returns: the call is over, or that embedded message is.   *)
LEMMA ReturnStep ==
    ASSUME MutInv, Return
    PROVE  /\ MutInv' /\ GroupsStep
           /\ SizesAreNumbers /\ Numbers => Numbers'
  <1>1. root' = root /\ remain' = remain /\ seed' = seed /\ maxSize' = maxSize
    BY DEF Return, call
  <1>2. CASE \E f, x : AtField(f, x)
    <2>1. PICK f, x : AtField(f, x) BY <1>2
    <2>2. stack = <<Outer(f, 0, 0, x)>> BY <2>1 DEF AtField
    <2>3. stack' = <<>> BY <2>2 DEF Return, Front
    <2>4. IsRoot(root') /\ Lengths' /\ GroupsStep BY <1>1, <2>3, MessagesKept
    <2>5. Placed' BY <2>3 DEF Placed
    <2>6. Numbers => Numbers'
      <3>1. DOMAIN stack' = {} BY <2>3
      <3> QED BY <1>1, <3>1 DEF Numbers
    <2> QED BY <1>1, <2>4, <2>5, <2>6 DEF MutInv
  <1>3. CASE \E f, i, e, x : Between(f, i, e, x)
    <2>1. PICK f, i, e, x : Between(f, i, e, x) BY <1>3
    <2>2. stack = <<Outer(f, i, e, x)>> /\ Embedded(f, i) BY <2>1 DEF Between
    <2>3. Top.into # 0 BY <2>2, OuterView, EmbeddedLaws DEF MutInv
    <2> QED BY <2>3 DEF Return
  <1>4. CASE \E f, i, e, x, g, y : Inside(f, i, e, x, g, y)
    <2>1. PICK f, i, e, x, g, y : Inside(f, i, e, x, g, y) BY <1>4
    <2>2. stack = <<Outer(f, i, e + 1, x), Frame(<<i, e>>, g, y)>> /\ Embedded(f, i)
          /\ e \in DOMAIN root[i]
      BY <2>1 DEF Inside
    <2>3. stack' = <<Outer(f, i, e + 1, x)>>
      <3>1. PICK a, b : a = Outer(f, i, e + 1, x) /\ b = Frame(<<i, e>>, g, y) OBVIOUS
      <3>2. stack = <<a, b>> /\ Len(stack) = 2 BY <2>2, <3>1
      <3>3. stack' = SubSeq(<<a, b>>, 1, 1) BY <3>2 DEF Return, Front
      <3> QED BY <3>1, <3>3, Popped
    <2>4. e + 1 \in Nat \ {0}
      <3>1. e \in 1 .. Len(root[i]) /\ Len(root[i]) \in Nat
        BY <2>2, EmbeddedLaws DEF MutInv
      <3> QED BY <3>1
    <2>5. Placed'
      <3>1. Between(f, i, e + 1, x)' BY <2>2, <2>3, <2>4 DEF Between, Embedded
      <3> QED BY <3>1 DEF Placed
    <2>6. /\ stack # <<>> /\ stack'[1] = stack[1] /\ DOMAIN stack' = {1} /\ 1 \in DOMAIN stack
      BY <2>2, <2>3
    <2>7. \A h \in Nat : Ahead(h)' => Ahead(h) BY <2>6 DEF Ahead
    <2>8. IsRoot(root') /\ Lengths' /\ GroupsStep BY <1>1, <2>7, MessagesKept
    <2>9. Numbers => Numbers' BY <1>1, <2>6 DEF Numbers
    <2> QED BY <1>1, <2>5, <2>8, <2>9 DEF MutInv
  <1> QED BY <1>2, <1>3, <1>4 DEF MutInv, Placed, Return

-----------------------------------------------------------------------------
LEMMA LoopStep ==
    ASSUME MutInv, InLoop,
           \/ SkipMember \/ NoMutation \/ MutationAdd \/ Delete \/ Mutate \/ Shuffle
           \/ EnterMessage
    PROVE  /\ MutInv' /\ GroupsStep
           /\ SizesAreNumbers /\ Numbers => Numbers'
  <1>1. CASE \E f, x : AtField(f, x)
    <2>1. PICK f, x : AtField(f, x) BY <1>1
    <2>2. /\ F = f /\ Type = RootType /\ Msg = root /\ Top.max = x
          /\ \A m : Size(m) = RootSize(m)
      BY <2>1, OuterView DEF AtField
    <2>3. f \in DOMAIN RootType /\ f <= Len(RootType)
      BY <2>1, <2>2, Schemas DEF InLoop, AtField
    <2>4. IsMsg(Type, Msg) BY <2>2, RootIsMsg DEF MutInv
    <2>5. PICK m : /\ Revised(Type, Msg, F, m)
                   /\ \/ EndField(m)
                      \/ \E i \in Group(Type, F) :
                            /\ IsMessageType(Type[i])
                            /\ \/ StartDescent(m, i, Top.max - Size(m))
                               \/ StartDescent(m, i, remain)
      BY <2>2, <2>3, <2>4, LoopBody
    <2>6. /\ Revised(RootType, root, f, m)
          /\ \/ EndField(m)
             \/ \E i \in Group(RootType, f) :
                   /\ IsMessageType(RootType[i])
                   /\ StartDescent(m, i, x - RootSize(m)) \/ StartDescent(m, i, remain)
      BY <2>2, <2>5
    <2> QED BY <2>1, <2>3, <2>6, OuterStep
  <1>2. CASE \E f, i, e, x : Between(f, i, e, x)
    <2>1. PICK f, i, e, x : Between(f, i, e, x) BY <1>2
    <2>2. stack = <<Outer(f, i, e, x)>> /\ Embedded(f, i) BY <2>1 DEF Between
    <2>3. Top.into # 0 BY <2>2, OuterView, EmbeddedLaws DEF MutInv
    <2> QED BY <2>3 DEF InLoop
  <1>3. CASE \E f, i, e, x, g, y : Inside(f, i, e, x, g, y)
    <2>1. PICK f, i, e, x, g, y : Inside(f, i, e, x, g, y) BY <1>3
    <2>2. F = g /\ Type = LeafType /\ Msg = root[i][e]
      BY <2>1, InsideView DEF Inside
    <2>3. g \in DOMAIN LeafType /\ g <= Len(LeafType)
      BY <2>1, <2>2, Schemas DEF InLoop, Inside
    <2>4. IsMsg(Type, Msg)
      <3>1. root[i] \in Seq(Leaves) /\ e \in DOMAIN root[i]
        BY <2>1, EmbeddedLaws DEF MutInv, Inside
      <3>2. root[i][e] \in Leaves BY <3>1
      <3> QED BY <2>2, <3>2, LeavesAreLeaves, LeafIsMsg
    <2>5. \A h \in Group(Type, F) : ~IsMessageType(Type[h])
      BY <2>2, LeafHasNoMessage DEF Group
    <2>6. PICK m : Revised(Type, Msg, F, m) /\ EndField(m)
      BY <2>2, <2>3, <2>4, <2>5, LoopBody
    <2> QED BY <2>1, <2>2, <2>3, <2>6, InnerStep
  <1> QED BY <1>1, <1>2, <1>3 DEF MutInv, Placed, InLoop

LEMMA MutInit ==
    ASSUME Init
    PROVE  MutInv /\ (SizesAreNumbers => Numbers)
  <1>1. /\ seed \in Seeds /\ maxSize \in Budgets /\ root = seed /\ IsRoot(seed)
        /\ remain = maxSize - RootSize(seed)
    BY MutationAssumption DEF Init
  <1>2. PICK x : x = RootSize(seed) + remain OBVIOUS
  <1>3. stack = <<Outer(1, 0, 0, x)>> BY <1>2 DEF Init, Frame, Outer
  <1>4. 1 \in 1 .. Len(RootType) + 1 BY Schemas
  <1>5. AtField(1, x) BY <1>3, <1>4 DEF AtField
  <1>6. Placed BY <1>5 DEF Placed
  <1>7. Lengths
    <2>1. \A h \in DOMAIN RootType : Len(seed[h]) \in Nat
      BY <1>1, RootIsMsg, Schemas, MsgFields
    <2> QED BY <1>1, <2>1, SameBounded DEF Lengths
  <1>8. ASSUME SizesAreNumbers PROVE Numbers
    <2>1. RootSize(seed) \in Nat /\ maxSize \in Nat
      BY <1>1, <1>8, MutationAssumption DEF SizesAreNumbers
    <2>2. DOMAIN stack = {1} /\ stack[1].max = x BY <1>3, OuterFields
    <2> QED BY <1>1, <1>2, <2>1, <2>2 DEF Numbers
  <1>9. IsRoot(root) BY <1>1
  <1> QED BY <1>1, <1>6, <1>7, <1>8, <1>9 DEF MutInv

LEMMA MutStep ==
    ASSUME MutInv, [Next]_vars
    PROVE  /\ MutInv' /\ [GroupsStep]_vars
           /\ SizesAreNumbers /\ Numbers => Numbers'
  <1>1. CASE UNCHANGED vars
    <2>1. /\ root' = root /\ remain' = remain /\ stack' = stack
          /\ seed' = seed /\ maxSize' = maxSize
      BY <1>1 DEF vars, call
    <2>2. Placed' BY <2>1 DEF MutInv, Placed, AtField, Between, Inside
    <2>3. \A h : Ahead(h)' <=> Ahead(h) BY <2>1 DEF Ahead
    <2>4. IsRoot(root') /\ Lengths' BY <2>1, <2>3, MessagesKept
    <2>5. Numbers => Numbers' BY <2>1 DEF Numbers
    <2> QED BY <1>1, <2>1, <2>2, <2>4, <2>5 DEF MutInv
  <1>2. CASE \/ SkipMember \/ NoMutation \/ MutationAdd \/ Delete \/ Mutate \/ Shuffle
             \/ EnterMessage
    <2>1. InLoop
      BY <1>2 DEF SkipMember, NoMutation, MutationAdd, Delete, Mutate, Shuffle, EnterMessage
    <2> QED BY <1>2, <2>1, LoopStep
  <1>3. CASE Descend \/ EndDescent
    <2>1. stack # <<>> /\ Top.into # 0 BY <1>3 DEF Descend, EndDescent
    <2>2. \A f, x : ~AtField(f, x) BY <2>1, OuterView DEF AtField
    <2>3. \A f, i, e, x, g, y : ~Inside(f, i, e, x, g, y) BY <2>1, InsideView
    <2>4. PICK f, i, e, x : Between(f, i, e, x) BY <2>1, <2>2, <2>3 DEF MutInv, Placed
    <2> QED BY <1>3, <2>4, DescendStep, EndDescentStep
  <1>4. CASE Return BY <1>4, ReturnStep
  <1> QED BY <1>1, <1>2, <1>3, <1>4 DEF Next

LEMMA MutInvariance == Spec => []MutInv /\ [][GroupsStep]_vars
  <1>1. Init => MutInv BY MutInit
  <1>2. MutInv /\ [Next]_vars => MutInv' /\ [GroupsStep]_vars
    BY MutStep
  <1> QED BY <1>1, <1>2, PTL DEF Spec

(* A repeated field of the outer message, over a whole call, loses at most *)
(* half of MaxNewRepeated elements, none if it has no more than            *)
(* MaxNewRepeated, and gains at most MaxNewRepeated: the helpers of        *)
(* mutate_util.cpp visit each field once.                                  *)
THEOREM RepeatedFieldsBounded == Spec => []RepeatedLengths
  <1>1. Lengths => RepeatedLengths BY DEF Lengths, Bounded, Lost, RepeatedLengths
  <1>2. MutInv => RepeatedLengths BY <1>1 DEF MutInv
  <1> QED BY <1>2, MutInvariance, PTL

(* "do not delete oneof field" (mutator.cpp): no step leaves a set group   *)
(* of the message it works on, outer or embedded, without a set member.    *)
THEOREM SetGroupsStaySet == Spec => GroupsStaySet
  <1>1. GroupsStep =>
           \A i \in DOMAIN stack \cap DOMAIN stack' :
            stack'[i].at = stack[i].at =>
            \A f \in DOMAIN TypeAt(stack[i].at) :
                SetMembers(TypeAt(stack[i].at), MessageAt(root, stack[i].at), f) # {}
                /\ TypeAt(stack[i].at)[f].oneof # 0
                => SetMembers(TypeAt(stack[i].at), MessageAt(root, stack[i].at)', f) # {}
    BY DEF GroupsStep, GroupsIn, MessageAt
  <1> QED BY <1>1, MutInvariance, PTL DEF GroupsStaySet

(* The types: at most two activations are open, at the outer message and   *)
(* at one embedded in it, and every budget is a number.                    *)
THEOREM MutationTypes ==
    ASSUME SizesAreNumbers
    PROVE  Spec => []TypeOK
  <1> DEFINE Position == {<<>>} \cup ((DOMAIN RootType) \X (Nat \ {0}))
             Activation == [at : Position, field : Nat, into : Nat, elem : Nat, max : Int]
  <1>1. ASSUME MutInv, Numbers PROVE TypeOK
    <2>1. ASSUME NEW f \in Nat, NEW i \in Nat, NEW e \in Nat, NEW x \in Int
          PROVE  Outer(f, i, e, x) \in Activation
      <3>1. <<>> \in Position OBVIOUS
      <3> QED BY <3>1 DEF Outer
    <2>2. ASSUME NEW f, NEW x, AtField(f, x) PROVE stack \in Seq(Activation)
      <3>1. x \in Int BY <1>1, <2>2, OuterView DEF AtField, Numbers
      <3>2. f \in Nat BY <2>2, Schemas DEF AtField
      <3>3. Outer(f, 0, 0, x) \in Activation BY <2>1, <3>1, <3>2
      <3> HIDE DEF Activation
      <3> QED BY <2>2, <3>3 DEF AtField
    <2>3. ASSUME NEW f, NEW i, NEW e, NEW x, Between(f, i, e, x) PROVE stack \in Seq(Activation)
      <3>1. stack = <<Outer(f, i, e, x)>> /\ Embedded(f, i) /\ e \in Nat BY <2>3 DEF Between
      <3>2. stack[1] = Outer(f, i, e, x) /\ 1 \in DOMAIN stack BY <3>1
      <3>3. x \in Int BY <1>1, <3>2, OuterFields DEF Numbers
      <3>4. f \in Nat /\ i \in Nat BY <1>1, <3>1, EmbeddedLaws DEF MutInv
      <3>5. Outer(f, i, e, x) \in Activation
        <4> HIDE DEF Activation
        <4> QED BY <2>1, <3>1, <3>3, <3>4
      <3> HIDE DEF Activation
      <3> QED BY <3>1, <3>5
    <2>4. ASSUME NEW f, NEW i, NEW e, NEW x, NEW g, NEW y, Inside(f, i, e, x, g, y)
          PROVE  stack \in Seq(Activation)
      <3>1. /\ stack = <<Outer(f, i, e + 1, x), Frame(<<i, e>>, g, y)>> /\ Embedded(f, i)
            /\ e \in DOMAIN root[i] /\ g \in Nat
        BY <2>4, Schemas DEF Inside
      <3>2. /\ stack[1] = Outer(f, i, e + 1, x) /\ stack[2] = Frame(<<i, e>>, g, y)
            /\ 1 \in DOMAIN stack /\ 2 \in DOMAIN stack
        BY <2>4, InsideView DEF Inside
      <3>3. x \in Int /\ y \in Int BY <1>1, <3>2, OuterFields DEF Numbers, Frame
      <3>4. f \in Nat /\ i \in Nat /\ i \in DOMAIN RootType /\ e \in Nat \ {0}
        <4>1. DOMAIN root[i] = 1 .. Len(root[i]) /\ f \in Nat /\ i \in Nat
              /\ i \in DOMAIN RootType /\ Len(root[i]) \in Nat
          BY <1>1, <3>1, EmbeddedLaws DEF MutInv
        <4> QED BY <3>1, <4>1
      <3>5. Outer(f, i, e + 1, x) \in Activation
        <4>1. e + 1 \in Nat BY <3>4
        <4> HIDE DEF Activation
        <4> QED BY <2>1, <3>3, <3>4, <4>1
      <3>6. <<i, e>> \in Position BY <3>4
      <3>7. Frame(<<i, e>>, g, y) \in Activation
        <4> HIDE DEF Position
        <4> QED BY <3>1, <3>3, <3>6 DEF Frame
      <3> HIDE DEF Activation
      <3> QED BY <3>1, <3>5, <3>7
    <2>5. stack \in Seq(Activation)
      <3>1. CASE stack = <<>> BY <3>1
      <3> HIDE DEF Activation
      <3> QED BY <1>1, <2>2, <2>3, <2>4, <3>1 DEF MutInv, Placed
    <2>6. Len(stack) <= 2
      <3>1. ASSUME NEW f, NEW x, AtField(f, x) PROVE Len(stack) <= 2
        BY <3>1, OuterView DEF AtField
      <3>2. ASSUME NEW f, NEW i, NEW e, NEW x, Between(f, i, e, x) PROVE Len(stack) <= 2
        BY <3>2, OuterView DEF Between
      <3>3. ASSUME NEW f, NEW i, NEW e, NEW x, NEW g, NEW y, Inside(f, i, e, x, g, y)
            PROVE  Len(stack) <= 2
        <4>1. Len(stack) = 2 BY <3>3, InsideView
        <4> QED BY <4>1
      <3>4. CASE stack = <<>> BY <3>4
      <3> QED BY <1>1, <3>1, <3>2, <3>3, <3>4 DEF MutInv, Placed
    <2> QED BY <1>1, <2>5, <2>6 DEF TypeOK, MutInv, Numbers
  <1>2. Init => MutInv /\ Numbers BY MutInit
  <1>3. MutInv /\ Numbers /\ [Next]_vars => (MutInv /\ Numbers)' BY MutStep
  <1>4. MutInv /\ Numbers => TypeOK BY <1>1
  <1> QED BY <1>2, <1>3, <1>4, PTL DEF Spec
=============================================================================
