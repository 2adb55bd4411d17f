------------------------- MODULE ProtoMessage_proofs -------------------------
(* Messages of any schema: what setting a field, clearing it or writing an *)
(* embedded message makes of a message, and the call stack of a mutator    *)
(* that works on one.                                                      *)
EXTENDS ProtoMessage, TLAPS, SequenceTheorems, FiniteSetTheorems

(* What is taken for granted of ByteSizeLong: it is a number.              *)
SizesAreNumbers ==
    /\ \A m : IsRoot(m) => RootSize(m) \in Nat
    /\ \A m : IsLeaf(m) => LeafSize(m) \in Nat

Types == {RootType, LeafType}
Leaves == {m \in [DOMAIN LeafType -> Seq(Scalars)] : IsLeaf(m)}
Values(T, f) == IF IsMessageType(T[f]) THEN Leaves ELSE Scalars

(* A message of type T, the outer or the embedded one.                     *)
IsMsg(T, m) ==
    /\ m = [f \in DOMAIN T |-> m[f]]
    /\ \A f \in DOMAIN T : Holds(T, m, f, Values(T, f))

LEMMA SchemaLaws ==
    ASSUME NEW T \in Types
    PROVE  /\ DOMAIN T = 1 .. Len(T) /\ Len(T) \in Nat
           /\ \A f \in DOMAIN T : IsRepeated(T[f]) => T[f].oneof = 0
  <1>1. T \in Seq(Fields({"scalar", "repeated", "message", "messages"}))
        \/ T \in Seq(Fields({"scalar", "repeated"}))
    BY TypesAssumption DEF Types
  <1>2. \A f \in DOMAIN T : T[f].oneof # 0 => T[f].kind \in {"scalar", "message"}
    BY TypesAssumption DEF Types
  <1>3. DOMAIN T = 1 .. Len(T) /\ Len(T) \in Nat BY <1>1
  <1> QED BY <1>2, <1>3 DEF IsRepeated

(* Embedded messages have no embedded messages.                            *)
LEMMA LeafHasNoMessage == \A f \in DOMAIN LeafType : ~IsMessageType(LeafType[f])
  <1>1. LeafType \in Seq(Fields({"scalar", "repeated"})) BY TypesAssumption
  <1>2. \A f \in DOMAIN LeafType : LeafType[f] \in Fields({"scalar", "repeated"}) BY <1>1
  <1> QED BY <1>2 DEF Fields, IsMessageType

LEMMA LeafIsMsg == \A m : IsLeaf(m) <=> IsMsg(LeafType, m)
  <1> SUFFICES ASSUME NEW m PROVE IsLeaf(m) <=> IsMsg(LeafType, m) OBVIOUS
  <1>1. \A f \in DOMAIN LeafType : Values(LeafType, f) = Scalars
    BY LeafHasNoMessage DEF Values
  <1>2. IsLeaf(m) => IsMsg(LeafType, m) BY <1>1 DEF IsLeaf, IsMsg
  <1>3. ASSUME IsMsg(LeafType, m) PROVE IsLeaf(m)
    <2>1. m = [f \in DOMAIN LeafType |-> m[f]] BY <1>3 DEF IsMsg
    <2>2. \A f \in DOMAIN LeafType : Holds(LeafType, m, f, Scalars) BY <1>1, <1>3 DEF IsMsg
    <2>3. \A f \in DOMAIN LeafType : m[f] \in Seq(Scalars) BY <2>2 DEF Holds
    <2>4. m \in [DOMAIN LeafType -> Seq(Scalars)] BY <2>1, <2>3
    <2> QED BY <2>2, <2>4 DEF IsLeaf
  <1> QED BY <1>2, <1>3

LEMMA LeavesAreLeaves == \A m : m \in Leaves <=> IsLeaf(m)
  BY DEF Leaves, IsLeaf

LEMMA RootIsMsg == \A m : IsRoot(m) <=> IsMsg(RootType, m)
  <1> SUFFICES ASSUME NEW m PROVE IsRoot(m) <=> IsMsg(RootType, m) OBVIOUS
  <1>1. ASSUME IsRoot(m), NEW f \in DOMAIN RootType PROVE Holds(RootType, m, f, Values(RootType, f))
    <2>1. CASE IsMessageType(RootType[f])
      <3>1. Holds(RootType, m, f, {m[f][i] : i \in DOMAIN m[f]}) BY <1>1, <2>1 DEF IsRoot
      <3>2. \A i \in DOMAIN m[f] : m[f][i] \in Leaves
        BY <1>1, <2>1, LeavesAreLeaves DEF IsRoot
      <3>3. m[f] \in Seq({m[f][i] : i \in DOMAIN m[f]}) BY <3>1 DEF Holds
      <3>4. {m[f][i] : i \in DOMAIN m[f]} \subseteq Leaves BY <3>2
      <3>5. m[f] \in Seq(Leaves) BY <3>3, <3>4, SeqMonotonic
      <3> QED BY <2>1, <3>1, <3>5 DEF Holds, Values
    <2>2. CASE ~IsMessageType(RootType[f]) BY <1>1, <2>2 DEF IsRoot, Values
    <2> QED BY <2>1, <2>2
  <1>2. ASSUME IsMsg(RootType, m), NEW f \in DOMAIN RootType
        PROVE  IF IsMessageType(RootType[f])
               THEN /\ Holds(RootType, m, f, {m[f][i] : i \in DOMAIN m[f]})
                    /\ \A i \in DOMAIN m[f] : IsLeaf(m[f][i])
               ELSE Holds(RootType, m, f, Scalars)
    <2>1. CASE IsMessageType(RootType[f])
      <3>1. Holds(RootType, m, f, Leaves) BY <1>2, <2>1 DEF IsMsg, Values
      <3>2. m[f] \in Seq(Leaves) BY <3>1 DEF Holds
      <3>3. \A i \in DOMAIN m[f] : IsLeaf(m[f][i]) BY <3>2, LeavesAreLeaves
      <3>4. m[f] \in Seq({m[f][i] : i \in DOMAIN m[f]}) BY <3>2
      <3> QED BY <2>1, <3>1, <3>3, <3>4 DEF Holds
    <2>2. CASE ~IsMessageType(RootType[f]) BY <1>2, <2>2 DEF IsMsg, Values
    <2> QED BY <2>1, <2>2
  <1>3. IsRoot(m) => IsMsg(RootType, m) BY <1>1 DEF IsRoot, IsMsg
  <1>4. IsMsg(RootType, m) => IsRoot(m) BY <1>2 DEF IsRoot, IsMsg
  <1> QED BY <1>3, <1>4

LEMMA EmptyIsLeaf == IsLeaf(EmptyLeaf)
  BY DEF IsLeaf, EmptyLeaf, Holds, Group

-----------------------------------------------------------------------------
(* Groups.                                                                 *)

LEMMA GroupLaws ==
    ASSUME NEW T \in Types, NEW f \in DOMAIN T
    PROVE  /\ f \in Group(T, f) /\ Group(T, f) \subseteq DOMAIN T
           /\ \A g \in Group(T, f) : Group(T, g) = Group(T, f)
           /\ \A g \in DOMAIN T : f \in Group(T, g) => g \in Group(T, f)
           /\ T[f].oneof = 0 => Group(T, f) = {f}
           /\ IsRepeated(T[f]) => Group(T, f) = {f}
           /\ \A g \in Group(T, f) : IsRepeated(T[f]) <=> IsRepeated(T[g])
  <1>1. /\ f \in Group(T, f) /\ Group(T, f) \subseteq DOMAIN T
        /\ \A g \in Group(T, f) : Group(T, g) = Group(T, f)
        /\ \A g \in DOMAIN T : f \in Group(T, g) => g \in Group(T, f)
        /\ T[f].oneof = 0 => Group(T, f) = {f}
    BY DEF Group
  <1>2. IsRepeated(T[f]) => Group(T, f) = {f} BY <1>1, SchemaLaws
  <1>3. ASSUME NEW g \in Group(T, f) PROVE IsRepeated(T[f]) <=> IsRepeated(T[g])
    <2>1. CASE g = f BY <2>1
    <2>2. CASE g # f
      <3>1. T[f].oneof # 0 /\ T[g].oneof # 0 /\ g \in DOMAIN T BY <2>2 DEF Group
      <3> QED BY <3>1, SchemaLaws
    <2> QED BY <2>1, <2>2
  <1> QED BY <1>1, <1>2, <1>3

(* Setting one member of a group makes a message again.                    *)
LEMMA SetFieldMsg ==
    ASSUME NEW T \in Types, NEW m, IsMsg(T, m), NEW g \in DOMAIN T, ~IsRepeated(T[g]),
           NEW v \in Values(T, g), NEW x, x = SetField(T, m, g, v)
    PROVE  /\ IsMsg(T, x) /\ x[g] = Content(T, g, v)
           /\ \A h \in DOMAIN T : h # g => x[h] = IF h \in Group(T, g) THEN <<>> ELSE m[h]
  <1>1. DOMAIN m = DOMAIN T BY DEF IsMsg
  <1>2. /\ DOMAIN x = DOMAIN T /\ x[g] = Content(T, g, v)
        /\ \A h \in DOMAIN T : h # g => x[h] = IF h \in Group(T, g) THEN <<>> ELSE m[h]
        /\ x = [h \in DOMAIN T |-> x[h]]
    BY <1>1 DEF SetField
  <1>3. ASSUME NEW f \in DOMAIN T PROVE Holds(T, x, f, Values(T, f))
    <2>1. CASE f = g
      <3>1. x[g] \in Seq(Values(T, g)) /\ Len(x[g]) <= 1
            /\ ((T[g].kind = "scalar" /\ T[g].oneof = 0) => x[g] # <<Default>>)
        BY <1>2 DEF Content
      <3>2. \A h \in Group(T, g) \ {g} : x[h] = <<>> BY <1>2, GroupLaws
      <3> QED BY <2>1, <3>1, <3>2 DEF Holds
    <2>2. CASE f # g /\ f \in Group(T, g)
      <3>1. x[f] = <<>> BY <1>2, <2>2
      <3> QED BY <3>1 DEF Holds
    <2>3. CASE f \notin Group(T, g)
      <3>1. g \notin Group(T, f) BY <2>3, GroupLaws
      <3>2. Group(T, f) \cap Group(T, g) = {}
        <4>1. ASSUME NEW h \in Group(T, f), h \in Group(T, g) PROVE FALSE
          <5>1. Group(T, h) = Group(T, f) /\ Group(T, h) = Group(T, g) BY <4>1, GroupLaws
          <5> QED BY <2>3, <5>1, GroupLaws
        <4> QED BY <4>1
      <3>3. g \in Group(T, g) /\ Group(T, f) \subseteq DOMAIN T BY GroupLaws
      <3>4. \A h \in Group(T, f) : x[h] = m[h] BY <1>2, <3>2, <3>3
      <3>5. f \in Group(T, f) /\ Holds(T, m, f, Values(T, f)) BY GroupLaws DEF IsMsg
      <3> QED BY <3>4, <3>5 DEF Holds
    <2> QED BY <2>1, <2>2, <2>3
  <1> QED BY <1>2, <1>3 DEF IsMsg

(* Clearing a field, or giving a repeated one other elements, does too.    *)
Put(m, f, c) == [m EXCEPT ![f] = c]

LEMMA PutFieldMsg ==
    ASSUME NEW T \in Types, NEW m, IsMsg(T, m), NEW f \in DOMAIN T, NEW c,
           c = <<>> \/ (IsRepeated(T[f]) /\ c \in Seq(Values(T, f))),
           NEW x, x = Put(m, f, c)
    PROVE  IsMsg(T, x) /\ x[f] = c /\ \A h \in DOMAIN T : h # f => x[h] = m[h]
  <1>1. DOMAIN m = DOMAIN T BY DEF IsMsg
  <1>2. /\ DOMAIN x = DOMAIN T /\ x[f] = c /\ x = [h \in DOMAIN T |-> x[h]]
        /\ \A h \in DOMAIN T : h # f => x[h] = m[h]
    BY <1>1 DEF Put
  <1>3. ASSUME NEW h \in DOMAIN T PROVE Holds(T, x, h, Values(T, h))
    <2>1. Holds(T, m, h, Values(T, h)) /\ Group(T, h) \subseteq DOMAIN T BY GroupLaws DEF IsMsg
    <2>2. CASE c = <<>>
      <3>1. CASE h = f
        <4>1. x[h] = <<>> BY <1>2, <2>2, <3>1
        <4>2. x[h] \in Seq(Values(T, h)) /\ Len(x[h]) <= 1 /\ x[h] # <<Default>> BY <4>1
        <4> QED BY <4>1, <4>2 DEF Holds
      <3>2. CASE h # f
        <4>1. \A k \in DOMAIN T : x[k] = m[k] \/ x[k] = <<>> BY <1>2, <2>2
        <4> QED BY <1>2, <2>1, <3>2, <4>1 DEF Holds
      <3> QED BY <3>1, <3>2
    <2>3. CASE IsRepeated(T[f]) /\ c \in Seq(Values(T, f))
      <3>1. Group(T, f) = {f} BY <2>3, GroupLaws
      <3>2. CASE h = f BY <1>2, <2>3, <3>1, <3>2 DEF Holds, IsRepeated
      <3>3. CASE h # f
        <4>1. f \notin Group(T, h) BY <3>1, <3>3, GroupLaws
        <4> QED BY <1>2, <2>1, <3>3, <4>1 DEF Holds
      <3> QED BY <3>2, <3>3
    <2> QED BY <2>2, <2>3
  <1> QED BY <1>2, <1>3 DEF IsMsg


LEMMA TypesAreTypes == \A at : TypeAt(at) \in Types
  BY DEF TypeAt, Types

(* A field holds a sequence, at most one value unless it is repeated.      *)
LEMMA MsgFields ==
    ASSUME NEW T \in Types, NEW m, IsMsg(T, m), NEW f \in DOMAIN T
    PROVE  /\ m[f] \in Seq(Values(T, f)) /\ Len(m[f]) \in Nat /\ DOMAIN m[f] = 1 .. Len(m[f])
           /\ ~IsRepeated(T[f]) => Len(m[f]) <= 1
           /\ m[f] # <<>> => Len(m[f]) > 0
  <1>1. Holds(T, m, f, Values(T, f)) BY DEF IsMsg
  <1>2. m[f] \in Seq(Values(T, f)) /\ (~IsRepeated(T[f]) => Len(m[f]) <= 1) BY <1>1 DEF Holds
  <1> QED BY <1>2

(* Writing one embedded message changes nothing else.                      *)
LEMMA PutEmbedded ==
    ASSUME NEW old, IsRoot(old), NEW i \in DOMAIN RootType, IsMessageType(RootType[i]),
           NEW e \in DOMAIN old[i], NEW m, IsLeaf(m),
           NEW r, r = PutAt(old, <<i, e>>, m)
    PROVE  /\ IsRoot(r) /\ r[i][e] = m
           /\ DOMAIN r[i] = DOMAIN old[i] /\ Len(r[i]) = Len(old[i])
           /\ \A j \in DOMAIN old[i] : j # e => r[i][j] = old[i][j]
           /\ \A h \in DOMAIN RootType : h # i => r[h] = old[h]
           /\ \A h \in DOMAIN RootType : r[h] = <<>> <=> old[h] = <<>>
  <1>1. RootType \in Types /\ IsMsg(RootType, old) BY RootIsMsg DEF Types
  <1>2. old = [f \in DOMAIN RootType |-> old[f]] /\ DOMAIN old = DOMAIN RootType
    BY <1>1 DEF IsMsg
  <1>3. PICK c : c = [old[i] EXCEPT ![e] = m] OBVIOUS
  <1>4. r = [old EXCEPT ![i] = c] BY <1>3 DEF PutAt
  <1>5. old[i] \in Seq(Leaves) /\ m \in Leaves BY <1>1, MsgFields, LeavesAreLeaves DEF Values
  <1>6. /\ c \in Seq(Leaves) /\ Len(c) = Len(old[i]) /\ DOMAIN c = DOMAIN old[i] /\ c[e] = m
        /\ \A j \in DOMAIN old[i] : j # e => c[j] = old[i][j]
    BY <1>3, <1>5
  <1>7. /\ r = [f \in DOMAIN RootType |-> r[f]] /\ r[i] = c
        /\ \A h \in DOMAIN RootType : h # i => r[h] = old[h]
    BY <1>2, <1>4
  <1>8. c # <<>> /\ old[i] # <<>> BY <1>5, <1>6
  <1>9. \A h \in DOMAIN RootType : r[h] = <<>> <=> old[h] = <<>> BY <1>7, <1>8
  <1>10. ASSUME NEW f \in DOMAIN RootType PROVE Holds(RootType, r, f, Values(RootType, f))
    <2>1. Holds(RootType, old, f, Values(RootType, f)) BY <1>1 DEF IsMsg
    <2>2. \A h \in Group(RootType, f) \ {f} : r[f] = <<>> \/ r[h] = <<>>
      BY <1>1, <1>9, <2>1, GroupLaws DEF Holds
    <2>3. CASE f = i
      <3>1. c \in Seq(Values(RootType, i)) BY <1>6 DEF Values
      <3>2. ~IsRepeated(RootType[i]) => Len(c) <= 1 BY <1>6, <2>1, <2>3 DEF Holds
      <3>3. RootType[i].kind # "scalar" BY DEF IsMessageType
      <3> QED BY <1>7, <2>2, <2>3, <3>1, <3>2, <3>3 DEF Holds
    <2>4. CASE f # i BY <1>7, <2>1, <2>2, <2>4 DEF Holds
    <2> QED BY <2>3, <2>4
  <1>11. IsRoot(r) BY <1>7, <1>10, RootIsMsg DEF IsMsg
  <1> QED BY <1>6, <1>7, <1>9, <1>11

-----------------------------------------------------------------------------
(* A stack of at most two activations.                                     *)

LEMMA Pushed ==
    ASSUME NEW a, NEW b
    PROVE  Append(<<a>>, b) = <<a, b>>
  <1>1. <<a>> \in Seq({a, b}) /\ <<a, b>> \in Seq({a, b}) OBVIOUS
  <1>2. PICK s : s = Append(<<a>>, b) OBVIOUS
  <1>3. s \in Seq({a, b}) /\ Len(s) = 2 BY <1>1, <1>2
  <1>4. s[1] = a /\ s[2] = b BY <1>1, <1>2, AppendProperties
  <1>5. s = <<a, b>> BY <1>1, <1>3, <1>4, SeqEqual
  <1> QED BY <1>2, <1>5

LEMMA Popped ==
    ASSUME NEW a, NEW b
    PROVE  SubSeq(<<a, b>>, 1, 1) = <<a>>
  <1>1. <<a>> \in Seq({a, b}) /\ <<a, b>> \in Seq({a, b}) OBVIOUS
  <1>2. PICK s : s = SubSeq(<<a, b>>, 1, 1) OBVIOUS
  <1>3. s \in Seq({a, b}) /\ Len(s) = 1 BY <1>1, <1>2
  <1>4. s[1] = a BY <1>1, <1>2
  <1>5. s = <<a>> BY <1>1, <1>3, <1>4, SeqEqual
  <1> QED BY <1>2, <1>5
=============================================================================
