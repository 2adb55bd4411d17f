---------------------------- MODULE ProtoMessage -----------------------------
(***************************************************************************)
(* Protobuf messages as the mutator sees them through Reflection: an outer *)
(* message (Root) with embedded messages of one type (Leaf).               *)
(*                                                                         *)
(* A message maps each field of its type, numbered in descriptor order, to *)
(* a sequence: <<>> is unset or empty, <<v>> a set singular field.         *)
(*                                                                         *)
(* A field is a record [kind, oneof].  kind is "scalar", "repeated" (of    *)
(* scalars), "message" or "messages" (repeated).  oneof is 0, or the       *)
(* number of the group the field belongs to; a proto3 `optional` field is  *)
(* the only member of a group of its own, as protobuf's descriptors say.   *)
(* Names, tags and value encodings are abstracted: what a message weighs   *)
(* is given by RootSize and LeafSize (ByteSizeLong).                       *)
(***************************************************************************)
EXTENDS Integers, Sequences, SequencesExt

CONSTANTS
    Scalars,      \* values of a scalar, bool or enum field
    Default,      \* the value an unset field reads as
    RootType,     \* the fields of the outer message
    LeafType,     \* the fields of an embedded message: scalars only
    RootSize(_),  \* ByteSizeLong of an outer message
    LeafSize(_)   \* ByteSizeLong of an embedded message

Fields(kinds) == [kind : kinds, oneof : Nat]

ASSUME TypesAssumption ==
    /\ Default \in Scalars
    /\ RootType \in Seq(Fields({"scalar", "repeated", "message", "messages"}))
    /\ LeafType \in Seq(Fields({"scalar", "repeated"}))
    /\ \A T \in {RootType, LeafType} : \A f \in DOMAIN T :
          T[f].oneof # 0 => T[f].kind \in {"scalar", "message"}

IsRepeated(field) == field.kind \in {"repeated", "messages"}
IsMessageType(field) == field.kind \in {"message", "messages"}

(* Reflection clears the other members when one member of a group is set.  *)
Group(T, f) == {h \in DOMAIN T : h = f \/ (T[f].oneof # 0 /\ T[h].oneof = T[f].oneof)}

(* index_in_oneof() == 0.                                                  *)
FirstOfGroup(T, f) == \A h \in Group(T, f) : f <= h

(* GetOneofFieldDescriptor: the set member, at most one.                   *)
SetMembers(T, m, f) == {h \in Group(T, f) : m[h] # <<>>}

(* A plain singular scalar has no presence: holding the default value is   *)
(* being unset.                                                            *)
Content(T, f, v) ==
    IF T[f].kind = "scalar" /\ T[f].oneof = 0 /\ v = Default THEN <<>> ELSE <<v>>

SetField(T, m, f, v) ==
    [h \in DOMAIN m |-> IF h = f THEN Content(T, f, v)
                        ELSE IF h \in Group(T, f) THEN <<>> ELSE m[h]]

EmptyLeaf == [f \in DOMAIN LeafType |-> <<>>]

(* What a field may hold.                                                  *)
Holds(T, m, f, values) ==
    /\ m[f] \in Seq(values)
    /\ ~IsRepeated(T[f]) => Len(m[f]) <= 1
    /\ (T[f].kind = "scalar" /\ T[f].oneof = 0) => m[f] # <<Default>>
    /\ \A h \in Group(T, f) \ {f} : m[f] = <<>> \/ m[h] = <<>>

IsLeaf(m) ==
    /\ m \in [DOMAIN LeafType -> Seq(Scalars)]
    /\ \A f \in DOMAIN LeafType : Holds(LeafType, m, f, Scalars)

IsRoot(m) ==
    /\ DOMAIN m = DOMAIN RootType
    /\ m = [f \in DOMAIN RootType |-> m[f]]
    /\ \A f \in DOMAIN RootType :
          IF IsMessageType(RootType[f])
          THEN /\ Holds(RootType, m, f, {m[f][i] : i \in DOMAIN m[f]})
               /\ \A i \in DOMAIN m[f] : IsLeaf(m[f][i])
          ELSE Holds(RootType, m, f, Scalars)

(* Positions: <<>> is the outer message, <<f, i>> the i-th message in its  *)
(* field f.                                                                *)
TypeAt(at) == IF at = <<>> THEN RootType ELSE LeafType
MessageAt(root, at) == IF at = <<>> THEN root ELSE root[at[1]][at[2]]
PutAt(root, at, m) == IF at = <<>> THEN m ELSE [root EXCEPT ![at[1]][at[2]] = m]
SizeAt(at, m) == IF at = <<>> THEN RootSize(m) ELSE LeafSize(m)
=============================================================================
