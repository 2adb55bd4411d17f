------------------------------ MODULE MCMutation ------------------------------
(* Three schemas for Mutator::Mutate.  Scalars are 0 (the default), a      *)
(* one-byte and a two-byte value.                                          *)
EXTENDS MessageMutation, TLC

CONSTANT LongLength

Widths == 0 :> 1 @@ 1 :> 1 @@ 2 :> 2

W == INSTANCE MCWire WITH Width <- Widths

MCRootSize(m) == W!WireRootSize(RootType, LeafType, m)
MCLeafSize(m) == W!WireLeafSize(LeafType, m)

Plain == [kind |-> "scalar", oneof |-> 0]
Optional(g) == [kind |-> "scalar", oneof |-> g]
List == [kind |-> "repeated", oneof |-> 0]

(* Flat: no embedded message, no group of several members.                 *)
FlatType == <<Plain, Optional(1), List>>
NoLeaf == <<>>
FlatSeeds ==
    {<<p, o, l>> : p \in {<<>>, <<1>>}, o \in {<<>>, <<0>>, <<2>>},
                   l \in {<<>>, <<1>>, <<1, 2>>, <<2, 1, 0>>, <<1, 2, 0, 1>>}}

(* Nested: a oneof of a scalar and a message, an embedded message and a    *)
(* repeated one.                                                           *)
NestedType == <<[kind |-> "scalar", oneof |-> 1], [kind |-> "message", oneof |-> 1],
                [kind |-> "message", oneof |-> 0], [kind |-> "messages", oneof |-> 0]>>
PlainLeaf == <<Optional(1), List>>
Leaf(p, o) == <<p, o>>
NestedSeeds ==
    {<<s, <<>>, e, l>> : s \in {<<>>, <<2>>}, e \in {<<>>, <<Leaf(<<2>>, <<>>)>>},
                         l \in {<<>>, <<Leaf(<<>>, <<2>>)>>,
                                <<Leaf(<<2>>, <<>>), Leaf(<<>>, <<>>), Leaf(<<2>>, <<0>>)>>}}
    \cup {<<<<>>, <<Leaf(<<2>>, <<>>)>>, <<>>, <<>>>>}

(* The sizes above satisfy what the theorems assume of them.               *)
ASSUME SizesAssumption == \A m \in Seeds : SizeLawsAt(m)
=============================================================================
