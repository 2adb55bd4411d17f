------------------------------ MODULE MCCrossover ------------------------------
(* A schema for Mutator::Crossover, on scalars of zero, one and two bytes  *)
(* (0 is the default).                                                     *)
EXTENDS MessageCrossover, TLC

CONSTANT LongLength

Widths == 0 :> 1 @@ 1 :> 1 @@ 2 :> 2 @@ 3 :> 1

W == INSTANCE MCWire WITH Width <- Widths

MCRootSize(m) == W!WireRootSize(RootType, LeafType, m)
MCLeafSize(m) == W!WireLeafSize(LeafType, m)

Plain == [kind |-> "scalar", oneof |-> 0]
Member(g) == [kind |-> "scalar", oneof |-> g]
List == [kind |-> "repeated", oneof |-> 0]

(* A plain scalar, a oneof of two scalars and a message, a repeated field, *)
(* an embedded and a repeated message.                                     *)
MixedType == <<Plain, Member(1), Member(1), [kind |-> "message", oneof |-> 1], List,
               [kind |-> "message", oneof |-> 0], [kind |-> "messages", oneof |-> 0]>>
PlainLeaf == <<Plain, List>>

(* Messages without embedded ones, ...                                     *)
FlatMessages(lists) ==
    {<<p, o[1], o[2], <<>>, l, <<>>, <<>>>> :
        p \in {<<>>, <<2>>}, o \in {<<<<>>, <<>>>>, <<<<1>>, <<>>>>, <<<<>>, <<2>>>>}, l \in lists}
FlatPairs == FlatMessages({<<>>, <<1, 1, 1>>, <<3, 1>>})
             \X FlatMessages({<<>>, <<2>>, <<2, 1, 2>>})

(* ... and messages of little else.                                        *)
Leaf(p, l) == <<p, l>>
Leaf1 == Leaf(<<1>>, <<>>)
Leaf2 == Leaf(<<2>>, <<2, 1>>)
Leaf3 == Leaf(<<>>, <<3, 3>>)
Nested(member, inGroup, one, many) == <<<<>>, <<>>, member, inGroup, <<>>, one, many>>
NestedPairs ==
    {Nested(<<1>>, <<>>, <<>>, <<Leaf1, Leaf3>>), Nested(<<>>, <<Leaf1>>, <<Leaf3>>, <<>>),
     Nested(<<>>, <<Leaf3>>, <<>>, <<Leaf2, Leaf1, Leaf3>>)}
    \X {Nested(<<>>, <<Leaf2>>, <<Leaf1>>, <<Leaf2>>), Nested(<<2>>, <<>>, <<>>, <<Leaf3, Leaf2>>),
        Nested(<<>>, <<>>, <<>>, <<>>)}

MCPairs == FlatPairs \cup NestedPairs
=============================================================================
