----------------------------- MODULE MCPostprocess -----------------------------
(* Messages for the post-processor: parameters at and beyond the borders of*)
(* their ranges, and calls on data that is or is not there.                *)
EXTENDS Postprocess, TLC

(* The doubling of reduceToPowerOfTwo wraps for the upper half of the type.*)
ASSUME ReducesEveryValue == \A v \in 0 .. 2 ^ Bits - 1 : IsReduced(v, reduceToPowerOfTwo(v))

Unset(values) == {<<>>} \cup {<<v>> : v \in values}

Base ==
    [multiplicativeDepth |-> <<>>, batchSize |-> <<>>, ksTech |-> <<>>, PREMode |-> <<>>,
     digitSize |-> 0, standardDeviation |-> <<>>, scalTech |-> <<5>>, firstModSize |-> <<>>,
     scalingModSize |-> <<>>, numLargeDigits |-> 3, securityLevel |-> 3, ringDim |-> 8,
     encryptionTechnique |-> 1, rotateIndexes |-> <<>>]

Params ==
    {[Base EXCEPT !.multiplicativeDepth = d, !.digitSize = s, !.PREMode = m, !.ksTech = <<2>>] :
        d \in Unset({0, 4, 5, 9}), s \in {0, 12, 31, 2147483647}, m \in Unset({0, 3})}
    \cup {[Base EXCEPT !.firstModSize = f, !.scalingModSize = s, !.securityLevel = 1] :
        f \in Unset({0, 19, 40, 59, 60, 61}), s \in Unset({0, 19, 40, 59, 60})}
    \cup {[Base EXCEPT !.batchSize = b, !.ksTech = k, !.standardDeviation = <<200000001>>] :
        b \in Unset({7, 9, 2048, 4000}), k \in Unset({0, 1})}

Data == {<<>>, <<<<1, -5>>>>, <<<<7>>, <<>>, <<0>>>>}

Call(kind, dst, srcs, nums, index) ==
    [kind |-> kind, dst |-> dst, srcs |-> srcs, nums |-> nums, index |-> index]
Calls ==
    {Call("two", 2, <<0, 7>>, <<>>, <<>>), Call("constant", 0, <<3>>, <<9>>, <<>>),
     Call("many", 4, <<1, 2, 3>>, <<>>, <<>>), Call("weighted", 1, <<5>>, <<1, -3, 2>>, <<>>),
     Call("weighted", 1, <<5, 2>>, <<>>, <<>>), Call("rotate", 0, <<2>>, <<>>, <<20001>>),
     Call("rotate", 9, <<1>>, <<>>, <<-20000>>), Call("rotate", 3, <<0>>, <<>>, <<4>>),
     Call("none", 8, <<>>, <<>>, <<>>)}
ApiLists == {<<>>} \cup {<<c>> : c \in Calls} \cup {<<c, d>> : c, d \in Calls}
Rotations == {<<>>, <<4>>, <<20001, 4>>, <<-20000, -20000, 7>>}

MCInputs ==
    {[param |-> p, apis |-> <<>>, lists |-> <<<<0>>, <<1>>>>] : p \in Params}
    \cup {[param |-> [Base EXCEPT !.rotateIndexes = r, !.securityLevel = 0], apis |-> a, lists |-> d] :
             r \in Rotations, a \in ApiLists, d \in Data}

(* Numbers a flipped bit can produce.                                      *)
OddInputs ==
    {[param |-> Base, apis |-> <<>>, lists |-> <<<<x, y>>>>] :
        x, y \in {0, 3, -5, NaN, Infinity}}

MCRandomReals == {-2, 1}
=============================================================================
