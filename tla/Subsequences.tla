---------------------------- MODULE Subsequences ----------------------------
(***************************************************************************)
(* What is left of a sequence when only some of its places are kept, in    *)
(* their order: the arguments that std::remove_if leaves of a command      *)
(* line, the bytes that MutateWithMask copies.  Like SelectSeq, but by     *)
(* place, and without recursion.                                           *)
(***************************************************************************)
EXTENDS Naturals, Sequences, FiniteSets

(* The i-th of some places.                                                *)
InOrder(places, i) == CHOOSE k \in places : Cardinality(places \cap 1 .. k) = i

Kept(s, places) == [i \in 1 .. Cardinality(places) |-> s[InOrder(places, i)]]
=============================================================================
