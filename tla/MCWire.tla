-------------------------------- MODULE MCWire --------------------------------
(* Sizes of small messages, the way protobuf encodes them: a tag and the   *)
(* value for a singular field, tag, length and values for a packed         *)
(* repeated one, tag, length and body for an embedded message.  A length   *)
(* takes a second byte from LongLength on (128 in protobuf).               *)
EXTENDS Integers, Sequences, Functions

CONSTANTS Width,       \* bytes of each scalar value
          LongLength

Prefixed(n) == 1 + (IF n < LongLength THEN 1 ELSE 2) + n

ScalarBytes(s) == SumFunction([i \in DOMAIN s |-> Width[s[i]]])

ScalarFieldBytes(field, s) ==
    IF s = <<>> THEN 0
    ELSE IF field.kind = "repeated" THEN Prefixed(ScalarBytes(s))
    ELSE 1 + ScalarBytes(s)

WireLeafSize(T, m) == SumFunction([f \in DOMAIN T |-> ScalarFieldBytes(T[f], m[f])])

WireRootSize(T, L, m) ==
    SumFunction([f \in DOMAIN T |->
        IF T[f].kind \in {"message", "messages"}
        THEN SumFunction([i \in DOMAIN m[f] |-> Prefixed(WireLeafSize(L, m[f][i]))])
        ELSE ScalarFieldBytes(T[f], m[f])])
=============================================================================
