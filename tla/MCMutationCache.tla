-------------------------- MODULE MCMutationCache ---------------------------
(* A small codec: seven messages whose encodings are 0 to 3 bytes long      *)
(* under a limit of 2 bytes, and two byte strings that are no encoding:    *)
(* "junk" does not parse and "alias" parses to a message that encodes      *)
(* differently (protobuf accepts fields out of order).                     *)
EXTENDS MutationCache, TLC

MCMessages == {"empty", "a", "b", "c", "d", "e", "large"}
MCBuffers == {"", "A", "BB", "CC", "D", "EE", "LLL", "junk", "alias"}
MCEncoding == "empty" :> "" @@ "a" :> "A" @@ "b" :> "BB" @@ "c" :> "CC" @@ "d" :> "D" @@ "e" :> "EE"
              @@ "large" :> "LLL"
MCDecoding == "" :> "empty" @@ "A" :> "a" @@ "BB" :> "b" @@ "CC" :> "c" @@ "D" :> "d" @@ "EE" :> "e"
              @@ "LLL" :> "large" @@ "junk" :> "null" @@ "alias" :> "b"
MCByteLen == "" :> 0 @@ "A" :> 1 @@ "BB" :> 2 @@ "CC" :> 2 @@ "D" :> 1 @@ "EE" :> 2 @@ "LLL" :> 3
             @@ "junk" :> 1 @@ "alias" :> 2

(* Mutation may reach every message from every other one.                  *)
MCMutants == [m \in MCMessages |-> MCMessages]
MCOffspring == [p \in MCMessages \X MCMessages |-> MCMessages]
=============================================================================
