---------------------------- MODULE CustomMutator ----------------------------
(***************************************************************************)
(* What the AFL++ hooks of this repository promise, without any cache.     *)
(*                                                                         *)
(* AFL++ calls afl_custom_fuzz with a queue entry and a second entry and   *)
(* gets bytes (or nothing); it calls afl_custom_post_process with bytes    *)
(* and the hook works on the message those bytes encode (or on nothing).   *)
(* LoadProtoInput is a pure function of the bytes: this module is the      *)
(* promise, MutationCache is the implementation that keeps a cache of the  *)
(* last mutation in front of the parser.                                   *)
(***************************************************************************)
EXTENDS Integers

CONSTANTS
    Messages,      \* protobuf messages of the root type
    Buffers,       \* byte strings AFL++ can hand to a hook
    EmptyMessage,  \* the message Clear() leaves
    NoMessage,     \* the outcome of a failed parse, and the null pointer
    Encoding,      \* Messages -> Buffers: SerializeToString / PrintToString
    Decoding,      \* Buffers -> Messages or NoMessage: ParseFromString
    ByteLen,       \* Buffers -> Nat: the length of a byte string
    MaxSize,       \* MAX_BINARY_INPUT_SIZE
    Mutants,       \* Messages -> messages Mutator::Mutate can turn one into
    Offspring      \* Messages x Messages -> results of Mutator::Crossover

(* The codec of the protobuf library: what is serialised parses back to    *)
(* the same message, and a message has one encoding.                       *)
ASSUME CodecAssumption ==
    /\ NoMessage \notin Messages
    /\ EmptyMessage \in Messages
    /\ Encoding \in [Messages -> Buffers]
    /\ Decoding \in [Buffers -> Messages \cup {NoMessage}]
    /\ \A m \in Messages : Decoding[Encoding[m]] = m
    /\ ByteLen \in [Buffers -> Nat]

ASSUME MutatorAssumption ==
    /\ MaxSize \in Nat
    /\ Mutants \in [Messages -> SUBSET Messages]
    /\ Offspring \in [Messages \X Messages -> SUBSET Messages]

(* What the last hook call gave its caller.                                *)
VARIABLE answer

NoAnswer == [hook |-> "none"]

(* InputReader::Read: a failed parse leaves the cleared message behind,    *)
(* and the callers of Read ignore the failure.                             *)
Read(b) == IF Decoding[b] = NoMessage THEN EmptyMessage ELSE Decoding[b]

(* OutputWriter::Write: 0 when the encoding does not fit.  (An encoding of *)
(* length 0 is also answered by 0.)                                        *)
Written(m) == IF ByteLen[Encoding[m]] <= MaxSize THEN ByteLen[Encoding[m]] ELSE 0

FuzzAnswer(m) ==
    IF Written(m) > 0
    THEN [hook |-> "fuzz", size |-> Written(m), bytes |-> Encoding[m]]
    ELSE [hook |-> "fuzz", size |-> 0]

PostAnswer(b, m) == [hook |-> "post", input |-> b, message |-> m]

Init == answer = NoAnswer

Fuzz(b, add) ==
    \/ \E m \in Mutants[Read(b)] : answer' = FuzzAnswer(m)
    \/ \E m \in Offspring[<<Read(b), Read(add)>>] : answer' = FuzzAnswer(m)

PostProcess(b) == answer' = PostAnswer(b, Decoding[b])

Next == \E b \in Buffers : PostProcess(b) \/ \E add \in Buffers : Fuzz(b, add)

Spec == Init /\ [][Next]_answer
=============================================================================
