---------------------------- MODULE MutationCache ----------------------------
(***************************************************************************)
(* The AFL++ hooks with the LastMutationCache of proto_util.h.             *)
(*                                                                         *)
(* afl_custom_fuzz reads one or two inputs, mutates or crosses them, and   *)
(* on a successful write stores the resulting message beside its bytes.    *)
(* afl_custom_post_process asks the cache before it parses: a hit swaps    *)
(* the message out and empties the cache, so an entry is used once.        *)
(* AFL++ is the environment: it may post-process the bytes just produced,  *)
(* or any other bytes (a queue entry, a trimmed or havoc'ed buffer), and   *)
(* may call the fuzz hook again before it post-processes.                  *)
(*                                                                         *)
(* Messages move by Reflection::Swap, so what the caller's object and the  *)
(* cache hold after a call depends on what both held before it.            *)
(***************************************************************************)
EXTENDS CustomMutator

CONSTANT NoBytes    \* "no byte string": data_ before the first Store

ASSUME NoBytesAssumption == NoBytes \notin Buffers

VARIABLES
    cachedData,     \* LastMutationCache::data_
    cachedMessage,  \* LastMutationCache::message_, NoMessage when null
    argument,       \* content of the caller's Message object
    unread          \* history: bytes handed out and not yet post-processed

vars == <<answer, cachedData, cachedMessage, argument, unread>>

TypeOK ==
    /\ answer = NoAnswer
        \/ answer \in [hook : {"fuzz"}, size : {0}]
        \/ answer \in [hook : {"fuzz"}, size : 1 .. MaxSize, bytes : Buffers]
        \/ answer \in [hook : {"post"}, input : Buffers, message : Messages \cup {NoMessage}]
    /\ cachedData \in Buffers \cup {NoBytes}
    /\ cachedMessage \in Messages \cup {NoMessage}
    /\ argument \in Messages
    /\ unread \in Buffers \cup {NoBytes}

(* A fresh process: data_ was never assigned, message_ is null.            *)
CacheInit ==
    /\ Init
    /\ cachedData = NoBytes
    /\ cachedMessage = NoMessage
    /\ argument = EmptyMessage
    /\ unread = NoBytes

(* Store(data, message): a null message_ first becomes a new, empty one,   *)
(* then message_ and the caller's message are swapped.                     *)
Store(b, m) ==
    /\ cachedData' = b
    /\ cachedMessage' = m
    /\ argument' = IF cachedMessage = NoMessage THEN EmptyMessage ELSE cachedMessage

(* Slip: a refused write drops the entry.                                  *)
WriteAndStoreDropping(m) ==
    /\ answer' = FuzzAnswer(m)
    /\ IF Written(m) > 0
       THEN Store(Encoding[m], m) /\ unread' = Encoding[m]
       ELSE /\ argument' = m
            /\ cachedMessage' = NoMessage
            /\ UNCHANGED <<cachedData, unread>>

(* The tail of MutateMessage and CrossOverMessages: write, and store what  *)
(* was written.  A refused or empty write leaves the old entry in place.   *)
WriteAndStore(m) ==
    /\ answer' = FuzzAnswer(m)
    /\ IF Written(m) > 0
       THEN Store(Encoding[m], m) /\ unread' = Encoding[m]
       ELSE argument' = m /\ UNCHANGED <<cachedData, cachedMessage, unread>>

MutateMessage(b) == \E m \in Mutants[Read(b)] : WriteAndStore(m)

CrossOverMessages(b, add) ==
    \E m \in Offspring[<<Read(b), Read(add)>>] : WriteAndStore(m)

(* Slip: the byte comparison forgotten, only the sizes compared.           *)
SameSize(b) == cachedMessage # NoMessage /\ ByteLen[cachedData] = ByteLen[b]

(* The test LoadIfSame starts with.                                        *)
Same(b) == cachedMessage # NoMessage /\ cachedData = b

(* Slip: no reset, so the fresh object of the caller stays as the entry.   *)
LoadCachedWithoutReset(b) ==
    /\ Same(b)
    /\ answer' = PostAnswer(b, cachedMessage)
    /\ argument' = cachedMessage
    /\ cachedMessage' = EmptyMessage
    /\ UNCHANGED cachedData

(* LoadIfSame, hit: the caller's object and message_ are swapped, then     *)
(* message_, which now holds the caller's former content, is reset.        *)
(* data_ keeps its bytes.                                                  *)
LoadCached(b) ==
    /\ Same(b)
    /\ answer' = PostAnswer(b, cachedMessage)
    /\ argument' = cachedMessage
    /\ cachedMessage' = NoMessage
    /\ UNCHANGED cachedData

(* Slip: a failed parse leaves no message at all.                          *)
LoadParsedUncleared(b) ==
    /\ ~Same(b)
    /\ answer' = PostAnswer(b, Decoding[b])
    /\ argument' = Decoding[b]
    /\ UNCHANGED <<cachedData, cachedMessage>>

(* A miss parses; a parse that fails clears the message.                   *)
LoadParsed(b) ==
    /\ ~Same(b)
    /\ answer' = PostAnswer(b, Decoding[b])
    /\ argument' = Read(b)
    /\ UNCHANGED <<cachedData, cachedMessage>>

LoadProtoInput(b) ==
    /\ LoadCached(b) \/ LoadParsed(b)
    /\ unread' = IF b = unread THEN NoBytes ELSE unread

CacheNext ==
    \E b \in Buffers :
        \/ MutateMessage(b)
        \/ \E add \in Buffers : CrossOverMessages(b, add)
        \/ LoadProtoInput(b)

CacheSpec == CacheInit /\ [][CacheNext]_vars

-----------------------------------------------------------------------------
(* An entry that can still be loaded is the message its bytes encode, and  *)
(* those bytes were really handed out: not empty and within the limit.     *)
CacheCoherent ==
    cachedMessage # NoMessage =>
        /\ cachedData \in Buffers
        /\ cachedData = Encoding[cachedMessage]
        /\ ByteLen[cachedData] \in 1 .. MaxSize

(* The purpose of the cache: the first post-processing of the bytes the    *)
(* last successful fuzz call produced never parses, whatever AFL++ did     *)
(* between the two calls (refused mutations, other buffers).               *)
FirstLoadHits == unread # NoBytes => Same(unread)

(* The cache is invisible: every behaviour of the hooks is a behaviour of  *)
(* the cacheless CustomMutator, so what post-processing works on is always *)
(* the message its bytes encode, hit or miss.                              *)
Uncached == Spec
=============================================================================
