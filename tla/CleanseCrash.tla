---------------------------- MODULE CleanseCrash ----------------------------
(***************************************************************************)
(* libFuzzer's -cleanse_crash (CleanseCrashInput in FuzzerDriver.cpp):     *)
(* byte by byte the input is overwritten with a replacement byte, run in a *)
(* child process, and kept when the child fails; five passes at most.      *)
(***************************************************************************)
EXTENDS Naturals, Sequences

CONSTANTS
    ReplacementBytes,  \* sequence of bytes to replace by, in the order tried
    Failing,           \* the contents on which the child exits with an error
    CrashInputs,       \* the inputs to cleanse
    MaxAttempts        \* passes over the input: 5

ASSUME CleanseAssumption ==
    /\ MaxAttempts \in Nat \ {0}
    /\ ReplacementBytes \in Seq(0 .. 255) \ {<<>>}
    /\ Failing \subseteq Seq(0 .. 255) /\ CrashInputs \subseteq Failing

VARIABLES
    bytes,         \* U
    numAttempts,  \* NumAttempts
    idx,          \* Idx, from 1
    byte,         \* index of NewByte
    changed,      \* Changed
    output        \* contents of OutputFilePath, <<>> before it is written

cleanseVars == <<bytes, numAttempts, idx, byte, changed, output>>

CleanseDone == numAttempts = MaxAttempts

CleanseInit ==
    /\ bytes \in CrashInputs
    /\ numAttempts = 0
    /\ idx = 1 /\ byte = 1
    /\ changed = FALSE
    /\ output = <<>>

IsReplacement(b) == \E r \in DOMAIN ReplacementBytes : ReplacementBytes[r] = b

NextByte == idx' = idx + 1 /\ byte' = 1

(* After the last replacement byte was tried in vain, or for a byte that   *)
(* is a replacement already, the next byte is looked at.                   *)
SkipByte ==
    /\ ~CleanseDone /\ idx <= Len(bytes)
    /\ byte > Len(ReplacementBytes) \/ IsReplacement(bytes[idx])
    /\ NextByte
    /\ UNCHANGED <<bytes, numAttempts, changed, output>>

(* Mutated form: a change is not noted.                                    *)
TryByteUnnoted ==
    /\ ~CleanseDone /\ idx <= Len(bytes)
    /\ byte <= Len(ReplacementBytes) /\ ~IsReplacement(bytes[idx])
    /\ LET tried == [bytes EXCEPT ![idx] = ReplacementBytes[byte]]
       IN  IF tried \in Failing
           THEN bytes' = tried /\ output' = tried /\ NextByte
           ELSE byte' = byte + 1 /\ UNCHANGED <<bytes, output, idx>>
    /\ UNCHANGED <<changed, numAttempts>>

TryByte ==
    /\ ~CleanseDone /\ idx <= Len(bytes)
    /\ byte <= Len(ReplacementBytes) /\ ~IsReplacement(bytes[idx])
    /\ LET tried == [bytes EXCEPT ![idx] = ReplacementBytes[byte]]
       IN  IF tried \in Failing
           THEN bytes' = tried /\ output' = tried /\ changed' = TRUE /\ NextByte
           ELSE byte' = byte + 1 /\ UNCHANGED <<bytes, output, changed, idx>>
    /\ UNCHANGED numAttempts

NextAttempt ==
    /\ ~CleanseDone /\ idx > Len(bytes)
    /\ numAttempts' = IF changed THEN numAttempts + 1 ELSE MaxAttempts
    /\ idx' = 1 /\ byte' = 1
    /\ changed' = (changed /\ numAttempts' = MaxAttempts)
    /\ UNCHANGED <<bytes, output>>

CleanseNext == SkipByte \/ TryByte \/ NextAttempt

CleanseSpec == CleanseInit /\ [][CleanseNext]_cleanseVars

-----------------------------------------------------------------------------
(* What is written still fails, and when a pass came to its end without a  *)
(* change no single byte of it can be cleansed any more: an early          *)
(* replacement that became possible through a later one is not forgotten.  *)
CleansedAndLocallyMinimal ==
    /\ output # <<>> => output = bytes /\ output \in Failing
    /\ CleanseDone /\ ~changed =>
          \A i \in DOMAIN bytes, r \in DOMAIN ReplacementBytes :
              ~IsReplacement(bytes[i]) => [bytes EXCEPT ![i] = ReplacementBytes[r]] \notin Failing
=============================================================================
