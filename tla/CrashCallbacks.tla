--------------------------- MODULE CrashCallbacks ---------------------------
(***************************************************************************)
(* The callbacks of FuzzerLoop.cpp that end a fuzzing process, and the     *)
(* unit they write as an artifact.  ExecuteCallback runs a unit on the     *)
(* fuzzing thread; signals, the sanitizers, the memory limit thread and    *)
(* threads of the target may call a callback at any time.  Those that take *)
(* the crash state first report at most once between them; the others do   *)
(* not ask.                                                                *)
(*                                                                         *)
(* A callback reads CurrentUnitSize, then copies CurrentUnitData, then     *)
(* exits; the other threads go on meanwhile.  When a signal interrupts a   *)
(* callback of the fuzzing thread, that callback is not gone back to.  What*)
(* another thread reads of the unit races with the fuzzing thread and is   *)
(* left out: its artifact has no unit here.                                *)
(***************************************************************************)
EXTENDS FuzzTarget

CONSTANTS
    UnitsRun,             \* the units it is given
    NoUnit,
    SanitizerCrashState   \* __sanitizer_acquire_crash_state is there

ASSUME CallbackAssumption == UnitsRun \subseteq Inputs /\ NoUnit \notin Inputs

VARIABLES
    epc,       \* where ExecuteCallback is
    current,   \* the unit it is given
    unitData,  \* whose contents CurrentUnitData has
    unitSize,  \* CurrentUnitSize
    running,   \* RunningUserCallback
    tampered,  \* the target wrote to its input
    taken,     \* the crash state is taken
    handler,   \* per thread: the callback it is in, its stage, the size it read
    reports,   \* the artifacts written
    graceful,  \* GracefulExitRequested
    ended      \* the process has exited

callbackVars == <<epc, current, unitData, unitSize, running, tampered, taken, handler, reports, graceful, ended>>

Threads == {"fuzzing", "memory", "target"}
NoHandler == [name |-> "none", stage |-> "none", size |-> 0]
Guarded == {"crash", "exit", "alarm", "rss"}

CallbackInit ==
    /\ epc = "between"
    /\ current = NoUnit /\ unitData = NoUnit /\ unitSize = 0
    /\ running = FALSE /\ tampered = FALSE
    /\ taken = FALSE
    /\ handler = [t \in Threads |-> NoHandler]
    /\ reports = {}
    /\ graceful = FALSE
    /\ ended = FALSE

-----------------------------------------------------------------------------
(* ExecuteCallback, on the fuzzing thread *)

Fuzzing == ~ended /\ handler["fuzzing"] = NoHandler
HandlerState == <<taken, handler, reports, graceful, ended>>

CopyUnit(u) ==
    /\ Fuzzing /\ epc = "between"
    /\ ~graceful
    /\ current' = u
    /\ unitData' = u
    /\ epc' = "copied"
    /\ UNCHANGED <<unitSize, running, tampered, HandlerState>>

SetUnitSize ==
    /\ Fuzzing /\ epc = "copied"
    /\ unitSize' = SizeOf[current]
    /\ epc' = "sized"
    /\ UNCHANGED <<current, unitData, running, tampered, HandlerState>>

EnterTarget ==
    /\ Fuzzing /\ epc = "sized"
    /\ running' = TRUE
    /\ epc' = "running"
    /\ UNCHANGED <<current, unitData, unitSize, tampered, HandlerState>>

TargetReturns ==
    /\ Fuzzing /\ epc = "running"
    /\ running' = FALSE
    /\ tampered' \in BOOLEAN
    /\ epc' = "returned"
    /\ UNCHANGED <<current, unitData, unitSize, HandlerState>>

Enter(t, name) == handler' = [handler EXCEPT ![t] = [name |-> name, stage |-> "size", size |-> 0]]

(* Mutated form: the size is reset before the unit is checked.             *)
CheckUnitForgetsSize ==
    /\ Fuzzing /\ epc = "returned"
    /\ unitSize' = 0
    /\ IF tampered
       THEN Enter("fuzzing", "overwritten") /\ UNCHANGED epc
       ELSE epc' = "between" /\ UNCHANGED handler
    /\ UNCHANGED <<current, unitData, running, tampered, taken, reports, graceful, ended>>

(* CrashOnOverwrittenData does not ask for the crash state.                *)
CheckUnit ==
    /\ Fuzzing /\ epc = "returned"
    /\ IF tampered
       THEN Enter("fuzzing", "overwritten") /\ UNCHANGED <<unitSize, epc>>
       ELSE unitSize' = 0 /\ epc' = "between" /\ UNCHANGED handler
    /\ UNCHANGED <<current, unitData, running, tampered, taken, reports, graceful, ended>>

(* TryDetectingAMemoryLeak sets the size again for its report.             *)
ReportLeak ==
    /\ Fuzzing /\ epc = "between" /\ current # NoUnit
    /\ unitSize' = SizeOf[current]
    /\ Enter("fuzzing", "leak")
    /\ UNCHANGED <<epc, current, unitData, running, tampered, taken, reports, graceful, ended>>

-----------------------------------------------------------------------------
(* The callbacks.  A thread may crash, exit, allocate too much or meet a   *)
(* sanitizer's error anywhere, the fuzzing thread in the target's code and *)
(* outside of it.                                                          *)

UnitState == <<epc, current, unitData, unitSize, running, tampered>>
Free(t) == ~ended /\ handler[t] = NoHandler
Interruptible(t) == ~ended /\ handler[t].name \notin Guarded

(* A callback that finds the crash state taken returns at once.            *)
AcquireCrashState == (SanitizerCrashState => ~taken) /\ taken' = TRUE

(* A deadly signal may come while a callback that did not take the crash   *)
(* state reports.                                                          *)
CrashCallback(t) ==
    /\ Interruptible(t)
    /\ AcquireCrashState
    /\ Enter(t, "crash")
    /\ UNCHANGED <<UnitState, reports, graceful, ended>>

ExitCallback(t) ==
    /\ Free(t)
    /\ IF running
       THEN AcquireCrashState /\ Enter(t, "exit") /\ UNCHANGED ended
       ELSE ended' = TRUE /\ UNCHANGED <<taken, handler>>
    /\ UNCHANGED <<UnitState, reports, graceful>>

(* The alarm counts on the fuzzing thread only, and only in the target.    *)
AlarmCallback ==
    /\ Interruptible("fuzzing")
    /\ running
    /\ AcquireCrashState
    /\ Enter("fuzzing", "alarm")
    /\ UNCHANGED <<UnitState, reports, graceful, ended>>

RssLimitCallback ==
    /\ Free("memory")
    /\ AcquireCrashState
    /\ Enter("memory", "rss")
    /\ UNCHANGED <<UnitState, reports, graceful, ended>>

HandleMalloc(t) ==
    /\ Free(t)
    /\ Enter(t, "malloc")
    /\ UNCHANGED <<UnitState, taken, reports, graceful, ended>>

DeathCallback(t) ==
    /\ Free(t)
    /\ Enter(t, "death")
    /\ UNCHANGED <<UnitState, taken, reports, graceful, ended>>

(* DumpCurrentUnit, then _Exit.                                            *)
ReadSize(t) ==
    /\ ~ended /\ handler[t].stage = "size"
    /\ handler' = [handler EXCEPT ![t].stage = "data", ![t].size = IF t = "fuzzing" THEN unitSize ELSE 0]
    /\ UNCHANGED <<UnitState, taken, reports, graceful, ended>>

Artifact(t, unit, pc, data) ==
    [by |-> handler[t].name, on |-> t, of |-> unit, at |-> pc, data |-> data, size |-> handler[t].size]

WriteArtifact(t) ==
    /\ ~ended /\ handler[t].stage = "data"
    /\ handler' = [handler EXCEPT ![t].stage = "exit"]
    /\ reports' = reports \cup
          {IF t = "fuzzing"
           THEN Artifact(t, current, epc, unitData)
           ELSE Artifact(t, NoUnit, "any", NoUnit)}
    /\ UNCHANGED <<UnitState, taken, graceful, ended>>

ExitNow(t) ==
    /\ ~ended /\ handler[t].stage = "exit"
    /\ ended' = TRUE
    /\ UNCHANGED <<UnitState, taken, handler, reports, graceful>>

(* An interrupt ends the process without a report.                         *)
InterruptCallback ==
    /\ ~ended
    /\ ended' = TRUE
    /\ UNCHANGED <<UnitState, taken, handler, reports, graceful>>

GracefulExitCallback ==
    /\ ~ended
    /\ graceful' = TRUE
    /\ UNCHANGED <<UnitState, taken, handler, reports, ended>>

MaybeExitGracefully ==
    /\ Fuzzing /\ epc = "between" /\ graceful
    /\ ended' = TRUE
    /\ UNCHANGED <<UnitState, taken, handler, reports, graceful>>

-----------------------------------------------------------------------------
CallbackNext ==
    \/ \E u \in UnitsRun : CopyUnit(u)
    \/ SetUnitSize \/ EnterTarget \/ TargetReturns \/ CheckUnit \/ ReportLeak
    \/ \E t \in {"fuzzing", "target"} : CrashCallback(t) \/ ExitCallback(t) \/ HandleMalloc(t) \/ DeathCallback(t)
    \/ AlarmCallback \/ RssLimitCallback
    \/ \E t \in Threads : ReadSize(t) \/ WriteArtifact(t) \/ ExitNow(t)
    \/ InterruptCallback \/ GracefulExitCallback \/ MaybeExitGracefully

CallbackSpec == CallbackInit /\ [][CallbackNext]_callbackVars

-----------------------------------------------------------------------------
(* What is reported from the fuzzing thread is the unit it was given, whole*)
(* or not at all, whichever callbacks and threads come in between: whole   *)
(* from when its size is set until it has been checked, and for a leak;    *)
(* never the size of one unit with the contents of another.  And of the    *)
(* callbacks that take the crash state at most one reports.                *)
ReportsNameTheUnit ==
    /\ \A r \in reports : r.on = "fuzzing" =>
          /\ r.size # 0 => r.data = r.of /\ r.size = SizeOf[r.of]
          /\ r.at \in {"sized", "running", "returned"} \/ r.by = "leak" => r.size # 0
    /\ SanitizerCrashState =>
          \A r, s \in reports : r.by \in Guarded /\ s.by \in Guarded => r.by = s.by /\ r.on = s.on
=============================================================================
