---------------------------- MODULE FuzzerDriver ----------------------------
(***************************************************************************)
(* The command lines of libFuzzer: what a process makes of its arguments   *)
(* (ParseFlags and the dispatch in FuzzerDriver), and with which arguments *)
(* it launches others of its kind (Command, and the callers that edit a    *)
(* copy of their own command line).                                        *)
(*                                                                         *)
(* An argument is a flag with a value, or a path (flag = Path).  Only the  *)
(* flags that choose what a process does are told apart; their values are  *)
(* "1" and "0".                                                            *)
(***************************************************************************)
EXTENDS Subsequences, SequencesExt

CONSTANTS
    CommandLines,            \* command lines a user gives: sequences of arguments
    FilePaths, Directories,  \* the paths that name a file, and those that name a directory
    Cores                    \* NumberOfCpuCores

VARIABLE chain     \* processes, each launched by the one before: arguments and the roles meant for it

Path == "path"
FlagNames ==
    {"help", "jobs", "workers", "collect_data_flow", "minimize_crash", "minimize_crash_internal_step", "cleanse_crash",
     "fork", "merge", "merge_inner", "analyze_dict", "runs", "exact_artifact_path", "ignore_remaining_args"}
Arguments == [flag : FlagNames \cup {Path}, value : {"0", "1"} \cup FilePaths \cup Directories]

Arg(f, v) == [flag |-> f, value |-> v]
IgnoreRemaining == Arg("ignore_remaining_args", "1")

(* class Command: what follows -ignore_remaining_args=1 is left alone.     *)
MutableArgs(args) == {i \in DOMAIN args : \A j \in 1 .. i : args[j] # IgnoreRemaining}

addArgument(args, a) == InsertAt(args, Cardinality(MutableArgs(args)) + 1, a)
removeFlags(args, flags) ==
    Kept(args, DOMAIN args \ {i \in MutableArgs(args) : args[i].flag \in flags})
removePaths(args) == removeFlags(args, {Path})

(* ParseFlags: the last value of a flag counts, and nothing behind         *)
(* ignore_remaining_args.                                                  *)
Given(args, f) == {i \in MutableArgs(args) : args[i].flag = f}
On(args, f) ==
    \E i \in Given(args, f) : args[i].value = "1" /\ \A j \in Given(args, f) : j <= i

NumPaths(args) == Cardinality(Given(args, Path))
AllInputsAreFiles(args) ==
    Given(args, Path) # {} /\ \A i \in Given(args, Path) : args[i].value \in FilePaths

(* Half the cores work on the jobs when -workers is not given, and on a    *)
(* single core none: -jobs is then without effect.                         *)
Workers(args) == On(args, "jobs") /\ (On(args, "workers") \/ Cores \div 2 > 0)

(* One task only for the processes launched, which take over what is not  *)
(* removed, and none of the flags the code gives its own processes.        *)
OneTask(args) ==
    /\ ~On(args, "merge_inner") /\ ~On(args, "minimize_crash_internal_step")
    /\ ~(On(args, "minimize_crash") /\ On(args, "cleanse_crash"))
    /\ On(args, "fork") => ~On(args, "merge") /\ ~On(args, "analyze_dict")

ASSUME DriverAssumption ==
    /\ CommandLines \subseteq Seq(Arguments)
    /\ FilePaths # {} /\ Directories # {} /\ FilePaths \cap Directories = {}

(* What FuzzerDriver looks at, in its order.                               *)
Dispatch(args) ==
    << <<"help", On(args, "help")>>,
       <<"jobs", Workers(args)>>,
       <<"collect data flow", On(args, "collect_data_flow") /\ ~On(args, "fork") /\ ~On(args, "merge")>>,
       <<"minimize", On(args, "minimize_crash")>>,
       <<"minimize step", On(args, "minimize_crash_internal_step")>>,
       <<"cleanse", On(args, "cleanse_crash")>>,
       <<"run files", AllInputsAreFiles(args)>>,
       <<"fork", On(args, "fork")>>,
       <<"merge", On(args, "merge")>>,
       <<"merge inner", On(args, "merge_inner")>>,
       <<"analyze dictionary", On(args, "analyze_dict")>>,
       <<"loop", TRUE>> >>

Role(args) == Dispatch(args)[SelectInSeq(Dispatch(args), LAMBDA d : d[2])][1]

-----------------------------------------------------------------------------
(* The processes each role launches: arguments, and the roles meant.       *)

Child(a, roles) == [args |-> a, meant |-> roles]

JobChild(args) ==
    {Child(removeFlags(args, {"jobs", "workers"}),
           {Dispatch(args)[i][1] : i \in DOMAIN Dispatch(args)} \ {"help", "jobs"})}

(* The input is taken out of the arguments and the current file put in.    *)
MinimizeChildren(args) ==
    LET base == removePaths(removeFlags(args, {"minimize_crash", "exact_artifact_path"}))
        run == addArgument(base, Arg(Path, CHOOSE p \in FilePaths : TRUE))
    IN  IF NumPaths(args) # 1 THEN {}
        ELSE {Child(run, {"run files"}),
              Child(addArgument(run, Arg("minimize_crash_internal_step", "1")), {"minimize step"})}

CleanseChild(args) ==
    LET base == removePaths(removeFlags(args, {"cleanse_crash"}))
    IN  IF NumPaths(args) # 1 THEN {}
        ELSE {Child(addArgument(base, Arg(Path, CHOOSE p \in FilePaths : TRUE)), {"run files"})}

(* Mutated form: the flags of the outer process stay.                      *)
MergeInnerChildOfFork(args) ==
    {Child(addArgument(removeFlags(args, {"merge"}), Arg("merge_inner", "1")),
           {"merge inner"})}

MergeInnerChild(args) ==
    {Child(addArgument(removeFlags(args, {"merge", "fork", "collect_data_flow"}), Arg("merge_inner", "1")),
           {"merge inner"})}

MergeChild(args) == IF NumPaths(args) < 2 THEN {} ELSE MergeInnerChild(args)

ForkJobChild(args) ==
    LET base == removePaths(removeFlags(args, {"fork", "runs", "collect_data_flow"}))
    IN  {Child(addArgument(base, Arg(Path, CHOOSE d \in Directories : TRUE)), {"loop"})}

Children(args) ==
    [r \in {"jobs", "minimize", "cleanse", "fork", "merge"} |->
        CASE r = "jobs" -> JobChild(args)
          [] r = "minimize" -> MinimizeChildren(args)
          [] r = "cleanse" -> CleanseChild(args)
          [] r = "fork" -> ForkJobChild(args) \cup MergeInnerChild(args)
          [] r = "merge" -> MergeChild(args)]

DriverInit == chain \in {<<Child(c, {Role(c)})>> : c \in CommandLines}

Launch ==
    LET args == Last(chain).args
    IN  /\ Role(args) \in DOMAIN Children(args)
        /\ \E c \in Children(args)[Role(args)] : chain' = Append(chain, c)

DriverNext == Launch

DriverSpec == DriverInit /\ [][DriverNext]_chain

-----------------------------------------------------------------------------
(* Every process does what the one that launched it means it to do, none   *)
(* starts over in the role of its parent, and no chain of processes is     *)
(* longer than three, if the user's command line sets one task (OneTask).  *)
(* A second task stays on the command lines of the children: a child then  *)
(* cleanses the crash it is to run, or merges where it is to fuzz.  But    *)
(* whatever flags are combined, no chain is longer than four.              *)
ChildrenPlayTheirPart ==
    \A i \in DOMAIN chain :
        IF OneTask(chain[1].args) THEN Role(chain[i].args) \in chain[i].meant /\ i <= 3 ELSE i <= 4
=============================================================================
