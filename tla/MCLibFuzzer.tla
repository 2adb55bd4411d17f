---------------------------- MODULE MCLibFuzzer ----------------------------
(* Small instances of all parts.  The inputs a to e show features, x, y and *)
(* z crash, x and y for the same reason.                                    *)
EXTENDS LibFuzzer

CONSTANTS a, b, c, d, e, x, y, z, p

MCSizeOf == a :> 3 @@ b :> 3 @@ c :> 2 @@ d :> 1 @@ e :> 5 @@ x :> 3 @@ y :> 2 @@ z :> 1
MCFeaturesOf == a :> {1} @@ b :> {1, 2} @@ c :> {2, 3} @@ d :> {2} @@ e :> {6, 7} @@ x :> {4} @@ y :> {4} @@ z :> {4}

(* merge and fork *)
MCCorpora == {[old |-> <<d>>, new |-> <<a, b>>], [old |-> <<a>>, new |-> <<d, x, b>>]}
MCFindings == {{}, {b, c}}

(* the fuzzing loop *)
MCSeedCorpora == {<<a>>, <<e>>, <<a, x>>}
Flags(len, shrink, reduceDepth, leaks) ==
    [LenControl |-> len, Shrink |-> shrink, ReduceInputs |-> TRUE, ReduceDepth |-> reduceDepth, DetectLeaks |-> leaks]
MCFlagSettings == {Flags(1, FALSE, FALSE, TRUE), Flags(0, TRUE, TRUE, FALSE)}

(* minimizing and cleansing; the bytes to replace by are 0 and 9 *)
MCTokenOf == x :> p @@ y :> p @@ z :> NoToken @@ [u \in {a, b, c, d, e} |-> NoToken]
MCReplacementBytes == <<0, 9>>
MCFailing == {<<1, 1>>, <<1, 0>>, <<0, 0>>, <<1, 2>>, <<9, 2>>}
MCCrashInputs == {<<1, 1>>, <<1, 2>>}

(* command lines: all combinations of the flags that set a task, those    *)
(* that name two included                                                  *)
ModeFlags ==
    <<"jobs", "fork", "merge", "minimize_crash", "cleanse_crash", "collect_data_flow", "analyze_dict">>
FlagArgs(F) == [i \in 1 .. Cardinality(F) |-> Arg(SelectSeq(ModeFlags, LAMBDA f : f \in F)[i], "1")]
PathArgs == {<<>>, <<Arg(Path, "input")>>, <<Arg(Path, "C"), Arg(Path, "D")>>}
Tails == {<<>>, <<IgnoreRemaining, Arg("fork", "1"), Arg(Path, "C")>>}
MCCommandLines ==
    {FlagArgs(F) \o paths \o tail : F \in SUBSET Range(ModeFlags), paths \in PathArgs, tail \in Tails}

(* mutations *)
MCUnits == {<<0, 1>>}
MCManual == << <<1, 1>> >>
MCCmpWords == {<<0>>, <<1>>}
MCCustom == {<<>>, <<1>>, <<0, 0, 0, 0>>}

(* coverage: a section that begins and ends off the alignment, and the     *)
(* extra counters right behind another one *)
MCSections == {<<1, 5>>, <<5, 6>>}
MCExtra == <<6, 7>>
MCCompares == {<<1, 2, 1>>}
=============================================================================
