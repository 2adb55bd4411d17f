---------------------- MODULE CrashResistantMerge_proofs ----------------------
(* The crash-resistant merge for any corpora, any number of faults and any *)
(* order of them: what the inner processes leave in the control file can   *)
(* be parsed as long as no record was damaged, the attempts suffice but    *)
(* for those wasted, and the merge implements what CorpusMerge promises.   *)
EXTENDS CrashResistantMerge, Integers, FiniteSetTheorems, SequenceTheorems, TLAPS

-----------------------------------------------------------------------------
(* The inductive invariant *)

LogLine == [mark : {"STARTED", "FT", "CUT", "GLUED", "BAD"}, id : Nat, features : SUBSET Nat]
ControlFile == [written : BOOLEAN, files : Seq(Inputs), first : Nat, log : Seq(LogLine)]

NumStarted(c) == Cardinality(StartedLines(c.log))
FTLines(c) == {l \in DOMAIN c.log : c.log[l].mark = "FT"}
Recorded(c) == UNION {c.log[l].features : l \in FTLines(c)}
RecordedUpTo(c, i) == UNION {c.log[l].features : l \in {l \in FTLines(c) : c.log[l].id <= i}}

(* No line is glued to another, and no marker is cut.                      *)
Tidy(c) == Marks(c) \cap {"GLUED", "BAD"} = {}

(* What no kill can damage.                                                *)
Shape(c) ==
    /\ c \in ControlFile
    /\ IsInjective(c.files)
    /\ c.first <= Len(c.files)
    /\ \A l \in DOMAIN c.log : c.log[l].id \in 1 .. Len(c.files)
    /\ \A l \in DOMAIN c.log : c.log[l].mark = "CUT" => l = Len(c.log)

(* A log no kill has cut.  The features recorded for an input are its own, *)
(* and those it shows are recorded, if not for it then for an input that   *)
(* ran before it.                                                          *)
InTurn(c) ==
    /\ NumStarted(c) <= Len(c.files)
    /\ \A l \in DOMAIN c.log : c.log[l].id \in 1 .. NumStarted(c)
    /\ \A l \in FTLines(c) :
          /\ c.log[l].features \subseteq FeaturesOf[c.files[c.log[l].id]]
          /\ FeaturesOf[c.files[c.log[l].id]] \subseteq RecordedUpTo(c, c.log[l].id)

(* A control file as the processes leave it.                               *)
WellFormed(c) ==
    /\ Shape(c)
    /\ Tidy(c) /\ c.files # <<>> => Parses(c)
    /\ Whole(c) => InTurn(c)

(* The inner process and the end of the log go together.                   *)
InnerFits ==
    /\ inner \in [pc : {"none", "loop", "running"}, at : Nat, seen : SUBSET Nat, ranOne : BOOLEAN]
    /\ inner.pc = "none" <=> outer # "inner"
    /\ inner.pc = "none" => inner = NoInner
    /\ inner.pc = "loop" => inner.at >= 1
    /\ inner.pc = "running" => /\ inner.at \in 1 .. Len(cf.files) /\ inner.ranOne
                               /\ "CUT" \notin Marks(cf)
    /\ inner.pc = "running" /\ Tidy(cf) => /\ cf.log # <<>>
                                           /\ cf.log[Len(cf.log)] = Line("STARTED", inner.at, {})
    /\ Whole(cf) => /\ inner.pc = "loop" => inner.at = NumStarted(cf) + 1
                    /\ inner.pc = "running" => inner.at = NumStarted(cf)
                    /\ inner.seen \subseteq Recorded(cf)

(* An inner process that started an input has earned its attempt.          *)
Left == Len(cf.files) - NumStarted(cf)
AttemptsLast ==
    /\ attempts \in Nat
    /\ wasted \in Nat
    /\ outer = "inner" => attempts >= 1
    /\ Whole(cf) /\ outer \in {"attempt", "inner"} =>
          attempts + wasted >= Left + (IF inner.ranOne THEN 1 ELSE 0)

MergeInv ==
    /\ WellFormed(cf)
    /\ WellFormed(known)
    /\ Range(cf.files) \cap Range(known.files) = {}
    /\ outer \in {"idle", "attempt", "inner", "merge", "done", "failed", "nothing"}
    /\ newFiles \subseteq Inputs
    /\ InnerFits
    /\ AttemptsLast

-----------------------------------------------------------------------------
(* The log: appending a line *)

LEMMA LineTypes ==
    \A m \in {"STARTED", "FT", "CUT", "GLUED", "BAD"}, i \in Nat, F \in SUBSET Nat :
        /\ Line(m, i, F) \in LogLine
        /\ Line(m, i, F).mark = m /\ Line(m, i, F).id = i /\ Line(m, i, F).features = F
  BY DEF Line, LogLine

LEMMA StartedFinite ==
    ASSUME NEW log \in Seq(LogLine)
    PROVE  /\ IsFiniteSet(StartedLines(log))
           /\ Cardinality(StartedLines(log)) \in Nat
           /\ StartedLines(log) \subseteq 1 .. Len(log)
  <1>1. StartedLines(log) \subseteq 1 .. Len(log) BY DEF StartedLines
  <1>2. IsFiniteSet(1 .. Len(log)) BY FS_Interval
  <1> QED BY <1>1, <1>2, FS_Subset, FS_CardinalityType

LEMMA StartedAppend ==
    ASSUME NEW log \in Seq(LogLine), NEW ln \in LogLine
    PROVE  /\ ln.mark = "STARTED" =>
                Cardinality(StartedLines(Append(log, ln))) = Cardinality(StartedLines(log)) + 1
           /\ ln.mark # "STARTED" => StartedLines(Append(log, ln)) = StartedLines(log)
  <1> DEFINE more == Append(log, ln)
  <1>1. /\ Len(more) = Len(log) + 1 /\ DOMAIN more = 1 .. Len(log) + 1
        /\ \A i \in 1 .. Len(log) : more[i] = log[i]
        /\ more[Len(log) + 1] = ln
    OBVIOUS
  <1>2. ln.mark # "STARTED" => StartedLines(more) = StartedLines(log)
    BY <1>1 DEF StartedLines
  <1>3. ASSUME ln.mark = "STARTED"
        PROVE  Cardinality(StartedLines(more)) = Cardinality(StartedLines(log)) + 1
    <2>1. StartedLines(more) = StartedLines(log) \cup {Len(log) + 1}
      BY <1>1, <1>3 DEF StartedLines
    <2>2. Len(log) + 1 \notin StartedLines(log) BY StartedFinite
    <2> QED BY <2>1, <2>2, StartedFinite, FS_AddElement
  <1> QED BY <1>2, <1>3

LEMMA PrefixOfAppend ==
    ASSUME NEW log \in Seq(LogLine), NEW ln \in LogLine
    PROVE  /\ \A l \in 1 .. Len(log) : SubSeq(Append(log, ln), 1, l) = SubSeq(log, 1, l)
           /\ SubSeq(Append(log, ln), 1, Len(log) + 1) = Append(log, ln)
  OBVIOUS

(* A log that is in turn stays so when an inner process appends to it.     *)
LEMMA AppendParses ==
    ASSUME NEW c \in ControlFile, Parses(c), NEW ln \in LogLine,
           \/ /\ ln.mark = "STARTED"
              /\ ln.id = NumStarted(c) + 1 /\ ln.id <= Len(c.files)
           \/ /\ ln.mark \in {"FT", "CUT"} /\ c.log # <<>>
              /\ c.log[Len(c.log)] = Line("STARTED", ln.id, {})
    PROVE  Parses([c EXCEPT !.log = Append(@, ln)])
  <1> DEFINE d == [c EXCEPT !.log = Append(@, ln)]
             n == Len(c.log)
  <1>1. /\ c.log \in Seq(LogLine) /\ n \in Nat
        /\ d.log = Append(c.log, ln) /\ d.files = c.files /\ d.first = c.first
    BY DEF ControlFile
  <1>2. /\ DOMAIN d.log = 1 .. n + 1 /\ DOMAIN c.log = 1 .. n
        /\ \A l \in 1 .. n : d.log[l] = c.log[l]
        /\ d.log[n + 1] = ln
    BY <1>1
  <1>3. \A l \in 1 .. n : SubSeq(d.log, 1, l) = SubSeq(c.log, 1, l)
    BY <1>1, PrefixOfAppend
  <1>4. SubSeq(d.log, 1, n + 1) = d.log BY <1>1, PrefixOfAppend
  <1> HIDE DEF d
  <1> SUFFICES ASSUME NEW l \in DOMAIN d.log
               PROVE  IF d.log[l].mark = "STARTED"
                      THEN /\ d.log[l].id = Cardinality(StartedLines(SubSeq(d.log, 1, l)))
                           /\ d.log[l].id <= Len(d.files)
                      ELSE /\ d.log[l].mark # "BAD"
                           /\ l > 1
                           /\ d.log[l - 1] = Line("STARTED", d.log[l].id, {})
    BY <1>1 DEF Parses, d
  <1>5. CASE l \in 1 .. n
    <2>1. l \in DOMAIN c.log /\ d.log[l] = c.log[l] BY <1>2, <1>5
    <2>2. l > 1 => d.log[l - 1] = c.log[l - 1] BY <1>1, <1>2, <1>5
    <2> QED BY <1>1, <1>3, <1>5, <2>1, <2>2 DEF Parses
  <1>6. CASE l = n + 1
    <2>1. CASE ln.mark = "STARTED"
      <3>1. Cardinality(StartedLines(d.log)) = NumStarted(c) + 1
        BY <1>1, <2>1, StartedAppend DEF NumStarted
      <3> QED BY <1>1, <1>2, <1>4, <1>6, <2>1, <3>1
    <2>2. CASE ln.mark \in {"FT", "CUT"}
      <3>1. n >= 1 /\ d.log[n] = c.log[n] BY <1>1, <1>2, <2>2
      <3> QED BY <1>2, <1>6, <2>2, <3>1
    <2> QED BY <2>1, <2>2
  <1> QED BY <1>1, <1>2, <1>5, <1>6

LEMMA AppendToFile ==
    ASSUME NEW c \in ControlFile, NEW ln \in LogLine
    PROVE  LET d == [c EXCEPT !.log = Append(@, ln)]
           IN  /\ d \in ControlFile /\ d.log = Append(c.log, ln)
               /\ d.files = c.files /\ d.first = c.first
  <1>1. c.log \in Seq(LogLine) BY DEF ControlFile
  <1>2. Append(c.log, ln) \in Seq(LogLine) BY <1>1, AppendProperties
  <1> QED BY <1>2 DEF ControlFile

LEMMA MarksAppend ==
    ASSUME NEW c \in ControlFile, NEW ln \in LogLine, NEW d, d.log = Append(c.log, ln)
    PROVE  Marks(d) = Marks(c) \cup {ln.mark}
  <1>1. c.log \in Seq(LogLine) BY DEF ControlFile
  <1>2. /\ Len(c.log) \in Nat /\ DOMAIN d.log = 1 .. Len(c.log) + 1 /\ DOMAIN c.log = 1 .. Len(c.log)
        /\ \A l \in 1 .. Len(c.log) : d.log[l] = c.log[l]
        /\ d.log[Len(c.log) + 1] = ln
    BY <1>1
  <1>3. DOMAIN d.log = DOMAIN c.log \cup {Len(c.log) + 1} BY <1>2
  <1>4. \A l \in DOMAIN c.log : d.log[l].mark = c.log[l].mark BY <1>2
  <1>5. d.log[Len(c.log) + 1].mark = ln.mark BY <1>2
  <1> QED BY <1>3, <1>4, <1>5 DEF Marks

(* What stays of any log when a line is appended that names an input.      *)
LEMMA AppendKeepsShape ==
    ASSUME NEW c, Shape(c), NEW ln \in LogLine, ln.id \in 1 .. Len(c.files),
           "CUT" \notin Marks(c)
    PROVE  LET d == [c EXCEPT !.log = Append(@, ln)]
           IN  Shape(d) /\ Marks(d) = Marks(c) \cup {ln.mark}
  <1> DEFINE d == [c EXCEPT !.log = Append(@, ln)]
             n == Len(c.log)
  <1>1. c \in ControlFile /\ c.log \in Seq(LogLine) /\ n \in Nat BY DEF Shape, ControlFile
  <1>2. d \in ControlFile /\ d.log = Append(c.log, ln) /\ d.files = c.files /\ d.first = c.first
    BY <1>1, AppendToFile
  <1>3. Marks(d) = Marks(c) \cup {ln.mark} BY <1>1, <1>2, MarksAppend
  <1>4. /\ DOMAIN d.log = 1 .. n + 1 /\ DOMAIN c.log = 1 .. n /\ Len(d.log) = n + 1
        /\ \A l \in 1 .. n : d.log[l] = c.log[l]
        /\ d.log[n + 1] = ln
    BY <1>1, <1>2
  <1> HIDE DEF d
  <1>5. \A l \in 1 .. n : d.log[l].mark # "CUT" BY <1>4 DEF Marks
  <1>6. ASSUME NEW l \in DOMAIN d.log
        PROVE  /\ d.log[l].id \in 1 .. Len(d.files)
               /\ d.log[l].mark = "CUT" => l = Len(d.log)
    <2>1. CASE l \in 1 .. n
      <3>1. c.log[l].id \in 1 .. Len(c.files) BY <1>4, <2>1 DEF Shape
      <3> QED BY <1>2, <1>4, <1>5, <2>1, <3>1
    <2>2. CASE l = n + 1 BY <1>2, <1>4, <2>2
    <2> QED BY <1>1, <1>4, <2>1, <2>2
  <1>7. Shape(d) BY <1>2, <1>6 DEF Shape
  <1> QED BY <1>3, <1>7 DEF d

(* The files with recorded features are those the other lines name.        *)
LEMMA NamesOfLines ==
    ASSUME NEW c, WellFormed(c), Whole(c)
    PROVE  RecordedNames(c) = {c.files[c.log[l].id] : l \in FTLines(c)}
  <1>1. c.files \in Seq(Inputs) /\ c.log \in Seq(LogLine) BY DEF WellFormed, Shape, ControlFile
  <1>2. \A l \in FTLines(c) : c.log[l].id \in DOMAIN c.files
    BY <1>1 DEF WellFormed, Shape, FTLines
  <1>3. \A l \in DOMAIN c.log : c.log[l].mark # "STARTED" <=> l \in FTLines(c)
    BY DEF Whole, Marks, FTLines
  <1>4. \A i \in DOMAIN c.files : FeatureLines(c, i) = {l \in FTLines(c) : c.log[l].id = i}
    BY <1>3 DEF FeatureLines, FTLines
  <1> QED BY <1>2, <1>4 DEF RecordedNames

(* The facts about a log no kill has cut.                                  *)
LEMMA WholeFacts ==
    ASSUME NEW c, WellFormed(c), Whole(c)
    PROVE  /\ InTurn(c) /\ Tidy(c) /\ "CUT" \notin Marks(c)
           /\ NumStarted(c) \in Nat /\ NumStarted(c) <= Len(c.files)
           /\ c.files # <<>> => Parses(c)
  <1>1. c.log \in Seq(LogLine) BY DEF WellFormed, Shape, ControlFile
  <1>2. NumStarted(c) \in Nat BY <1>1, StartedFinite DEF NumStarted
  <1>3. Tidy(c) /\ "CUT" \notin Marks(c) BY DEF Whole, Tidy
  <1> QED BY <1>2, <1>3 DEF WellFormed, InTurn

LEMMA AppendStarted ==
    ASSUME NEW c, WellFormed(c), Whole(c), NumStarted(c) < Len(c.files)
    PROVE  LET d == [c EXCEPT !.log = Append(@, Line("STARTED", NumStarted(c) + 1, {}))]
           IN  /\ WellFormed(d) /\ Whole(d)
               /\ NumStarted(d) = NumStarted(c) + 1
               /\ Recorded(d) = Recorded(c)
               /\ RecordedNames(d) = RecordedNames(c)
  <1> DEFINE ln == Line("STARTED", NumStarted(c) + 1, {})
             d == [c EXCEPT !.log = Append(@, ln)]
             n == Len(c.log)
  <1>1. /\ c \in ControlFile /\ c.files \in Seq(Inputs) /\ c.log \in Seq(LogLine) /\ n \in Nat
        /\ NumStarted(c) \in Nat /\ Len(c.files) \in Nat
    BY StartedFinite DEF WellFormed, Shape, ControlFile, NumStarted
  <1>2. ln \in LogLine /\ ln.mark = "STARTED" /\ ln.id = NumStarted(c) + 1
    BY <1>1, LineTypes
  <1> HIDE DEF ln
  <1>3. /\ d \in ControlFile /\ d.log = Append(c.log, ln)
        /\ d.files = c.files /\ d.first = c.first
    BY <1>1, <1>2, AppendToFile
  <1>4. /\ DOMAIN d.log = 1 .. n + 1 /\ DOMAIN c.log = 1 .. n
        /\ \A l \in 1 .. n : d.log[l] = c.log[l]
        /\ d.log[n + 1] = ln
    BY <1>1, <1>2, <1>3
  <1>5. Parses(d)
    <2>1. c.files # <<>> BY <1>1
    <2> QED BY <1>1, <1>2, <2>1, WholeFacts, AppendParses
  <1>6. Shape(d) /\ Whole(d)
    <2>1. ln.id \in 1 .. Len(c.files) /\ Shape(c) /\ "CUT" \notin Marks(c)
      BY <1>1, <1>2, WholeFacts DEF WellFormed
    <2>2. Shape(d) /\ Marks(d) = Marks(c) \cup {ln.mark} BY <1>2, <2>1, AppendKeepsShape
    <2> QED BY <1>2, <2>2 DEF Whole
  <1> HIDE DEF d
  <1>7. NumStarted(d) = NumStarted(c) + 1 BY <1>1, <1>2, <1>3, StartedAppend DEF NumStarted
  <1>8. FTLines(d) = FTLines(c) BY <1>2, <1>4 DEF FTLines
  <1>9. \A l \in FTLines(c) : d.log[l] = c.log[l] BY <1>4 DEF FTLines
  <1>10. Recorded(d) = Recorded(c) /\ \A i : RecordedUpTo(d, i) = RecordedUpTo(c, i)
    BY <1>8, <1>9 DEF Recorded, RecordedUpTo
  <1>11. \A l \in DOMAIN d.log : d.log[l].id \in 1 .. NumStarted(d)
    <2>1. \A l \in 1 .. n : c.log[l].id \in 1 .. NumStarted(c) BY <1>4, WholeFacts DEF InTurn
    <2> TAKE l \in DOMAIN d.log
    <2>2. CASE l \in 1 .. n
      <3>1. d.log[l].id \in 1 .. NumStarted(c) BY <1>4, <2>1, <2>2
      <3> QED BY <1>1, <1>7, <3>1
    <2>3. CASE l = n + 1 BY <1>1, <1>2, <1>4, <1>7, <2>3
    <2> QED BY <1>1, <1>4, <2>2, <2>3
  <1>12. InTurn(d)
    <2>1. NumStarted(d) <= Len(d.files) BY <1>1, <1>3, <1>7
    <2>2. InTurn(c) BY WholeFacts
    <2> QED BY <1>3, <1>8, <1>9, <1>10, <1>11, <2>1, <2>2 DEF InTurn
  <1>13. WellFormed(d) BY <1>5, <1>6, <1>12 DEF WellFormed
  <1>14. RecordedNames(d) = RecordedNames(c)
    <2>1. \A l \in FTLines(d) : d.files[d.log[l].id] = c.files[c.log[l].id]
      BY <1>3, <1>8, <1>9
    <2>2. {d.files[d.log[l].id] : l \in FTLines(d)} = {c.files[c.log[l].id] : l \in FTLines(c)}
      BY <1>8, <2>1
    <2>3. RecordedNames(d) = {d.files[d.log[l].id] : l \in FTLines(d)} BY <1>6, <1>13, NamesOfLines
    <2> QED BY <2>2, <2>3, NamesOfLines
  <1> QED BY <1>6, <1>7, <1>10, <1>13, <1>14 DEF d, ln

LEMMA AppendFT ==
    ASSUME NEW c, WellFormed(c), Whole(c), c.log # <<>>,
           NumStarted(c) >= 1, c.log[Len(c.log)] = Line("STARTED", NumStarted(c), {}),
           NEW F \in SUBSET Nat, F \subseteq FeaturesOf[c.files[NumStarted(c)]],
           FeaturesOf[c.files[NumStarted(c)]] \subseteq Recorded(c) \cup F
    PROVE  LET d == [c EXCEPT !.log = Append(@, Line("FT", NumStarted(c), F))]
           IN  /\ WellFormed(d) /\ Whole(d)
               /\ NumStarted(d) = NumStarted(c)
               /\ Recorded(d) = Recorded(c) \cup F
               /\ RecordedNames(d) = RecordedNames(c) \cup {c.files[NumStarted(c)]}
  <1> DEFINE i == NumStarted(c)
             ln == Line("FT", i, F)
             d == [c EXCEPT !.log = Append(@, ln)]
             n == Len(c.log)
  <1>1. /\ c \in ControlFile /\ c.files \in Seq(Inputs) /\ c.log \in Seq(LogLine) /\ n \in Nat
        /\ i \in Nat /\ i <= Len(c.files) /\ Len(c.files) \in Nat
    BY WholeFacts DEF WellFormed, Shape, ControlFile
  <1>2. ln \in LogLine /\ ln.mark = "FT" /\ ln.id = i /\ ln.features = F
    BY <1>1, LineTypes
  <1> HIDE DEF ln
  <1>3. /\ d \in ControlFile /\ d.log = Append(c.log, ln)
        /\ d.files = c.files /\ d.first = c.first
    BY <1>1, <1>2, AppendToFile
  <1>4. /\ DOMAIN d.log = 1 .. n + 1 /\ DOMAIN c.log = 1 .. n
        /\ \A l \in 1 .. n : d.log[l] = c.log[l]
        /\ d.log[n + 1] = ln
    BY <1>1, <1>2, <1>3
  <1>5. Parses(d)
    <2>1. c.files # <<>> BY <1>1
    <2> QED BY <1>1, <1>2, <2>1, WholeFacts, AppendParses
  <1>6. Shape(d) /\ Whole(d)
    <2>1. ln.id \in 1 .. Len(c.files) /\ Shape(c) /\ "CUT" \notin Marks(c)
      BY <1>1, <1>2, WholeFacts DEF WellFormed
    <2>2. Shape(d) /\ Marks(d) = Marks(c) \cup {ln.mark} BY <1>2, <2>1, AppendKeepsShape
    <2> QED BY <1>2, <2>2 DEF Whole
  <1> HIDE DEF d
  <1>7. NumStarted(d) = i BY <1>1, <1>2, <1>3, StartedAppend DEF NumStarted
  <1>8. FTLines(d) = FTLines(c) \cup {n + 1} BY <1>1, <1>2, <1>4 DEF FTLines
  <1>9. \A l \in FTLines(c) : d.log[l] = c.log[l] BY <1>4 DEF FTLines
  <1>10. Recorded(d) = Recorded(c) \cup F BY <1>2, <1>4, <1>8, <1>9 DEF Recorded
  <1>11. \A l \in DOMAIN d.log : d.log[l].id \in 1 .. NumStarted(d)
    BY <1>1, <1>2, <1>4, <1>7, WholeFacts DEF InTurn
  <1>12. \A j : RecordedUpTo(c, j) \subseteq RecordedUpTo(d, j)
    BY <1>8, <1>9 DEF RecordedUpTo
  <1>13. RecordedUpTo(d, i) = Recorded(d)
    <2>1. \A l \in FTLines(d) : d.log[l].id <= i BY <1>1, <1>7, <1>11 DEF FTLines
    <2> QED BY <2>1 DEF RecordedUpTo, Recorded
  <1>14. \A l \in FTLines(d) : /\ d.log[l].features \subseteq FeaturesOf[d.files[d.log[l].id]]
                               /\ FeaturesOf[d.files[d.log[l].id]] \subseteq RecordedUpTo(d, d.log[l].id)
    <2>1. \A l \in FTLines(c) : /\ c.log[l].features \subseteq FeaturesOf[c.files[c.log[l].id]]
                                /\ FeaturesOf[c.files[c.log[l].id]] \subseteq RecordedUpTo(c, c.log[l].id)
      BY WholeFacts DEF InTurn
    <2>2. ASSUME NEW l \in FTLines(c)
          PROVE  /\ d.log[l].features \subseteq FeaturesOf[d.files[d.log[l].id]]
                 /\ FeaturesOf[d.files[d.log[l].id]] \subseteq RecordedUpTo(d, d.log[l].id)
      <3>1. d.log[l] = c.log[l] /\ d.files = c.files BY <1>3, <1>9
      <3> QED BY <1>12, <2>1, <3>1
    <2>3. /\ d.log[n + 1].features \subseteq FeaturesOf[d.files[d.log[n + 1].id]]
          /\ FeaturesOf[d.files[d.log[n + 1].id]] \subseteq RecordedUpTo(d, d.log[n + 1].id)
      BY <1>2, <1>3, <1>4, <1>10, <1>13
    <2> QED BY <1>8, <2>2, <2>3
  <1>15. WellFormed(d)
    <2>1. InTurn(d) BY <1>1, <1>3, <1>7, <1>11, <1>14 DEF InTurn
    <2> QED BY <1>5, <1>6, <2>1 DEF WellFormed
  <1>16. RecordedNames(d) = RecordedNames(c) \cup {c.files[i]}
    <2>1. \A l \in FTLines(d) :
             d.files[d.log[l].id] = IF l = n + 1 THEN c.files[i] ELSE c.files[c.log[l].id]
      BY <1>2, <1>3, <1>4, <1>8, <1>9
    <2>2. n + 1 \notin FTLines(c) BY <1>1, <1>4 DEF FTLines
    <2>3. {d.files[d.log[l].id] : l \in FTLines(d)} = {c.files[c.log[l].id] : l \in FTLines(c)} \cup {c.files[i]}
      BY <1>8, <2>1, <2>2
    <2> QED BY <1>6, <1>15, <2>3, NamesOfLines
  <1> QED BY <1>6, <1>7, <1>10, <1>15, <1>16 DEF d, ln

-----------------------------------------------------------------------------
(* A new control file *)

(* The rank of a position among the used ones counts them without a gap.   *)
LEMMA RanksAreTaken ==
    ASSUME NEW n \in Nat, NEW used \in SUBSET (1 .. n)
    PROVE  \A k \in 1 .. Cardinality(used) :
               \E i \in used : Cardinality({j \in used : j <= i}) = k
  <1> DEFINE Below(i) == {j \in used : j <= i}
             rank == [i \in used |-> Cardinality(Below(i))]
  <1>1. IsFiniteSet(used) /\ Cardinality(used) \in Nat /\ used \subseteq Nat
    <2>1. IsFiniteSet(1 .. n) BY FS_Interval
    <2>2. IsFiniteSet(used) BY <2>1, FS_Subset
    <2> QED BY <2>2, FS_CardinalityType
  <1>2. \A i \in used : /\ IsFiniteSet(Below(i)) /\ Cardinality(Below(i)) \in Nat
                        /\ Cardinality(Below(i)) <= Cardinality(used)
                        /\ Cardinality(Below(i)) # 0
    <2> TAKE i \in used
    <2>1. Below(i) \subseteq used /\ i \in Below(i) BY <1>1
    <2> QED BY <1>1, <2>1, FS_Subset, FS_CardinalityType, FS_EmptySet
  <1>3. rank \in [used -> 1 .. Cardinality(used)] BY <1>1, <1>2
  <1>4. ASSUME NEW i \in used, NEW j \in used, i < j PROVE rank[i] # rank[j]
    <2>1. Below(i) \subseteq Below(j) /\ j \in Below(j) /\ j \notin Below(i)
      <3>1. i \in Nat /\ j \in Nat BY <1>1
      <3>2. \A k \in used : k <= i => k <= j BY <1>1, <1>4, <3>1
      <3>3. Below(i) \subseteq Below(j) BY <3>2
      <3>4. j \in Below(j) /\ j \notin Below(i) BY <1>4, <3>1
      <3> QED BY <3>3, <3>4
    <2>2. Below(i) # Below(j) BY <2>1
    <2> QED BY <1>2, <2>1, <2>2, FS_Subset
  <1>5. IsInjective(rank)
    <2>1. \A i, j \in used : i < j \/ j < i \/ i = j BY <1>1
    <2> QED BY <1>4, <2>1 DEF IsInjective
  <1>6. rank \in Surjection(used, 1 .. Cardinality(used))
    <2>1. rank \in Injection(used, 1 .. Cardinality(used)) BY <1>3, <1>5 DEF Injection
    <2>2. IsFiniteSet(1 .. Cardinality(used)) /\ Cardinality(1 .. Cardinality(used)) = Cardinality(used)
      BY <1>1, FS_Interval
    <2> QED BY <2>1, <2>2, FS_Injection
  <1> QED BY <1>6 DEF Surjection

LEMMA WithoutProperties ==
    ASSUME NEW s \in Seq(Inputs), IsInjective(s), NEW skip
    PROVE  /\ Without(s, skip) \in Seq(Inputs)
           /\ IsInjective(Without(s, skip))
           /\ Range(Without(s, skip)) \subseteq Range(s) \ Range(skip)
  <1> DEFINE used == {i \in DOMAIN s : s[i] \notin Range(skip)}
             Rank(i) == Cardinality({j \in used : j <= i})
             Nth(k) == CHOOSE i \in used : Rank(i) = k
             size == Cardinality(used)
  <1>1. DOMAIN s = 1 .. Len(s) /\ Len(s) \in Nat /\ \A i \in DOMAIN s : s[i] \in Inputs
    OBVIOUS
  <1>2. used \in SUBSET (1 .. Len(s)) BY <1>1
  <1>3. size \in Nat
    <2>1. IsFiniteSet(1 .. Len(s)) BY <1>1, FS_Interval
    <2>2. IsFiniteSet(used) BY <1>2, <2>1, FS_Subset
    <2> QED BY <2>2, FS_CardinalityType
  <1>4. \A k \in 1 .. size : Nth(k) \in used /\ Rank(Nth(k)) = k
    <2>1. \A k \in 1 .. size : \E i \in used : Rank(i) = k BY <1>1, <1>2, RanksAreTaken
    <2> HIDE DEF used, Rank
    <2> QED BY <2>1
  <1>5. Without(s, skip) = [k \in 1 .. size |-> s[Nth(k)]] BY DEF Without
  <1> HIDE DEF size, Nth, Rank
  <1>6. \A k \in 1 .. size : Nth(k) \in DOMAIN s /\ s[Nth(k)] \in Range(s) \ Range(skip)
    BY <1>4 DEF Range
  <1>7. Without(s, skip) \in Seq(Inputs)
    <2>1. Without(s, skip) \in [1 .. size -> Inputs] BY <1>1, <1>5, <1>6
    <2> QED BY <1>3, <2>1, SeqDef
  <1>8. ASSUME NEW j \in 1 .. size, NEW k \in 1 .. size, s[Nth(j)] = s[Nth(k)]
        PROVE  j = k
    <2>1. Nth(j) = Nth(k) BY <1>6, <1>8 DEF IsInjective
    <2> QED BY <1>4, <2>1
  <1>9. IsInjective(Without(s, skip)) BY <1>5, <1>8 DEF IsInjective
  <1>10. Range(Without(s, skip)) \subseteq Range(s) \ Range(skip)
    <2>1. Range(Without(s, skip)) = {Without(s, skip)[k] : k \in 1 .. size} BY <1>5 DEF Range
    <2> QED BY <1>5, <1>6, <2>1
  <1> QED BY <1>7, <1>9, <1>10

LEMMA ConcatInjective ==
    ASSUME NEW s \in Seq(Inputs), NEW t \in Seq(Inputs)
    PROVE  IsInjective(s \o t) <=>
               IsInjective(s) /\ IsInjective(t) /\ Range(s) \cap Range(t) = {}
  <1> DEFINE m == Len(s)
             n == Len(t)
             st == s \o t
  <1>1. /\ m \in Nat /\ n \in Nat /\ DOMAIN s = 1 .. m /\ DOMAIN t = 1 .. n
        /\ st \in Seq(Inputs) /\ DOMAIN st = 1 .. m + n
        /\ \A i \in 1 .. m : st[i] = s[i]
        /\ \A i \in 1 .. n : st[m + i] = t[i]
    BY ConcatProperties
  <1> HIDE DEF m, n, st
  <1>2. ASSUME IsInjective(st)
        PROVE  IsInjective(s) /\ IsInjective(t) /\ Range(s) \cap Range(t) = {}
    <2>1. \A i \in 1 .. m : i \in 1 .. m + n BY <1>1
    <2>2. \A i \in 1 .. n : m + i \in 1 .. m + n BY <1>1
    <2>3. IsInjective(s) BY <1>1, <1>2, <2>1 DEF IsInjective
    <2>4. IsInjective(t)
      <3> SUFFICES ASSUME NEW i \in 1 .. n, NEW j \in 1 .. n, t[i] = t[j] PROVE i = j
        BY <1>1 DEF IsInjective
      <3>1. st[m + i] = st[m + j] BY <1>1
      <3>2. m + i = m + j BY <1>1, <1>2, <2>2, <3>1 DEF IsInjective
      <3> QED BY <1>1, <3>2
    <2>5. ASSUME NEW i \in 1 .. m, NEW j \in 1 .. n PROVE s[i] # t[j]
      <3>1. i # m + j BY <1>1
      <3> QED BY <1>1, <1>2, <2>1, <2>2, <3>1 DEF IsInjective
    <2> QED BY <1>1, <2>3, <2>4, <2>5 DEF Range
  <1>3. ASSUME IsInjective(s), IsInjective(t), Range(s) \cap Range(t) = {},
               NEW i \in 1 .. m + n, NEW j \in 1 .. m + n, st[i] = st[j]
        PROVE  i = j
    <2>1. \A k \in 1 .. m + n : k \in 1 .. m \/ (k - m \in 1 .. n /\ st[k] = t[k - m])
      <3> TAKE k \in 1 .. m + n
      <3>1. CASE k <= m BY <1>1, <3>1
      <3>2. CASE k > m
        <4>1. k - m \in 1 .. n /\ m + (k - m) = k BY <1>1, <3>2
        <4> QED BY <1>1, <4>1
      <3> QED BY <1>1, <3>1, <3>2
    <2>2. \A k \in 1 .. m : s[k] \in Range(s) BY <1>1 DEF Range
    <2>3. \A k \in 1 .. n : t[k] \in Range(t) BY <1>1 DEF Range
    <2>4. CASE i \in 1 .. m /\ j \in 1 .. m BY <1>1, <1>3, <2>4 DEF IsInjective
    <2>5. CASE i \in 1 .. m /\ j \notin 1 .. m BY <1>1, <1>3, <2>1, <2>2, <2>3, <2>5
    <2>6. CASE i \notin 1 .. m /\ j \in 1 .. m BY <1>1, <1>3, <2>1, <2>2, <2>3, <2>6
    <2>7. CASE i \notin 1 .. m /\ j \notin 1 .. m
      <3>1. i - m \in 1 .. n /\ j - m \in 1 .. n /\ t[i - m] = t[j - m] BY <1>3, <2>1, <2>7
      <3>2. i - m = j - m BY <1>1, <1>3, <3>1 DEF IsInjective
      <3> QED BY <1>1, <3>2
    <2> QED BY <2>4, <2>5, <2>6, <2>7
  <1> QED BY <1>1, <1>2, <1>3 DEF IsInjective, st

(* A new control file skips what is known already.                         *)
LEMMA NewFileWellFormed ==
    ASSUME NEW c \in Corpora, NEW skip
    PROVE  LET d == WriteNewControlFile(c.old, c.new, skip)
           IN  /\ WellFormed(d) /\ Whole(d) /\ d.log = <<>>
               /\ Range(d.files) \cap Range(skip) = {}
               /\ NumStarted(d) = 0 /\ RecordedNames(d) = {}
  <1> DEFINE old == Without(c.old, skip)
             new == Without(c.new, skip)
             d == WriteNewControlFile(c.old, c.new, skip)
  <1>1. /\ c.old \in Seq(Inputs) /\ c.new \in Seq(Inputs)
        /\ IsInjective(c.old) /\ IsInjective(c.new) /\ Range(c.old) \cap Range(c.new) = {}
    BY MergeAssumption, ConcatInjective
  <1>2. /\ old \in Seq(Inputs) /\ IsInjective(old) /\ Range(old) \subseteq Range(c.old) \ Range(skip)
        /\ new \in Seq(Inputs) /\ IsInjective(new) /\ Range(new) \subseteq Range(c.new) \ Range(skip)
    BY <1>1, WithoutProperties
  <1>3. d = [written |-> TRUE, files |-> old \o new, first |-> Len(old), log |-> <<>>]
    BY DEF WriteNewControlFile
  <1> HIDE DEF old, new, d
  <1>4. /\ old \o new \in Seq(Inputs) /\ Len(old) \in Nat /\ Len(old) <= Len(old \o new)
        /\ Len(old \o new) \in Nat
    BY <1>2
  <1>5. IsInjective(old \o new) BY <1>1, <1>2, ConcatInjective
  <1>6. Range(old \o new) \cap Range(skip) = {}
    <2>1. Range(old \o new) = Range(old) \cup Range(new) BY <1>2, RangeConcatenation
    <2> QED BY <1>2, <2>1
  <1>7. d \in ControlFile BY <1>3, <1>4 DEF ControlFile
  <1>8. StartedLines(d.log) = {} /\ FTLines(d) = {} /\ DOMAIN d.log = {}
    BY <1>3 DEF StartedLines, FTLines
  <1>9. NumStarted(d) = 0 BY <1>8, FS_EmptySet DEF NumStarted
  <1>10. d.files # <<>> => Parses(d) BY <1>3, <1>4, <1>8 DEF Parses
  <1>11. WellFormed(d)
    <2>1. d.first = Len(old) /\ d.files = old \o new BY <1>3
    <2>2. d.first <= Len(d.files) /\ NumStarted(d) <= Len(d.files) /\ IsInjective(d.files)
      BY <1>4, <1>5, <1>9, <2>1
    <2>3. Shape(d) BY <1>7, <1>8, <2>2 DEF Shape
    <2>4. InTurn(d) BY <1>8, <2>2 DEF InTurn
    <2> QED BY <1>10, <2>3, <2>4 DEF WellFormed
  <1>12. Whole(d) BY <1>8 DEF Whole, Marks
  <1>13. RecordedNames(d) = {} BY <1>8, <1>11, <1>12, NamesOfLines
  <1>14. d.log = <<>> /\ Range(d.files) \cap Range(skip) = {} BY <1>3, <1>6
  <1> QED BY <1>9, <1>11, <1>12, <1>13, <1>14 DEF d

LEMMA NoFileWellFormed ==
    \A c \in {NoControlFile, TornControlFile} :
        /\ WellFormed(c) /\ Whole(c) /\ c.files = <<>> /\ c.first = 0 /\ c.log = <<>>
        /\ Range(c.files) = {} /\ NumStarted(c) = 0 /\ RecordedNames(c) = {}
  <1> TAKE c \in {NoControlFile, TornControlFile}
  <1>1. c \in ControlFile /\ c.files = <<>> /\ c.first = 0 /\ c.log = <<>>
    <2>1. <<>> \in Seq(Inputs) /\ <<>> \in Seq(LogLine) BY EmptySeq
    <2>2. NoControlFile \in ControlFile BY <2>1 DEF NoControlFile, ControlFile
    <2>3. /\ NoControlFile.files = <<>> /\ NoControlFile.first = 0 /\ NoControlFile.log = <<>>
      BY DEF NoControlFile
    <2>4. TRUE \in BOOLEAN OBVIOUS
    <2>5. TornControlFile \in ControlFile
      BY <2>2, <2>4 DEF TornControlFile, ControlFile
    <2>6. /\ TornControlFile.files = <<>> /\ TornControlFile.first = 0 /\ TornControlFile.log = <<>>
      BY <2>2, <2>3 DEF TornControlFile, ControlFile
    <2> QED BY <2>2, <2>3, <2>5, <2>6
  <1>2. StartedLines(c.log) = {} /\ FTLines(c) = {} BY <1>1 DEF StartedLines, FTLines
  <1>3. NumStarted(c) = 0 BY <1>2, FS_EmptySet DEF NumStarted
  <1>4. WellFormed(c)
    <2>1. Shape(c) BY <1>1 DEF Shape, IsInjective
    <2>2. InTurn(c) BY <1>1, <1>2, <1>3 DEF InTurn
    <2> QED BY <1>1, <2>1, <2>2 DEF WellFormed
  <1>5. Whole(c) BY <1>1 DEF Whole, Marks
  <1>6. RecordedNames(c) = {} BY <1>2, <1>4, <1>5, NamesOfLines
  <1> QED BY <1>1, <1>3, <1>4, <1>5, <1>6 DEF Range

-----------------------------------------------------------------------------
(* The choice of the merge *)

LEMMA LeastNumber ==
    ASSUME NEW T \in SUBSET Nat, T # {}
    PROVE  \E k \in T : \A j \in T : k <= j
  <1>1. IsWellFoundedOn(OpToRel(<, Nat), Nat) BY NatLessThanWellFounded
  <1>2. PICK k \in T : \A j \in T : <<j, k>> \notin OpToRel(<, Nat) BY <1>1, WFMin
  <1>3. \A j \in T : ~(j < k) BY <1>2 DEF OpToRel
  <1> QED BY <1>3

(* Whatever order std::sort leaves, what the files show between them is    *)
(* shown by the chosen ones, and each of those shows something.            *)
LEMMA GreedyCovers ==
    ASSUME NEW S, IsFiniteSet(S), NEW p \in Sorted(S)
    PROVE  /\ \A u \in Greedy(p) : \E f \in S : f.name = u /\ f.features # {}
           /\ \A x \in AllFeatures(S) : \E f \in S : f.name \in Greedy(p) /\ x \in f.features
  <1> DEFINE n == Cardinality(S)
  <1>1. n \in Nat BY FS_CardinalityType
  <1>2. /\ p \in [1 .. n -> S] /\ DOMAIN p = 1 .. n
        /\ \A i, j \in 1 .. n : i < j => p[i] # p[j]
    BY DEF Sorted
  <1>3. \A f \in S : \E i \in 1 .. n : p[i] = f
    <2>1. \A i, j \in 1 .. n : p[i] = p[j] => i = j
      <3> SUFFICES ASSUME NEW i \in 1 .. n, NEW j \in 1 .. n, p[i] = p[j] PROVE i = j
        OBVIOUS
      <3>1. ~(i < j) /\ ~(j < i) BY <1>2
      <3> QED BY <1>1, <3>1
    <2>2. p \in Injection(1 .. n, S) BY <1>2, <2>1 DEF Injection, IsInjective
    <2>3. IsFiniteSet(1 .. n) /\ Cardinality(1 .. n) = n BY <1>1, FS_Interval
    <2>4. p \in Surjection(1 .. n, S) BY <2>2, <2>3, FS_Injection
    <2> QED BY <2>4 DEF Surjection
  <1> HIDE DEF n
  <1>4. ASSUME NEW u \in Greedy(p) PROVE \E f \in S : f.name = u /\ f.features # {}
    <2>1. PICK i \in 1 .. n : u = p[i].name /\ ~(p[i].features \subseteq UNION {p[j].features : j \in 1 .. i - 1})
      BY <1>2 DEF Greedy
    <2> QED BY <1>2, <2>1
  <1>5. ASSUME NEW x \in AllFeatures(S)
        PROVE  \E f \in S : f.name \in Greedy(p) /\ x \in f.features
    <2> DEFINE T == {i \in 1 .. n : x \in p[i].features}
    <2>1. PICK f \in S : x \in f.features BY DEF AllFeatures
    <2>2. T # {} /\ T \subseteq Nat BY <1>1, <1>3, <2>1
    <2>3. PICK k \in T : \A j \in T : k <= j BY <2>2, LeastNumber
    <2>4. k \in 1 .. n /\ x \in p[k].features OBVIOUS
    <2>5. x \notin UNION {p[j].features : j \in 1 .. k - 1}
      <3> SUFFICES ASSUME NEW j \in 1 .. k - 1, x \in p[j].features PROVE FALSE
        OBVIOUS
      <3>1. j \in T BY <1>1, <2>4
      <3> QED BY <1>1, <2>3, <2>4, <3>1
    <2>6. p[k].name \in Greedy(p) BY <1>2, <2>4, <2>5 DEF Greedy
    <2> QED BY <1>2, <2>4, <2>6
  <1> QED BY <1>4, <1>5

FirstNames(c) == {c.files[i] : i \in 1 .. c.first}
WaitingNames(c) == {c.files[i] : i \in FirstNotProcessedFile(c) .. Len(c.files)}
FileOf(c, i) == [name |-> c.files[i], features |-> UNION {c.log[l].features : l \in FeatureLines(c, i)}]

LEMMA FilesAre ==
    ASSUME NEW c, Shape(c), NEW ids \in SUBSET DOMAIN c.files
    PROVE  /\ Files(c, ids) = {FileOf(c, i) : i \in ids}
           /\ IsFiniteSet(Files(c, ids))
  <1>1. Files(c, ids) = {FileOf(c, i) : i \in ids} BY DEF Files, FileOf
  <1>2. IsFiniteSet(ids)
    <2>1. DOMAIN c.files = 1 .. Len(c.files) /\ Len(c.files) \in Nat
      BY DEF Shape, ControlFile
    <2>2. IsFiniteSet(1 .. Len(c.files)) BY <2>1, FS_Interval
    <2> QED BY <2>1, <2>2, FS_Subset
  <1> DEFINE f == [i \in ids |-> FileOf(c, i)]
  <1>3. f \in Surjection(ids, Files(c, ids)) BY <1>1 DEF Surjection
  <1> HIDE DEF f
  <1>4. IsFiniteSet(Files(c, ids)) BY <1>2, <1>3, FS_Surjection
  <1> QED BY <1>1, <1>4

LEMMA FileFacts ==
    ASSUME NEW c, Shape(c), NEW i \in DOMAIN c.files
    PROVE  /\ FileOf(c, i).name = c.files[i] /\ c.files[i] \in Inputs
           /\ FileOf(c, i).features # {} => c.files[i] \in RecordedNames(c)
  <1>1. c.files[i] \in Inputs BY DEF Shape, ControlFile
  <1>2. FileOf(c, i).features = UNION {c.log[l].features : l \in FeatureLines(c, i)}
    BY DEF FileOf
  <1>3. FileOf(c, i).features # {} => FeatureLines(c, i) # {} BY <1>2
  <1> QED BY <1>1, <1>2, <1>3 DEF FileOf, RecordedNames

LEMMA NamesAreInputs ==
    ASSUME NEW c, Shape(c)
    PROVE  /\ RecordedNames(c) \subseteq Range(c.files)
           /\ Range(c.files) \subseteq Inputs
           /\ FirstNames(c) \subseteq Inputs
  <1>1. c.files \in Seq(Inputs) /\ c.first \in Nat /\ c.first <= Len(c.files)
    BY DEF Shape, ControlFile
  <1>2. Range(c.files) \subseteq Inputs BY <1>1 DEF Range
  <1>3. FirstNames(c) \subseteq Inputs BY <1>1 DEF FirstNames
  <1> QED BY <1>2, <1>3 DEF Range, RecordedNames

(* What a log no kill has cut records of one input.                        *)
LEMMA RecordedFeatures ==
    ASSUME NEW c, WellFormed(c), Whole(c), NEW i \in DOMAIN c.files
    PROVE  /\ FileOf(c, i).features \subseteq FeaturesOf[c.files[i]]
           /\ \A l \in FTLines(c) : c.log[l].id = i => c.log[l].features \subseteq FileOf(c, i).features
  <1>1. FeatureLines(c, i) = {l \in FTLines(c) : c.log[l].id = i}
    BY DEF FeatureLines, FTLines, Whole, Marks
  <1>2. \A l \in FeatureLines(c, i) : c.log[l].features \subseteq FeaturesOf[c.files[i]]
    BY <1>1, WholeFacts DEF InTurn
  <1> QED BY <1>1, <1>2 DEF FileOf

(* And of all, and of those that ran before one.                           *)
LEMMA RecordedAre ==
    ASSUME NEW c, WellFormed(c), Whole(c)
    PROVE  /\ FeaturesOfAll(RecordedNames(c)) = UNION {FileOf(c, i).features : i \in DOMAIN c.files}
           /\ FeaturesOfAll(FirstNames(c) \cap RecordedNames(c))
                 = UNION {FileOf(c, i).features : i \in 1 .. c.first}
  <1>1. /\ c.files \in Seq(Inputs) /\ c.first \in Nat /\ c.first <= Len(c.files) /\ Len(c.files) \in Nat
        /\ DOMAIN c.files = 1 .. Len(c.files) /\ IsInjective(c.files)
    BY DEF WellFormed, Shape, ControlFile
  <1>2. /\ InTurn(c) /\ NumStarted(c) \in Nat /\ NumStarted(c) <= Len(c.files)
    BY WholeFacts
  <1>3. \A l \in FTLines(c) : c.log[l].id \in DOMAIN c.files
    BY <1>1, <1>2 DEF InTurn, FTLines
  <1>4. \A i \in DOMAIN c.files : /\ FileOf(c, i).features \subseteq FeaturesOf[c.files[i]]
                                  /\ FileOf(c, i).features # {} => c.files[i] \in RecordedNames(c)
    BY FileFacts, RecordedFeatures DEF WellFormed
  <1>5. ASSUME NEW l \in FTLines(c), NEW x \in FeaturesOf[c.files[c.log[l].id]]
        PROVE  \E i \in DOMAIN c.files : i <= c.log[l].id /\ x \in FileOf(c, i).features
    <2>1. x \in RecordedUpTo(c, c.log[l].id) BY <1>2 DEF InTurn
    <2>2. PICK m \in FTLines(c) : c.log[m].id <= c.log[l].id /\ x \in c.log[m].features
      BY <2>1 DEF RecordedUpTo
    <2> QED BY <1>3, <2>2, RecordedFeatures
  <1>6. ASSUME NEW u \in RecordedNames(c)
        PROVE  \E l \in FTLines(c) : u = c.files[c.log[l].id]
    BY NamesOfLines
  <1>7. FeaturesOfAll(RecordedNames(c)) = UNION {FileOf(c, i).features : i \in DOMAIN c.files}
    <2>1. ASSUME NEW u \in RecordedNames(c), NEW x \in FeaturesOf[u]
          PROVE  \E i \in DOMAIN c.files : x \in FileOf(c, i).features
      <3>1. PICK l \in FTLines(c) : u = c.files[c.log[l].id] BY <1>6
      <3> QED BY <1>5, <3>1
    <2>2. ASSUME NEW i \in DOMAIN c.files, NEW x \in FileOf(c, i).features
          PROVE  \E u \in RecordedNames(c) : x \in FeaturesOf[u]
      BY <1>4
    <2> QED BY <2>1, <2>2 DEF FeaturesOfAll
  <1>8. FeaturesOfAll(FirstNames(c) \cap RecordedNames(c)) = UNION {FileOf(c, i).features : i \in 1 .. c.first}
    <2>1. ASSUME NEW u \in FirstNames(c) \cap RecordedNames(c), NEW x \in FeaturesOf[u]
          PROVE  \E i \in 1 .. c.first : x \in FileOf(c, i).features
      <3>1. PICK l \in FTLines(c) : u = c.files[c.log[l].id] BY <1>6
      <3>2. PICK j \in 1 .. c.first : u = c.files[j] BY DEF FirstNames
      <3>3. j \in DOMAIN c.files BY <1>1
      <3>4. c.log[l].id = j BY <1>1, <1>3, <3>1, <3>2, <3>3 DEF IsInjective
      <3>5. PICK i \in DOMAIN c.files : i <= j /\ x \in FileOf(c, i).features BY <1>5, <3>1, <3>4
      <3>6. i \in 1 .. c.first BY <1>1, <3>5
      <3> QED BY <3>5, <3>6
    <2>2. ASSUME NEW i \in 1 .. c.first, NEW x \in FileOf(c, i).features
          PROVE  \E u \in FirstNames(c) \cap RecordedNames(c) : x \in FeaturesOf[u]
      <3>1. i \in DOMAIN c.files BY <1>1
      <3>2. c.files[i] \in FirstNames(c) BY DEF FirstNames
      <3> QED BY <1>4, <3>1, <3>2
    <2> QED BY <2>1, <2>2 DEF FeaturesOfAll
  <1> QED BY <1>7, <1>8

(* What Merger::Merge works on, and what it makes of it.                   *)
MergeInput(c) == Files(c, 1 .. c.first)
MergeOthers(c, k) == Files(c, c.first + 1 .. Len(c.files)) \cup AllFiles(k)

LEMMA OthersAre ==
    ASSUME NEW c, Shape(c), NEW k, Shape(k)
    PROVE  /\ MergeInput(c) = {FileOf(c, i) : i \in 1 .. c.first}
           /\ MergeOthers(c, k) = {FileOf(c, i) : i \in c.first + 1 .. Len(c.files)} \cup {FileOf(k, i) : i \in DOMAIN k.files}
           /\ IsFiniteSet(MergeOthers(c, k))
           /\ 1 .. c.first \subseteq DOMAIN c.files
           /\ c.first + 1 .. Len(c.files) \subseteq DOMAIN c.files
  <1>1. /\ DOMAIN c.files = 1 .. Len(c.files) /\ Len(c.files) \in Nat
        /\ c.first \in Nat /\ c.first <= Len(c.files)
    BY DEF Shape, ControlFile
  <1>2. 1 .. c.first \subseteq DOMAIN c.files /\ c.first + 1 .. Len(c.files) \subseteq DOMAIN c.files
    BY <1>1
  <1>3. /\ Files(c, 1 .. c.first) = {FileOf(c, i) : i \in 1 .. c.first}
        /\ Files(c, c.first + 1 .. Len(c.files)) = {FileOf(c, i) : i \in c.first + 1 .. Len(c.files)}
        /\ IsFiniteSet(Files(c, c.first + 1 .. Len(c.files)))
    BY <1>2, FilesAre
  <1>4. AllFiles(k) = {FileOf(k, i) : i \in DOMAIN k.files} /\ IsFiniteSet(AllFiles(k))
    BY FilesAre DEF AllFiles
  <1> QED BY <1>2, <1>3, <1>4, FS_Union DEF MergeInput, MergeOthers

Rest(others, old) == {[f EXCEPT !.features = @ \ old] : f \in others}

LEMMA RestIs ==
    ASSUME NEW others, IsFiniteSet(others), NEW old,
           \A f \in others : f \in [name : Inputs, features : SUBSET Nat]
    PROVE  /\ IsFiniteSet(Rest(others, old))
           /\ \A g \in Rest(others, old) :
                  \E f \in others : g.name = f.name /\ g.features = f.features \ old
           /\ AllFeatures(Rest(others, old)) = AllFeatures(others) \ old
  <1> DEFINE without(f) == [f EXCEPT !.features = @ \ old]
             rest == {without(f) : f \in others}
             h == [f \in others |-> without(f)]
  <1>1. \A f \in others : without(f).name = f.name /\ without(f).features = f.features \ old
    OBVIOUS
  <1>2. h \in Surjection(others, rest) BY DEF Surjection
  <1> HIDE DEF h, without
  <1>3. IsFiniteSet(rest)
    <2> HIDE DEF rest
    <2> QED BY <1>2, FS_Surjection
  <1>4. \A g \in rest : \E f \in others : g.name = f.name /\ g.features = f.features \ old
    BY <1>1
  <1>5. AllFeatures(rest) = AllFeatures(others) \ old BY <1>1 DEF AllFeatures
  <1>6. Rest(others, old) = rest BY DEF Rest, without
  <1> HIDE DEF rest
  <1> QED BY <1>3, <1>4, <1>5, <1>6

LEMMA FilesAreTyped ==
    ASSUME NEW c, Shape(c), NEW i \in DOMAIN c.files
    PROVE  FileOf(c, i) \in [name : Inputs, features : SUBSET Nat]
  <1>1. c.files[i] \in Inputs /\ c.log \in Seq(LogLine) BY DEF Shape, ControlFile
  <1>2. \A l \in FeatureLines(c, i) : c.log[l].features \subseteq Nat
    <2>1. \A l \in DOMAIN c.log : c.log[l] \in LogLine BY <1>1
    <2>2. \A ln \in LogLine : ln.features \subseteq Nat BY DEF LogLine
    <2> QED BY <2>1, <2>2 DEF FeatureLines
  <1>3. UNION {c.log[l].features : l \in FeatureLines(c, i)} \in SUBSET Nat BY <1>2
  <1> QED BY <1>1, <1>3 DEF FileOf

(* Merger::Merge chooses files that something is recorded of, even of a    *)
(* control file that a kill damaged.                                       *)
LEMMA ChosenAreRecorded ==
    ASSUME NEW c, Shape(c), NEW k, Shape(k),
           NEW r \in MergeResults(MergeInput(c), MergeOthers(c, k))
    PROVE  r.files \subseteq RecordedNames(c) \cup RecordedNames(k)
  <1> DEFINE others == MergeOthers(c, k)
             old == InitialFeatures \cup AllFeatures(MergeInput(c))
             rest == Rest(others, old)
  <1>1. PICK p \in Sorted(rest) : r.files = Greedy(p) BY DEF MergeResults, Rest
  <1>2. /\ others = {FileOf(c, i) : i \in c.first + 1 .. Len(c.files)} \cup {FileOf(k, i) : i \in DOMAIN k.files}
        /\ IsFiniteSet(others) /\ c.first + 1 .. Len(c.files) \subseteq DOMAIN c.files
    BY OthersAre
  <1>3. \A f \in others : /\ f \in [name : Inputs, features : SUBSET Nat]
                          /\ f.features # {} => f.name \in RecordedNames(c) \cup RecordedNames(k)
    BY <1>2, FileFacts, FilesAreTyped
  <1> HIDE DEF others, old
  <1>4. /\ IsFiniteSet(rest)
        /\ \A g \in rest : \E f \in others : g.name = f.name /\ g.features = f.features \ old
    <2>1. IsFiniteSet(others) /\ \A f \in others : f \in [name : Inputs, features : SUBSET Nat]
      BY <1>2, <1>3
    <2> QED BY ONLY <2>1, RestIs
  <1> HIDE DEF rest
  <1> SUFFICES ASSUME NEW u \in Greedy(p) PROVE u \in RecordedNames(c) \cup RecordedNames(k)
    BY <1>1
  <1>5. PICK g \in rest : g.name = u /\ g.features # {} BY <1>4, GreedyCovers
  <1>6. PICK f \in others : g.name = f.name /\ g.features = f.features \ old BY <1>4
  <1> QED BY <1>3, <1>5, <1>6

(* Of whole ones it makes a merge: the features it returns are those nobody*)
(* knew, and none is lost.                                                 *)
LEMMA MergeIsChoice ==
    ASSUME NEW c, WellFormed(c), Whole(c), NEW k, WellFormed(k), Whole(k),
           Range(c.files) \cap Range(k.files) = {},
           NEW r \in MergeResults(MergeInput(c), MergeOthers(c, k))
    PROVE  IsMerge(InitialFeatures, FirstNames(c), RecordedNames(c) \cup RecordedNames(k), r.files, r.features)
  <1> DEFINE others == MergeOthers(c, k)
             old == InitialFeatures \cup AllFeatures(MergeInput(c))
             rest == Rest(others, old)
             R == RecordedNames(c) \cup RecordedNames(k)
             F == FirstNames(c)
  <1>1. Shape(c) /\ Shape(k) BY DEF WellFormed
  <1>2. PICK p \in Sorted(rest) : r.files = Greedy(p) /\ r.features = AllFeatures(rest)
    BY DEF MergeResults, Rest
  <1>3. /\ MergeInput(c) = {FileOf(c, i) : i \in 1 .. c.first}
        /\ others = {FileOf(c, i) : i \in c.first + 1 .. Len(c.files)} \cup {FileOf(k, i) : i \in DOMAIN k.files}
        /\ IsFiniteSet(others)
        /\ 1 .. c.first \subseteq DOMAIN c.files /\ c.first + 1 .. Len(c.files) \subseteq DOMAIN c.files
    BY <1>1, OthersAre
  <1>4. \A f \in others : /\ f \in [name : Inputs, features : SUBSET Nat]
                          /\ f.features \subseteq FeaturesOf[f.name]
    <2>1. \A d \in {c, k} : \A i \in DOMAIN d.files :
             /\ FileOf(d, i) \in [name : Inputs, features : SUBSET Nat]
             /\ FileOf(d, i).features \subseteq FeaturesOf[FileOf(d, i).name]
      BY <1>1, FileFacts, FilesAreTyped, RecordedFeatures
    <2> QED BY <1>3, <2>1
  <1>5. DOMAIN c.files = (1 .. c.first) \cup (c.first + 1 .. Len(c.files))
    BY <1>1 DEF Shape, ControlFile
  <1>6. F \cap R = F \cap RecordedNames(c)
    <2>1. F \subseteq Range(c.files) BY <1>3 DEF FirstNames, Range
    <2>2. RecordedNames(k) \subseteq Range(k.files) BY <1>1, NamesAreInputs
    <2> QED BY <2>1, <2>2
  <1>7. FeaturesOfAll(F \cap R) = AllFeatures(MergeInput(c))
    BY <1>3, <1>6, RecordedAre DEF AllFeatures
  <1>8. FeaturesOfAll(R) = AllFeatures(MergeInput(c)) \cup AllFeatures(others)
    <2>1. FeaturesOfAll(R) = FeaturesOfAll(RecordedNames(c)) \cup FeaturesOfAll(RecordedNames(k))
      BY DEF FeaturesOfAll
    <2> DEFINE Shown(d, S) == UNION {FileOf(d, i).features : i \in S}
    <2>2. FeaturesOfAll(RecordedNames(c)) = Shown(c, DOMAIN c.files) BY RecordedAre
    <2>3. FeaturesOfAll(RecordedNames(k)) = Shown(k, DOMAIN k.files) BY RecordedAre
    <2>4. AllFeatures(MergeInput(c)) = Shown(c, 1 .. c.first) BY <1>3 DEF AllFeatures
    <2>5. AllFeatures(others) = Shown(c, c.first + 1 .. Len(c.files)) \cup Shown(k, DOMAIN k.files)
      BY <1>3 DEF AllFeatures
    <2>6. Shown(c, DOMAIN c.files) = Shown(c, 1 .. c.first) \cup Shown(c, c.first + 1 .. Len(c.files))
      BY <1>5
    <2> HIDE DEF Shown, others, R
    <2> QED BY <2>1, <2>2, <2>3, <2>4, <2>5, <2>6
  <1>9. r.files \subseteq R BY <1>1, ChosenAreRecorded
  <1> HIDE DEF others, old
  <1>10. /\ IsFiniteSet(rest)
         /\ \A g \in rest : \E f \in others : g.name = f.name /\ g.features = f.features \ old
         /\ AllFeatures(rest) = AllFeatures(others) \ old
    <2>1. IsFiniteSet(others) /\ \A f \in others : f \in [name : Inputs, features : SUBSET Nat]
      BY <1>3, <1>4
    <2> QED BY ONLY <2>1, RestIs
  <1> HIDE DEF rest
  <1>11. r.features = FeaturesOfAll(R) \ (InitialFeatures \cup FeaturesOfAll(F \cap R))
    BY <1>2, <1>7, <1>8, <1>10 DEF old
  <1>12. r.features \subseteq FeaturesOfAll(r.files)
    <2> SUFFICES ASSUME NEW x \in AllFeatures(rest) PROVE x \in FeaturesOfAll(Greedy(p))
      BY <1>2
    <2>1. PICK g \in rest : g.name \in Greedy(p) /\ x \in g.features BY <1>10, GreedyCovers
    <2>2. PICK f \in others : g.name = f.name /\ g.features = f.features \ old BY <1>10
    <2>3. x \in FeaturesOf[g.name] BY <1>4, <2>1, <2>2
    <2> QED BY <2>1, <2>3 DEF FeaturesOfAll
  <1> QED BY <1>9, <1>11, <1>12 DEF IsMerge

-----------------------------------------------------------------------------
(* Every step keeps the invariant *)

LEMMA CountIsNat == ASSUME NEW c, WellFormed(c)
                    PROVE  /\ NumStarted(c) \in Nat /\ Len(c.files) \in Nat
                           /\ c \in ControlFile
                           /\ c.files \in Seq(Inputs) /\ c.log \in Seq(LogLine)
                           /\ FirstNotProcessedFile(c) = NumStarted(c) + 1
                           /\ Shape(c)
  BY StartedFinite DEF WellFormed, Shape, ControlFile, NumStarted, FirstNotProcessedFile

InnerType == [pc : {"none", "loop", "running"}, at : Nat, seen : SUBSET Nat, ranOne : BOOLEAN]

LEMMA NoInnerType == NoInner \in InnerType /\ NoInner.pc = "none" /\ NoInner.ranOne = FALSE /\ NoInner.seen = {}
  BY DEF NoInner, InnerType

(* While no inner process runs, InnerFits says nothing of the log.         *)
LEMMA NoInnerFits ==
    ASSUME inner' = NoInner, outer' # "inner"
    PROVE  InnerFits'
  BY NoInnerType DEF InnerFits, InnerType

LEMMA MergeInvInit == MergeInit => MergeInv
  <1> SUFFICES ASSUME MergeInit PROVE MergeInv
    OBVIOUS
  <1>1. /\ WellFormed(cf) /\ WellFormed(known) /\ cf.files = <<>> /\ NumStarted(cf) = 0
        /\ Range(cf.files) = {}
    BY NoFileWellFormed DEF MergeInit
  <1>2. InnerFits BY NoInnerType DEF MergeInit, InnerFits, InnerType
  <1>3. AttemptsLast BY DEF MergeInit, AttemptsLast
  <1> QED BY <1>1, <1>2, <1>3 DEF MergeInit, MergeInv

LEMMA IdleHasNoInner == MergeInv /\ outer # "inner" => inner = NoInner
  BY DEF MergeInv, InnerFits

LEMMA StartKeeps ==
    ASSUME MergeInv, NEW c \in Corpora,
           NothingToDo(c) \/ Resume(c) \/ StartAfresh(c) \/ KilledWriting(c)
    PROVE  MergeInv'
  <1>1. /\ outer # "inner" /\ newFiles' = {} /\ inner' = inner /\ wasted' = 0
        /\ outer' \in {"nothing", "attempt", "idle"}
    BY DEF NothingToDo, Resume, StartAfresh, KilledWriting, StartMerge, Idle
  <1>2. inner' = NoInner BY <1>1, IdleHasNoInner
  <1>3. InnerFits' BY <1>1, <1>2, NoInnerFits
  <1>4. WellFormed(cf) /\ WellFormed(known) /\ Range(cf.files) \cap Range(known.files) = {}
    BY DEF MergeInv
  <1>5. /\ WellFormed(NoControlFile) /\ Range(NoControlFile.files) = {}
        /\ WellFormed(TornControlFile) /\ Range(TornControlFile.files) = {}
    BY NoFileWellFormed
  <1>6. inner'.ranOne = FALSE BY <1>2, NoInnerType
  <1>7. CASE NothingToDo(c)
    <2>1. outer' = "nothing" /\ UNCHANGED <<cf, attempts, known>> BY <1>7 DEF NothingToDo
    <2>2. AttemptsLast' BY <1>1, <2>1 DEF MergeInv, AttemptsLast
    <2>3. WellFormed(cf)' /\ WellFormed(known)' BY <1>4, <2>1
    <2> QED BY <1>1, <1>3, <1>4, <2>1, <2>2, <2>3 DEF MergeInv
  <1>8. CASE Resume(c)
    <2>1. /\ outer' = "attempt" /\ known' = NoControlFile /\ UNCHANGED cf
          /\ attempts' = Len(cf.files) - FirstNotProcessedFile(cf) + 1
          /\ ~(FirstNotProcessedFile(cf) > Len(cf.files))
      BY <1>8 DEF Resume, InProgress, Complete
    <2>2. attempts' = Len(cf.files) - NumStarted(cf) /\ attempts' \in Nat
      BY <1>4, <2>1, CountIsNat
    <2>3. Left' = attempts' BY <2>1, <2>2 DEF Left, NumStarted
    <2>4. AttemptsLast' BY <1>1, <1>6, <2>1, <2>2, <2>3 DEF AttemptsLast
    <2>5. WellFormed(cf)' /\ WellFormed(known)' BY <1>4, <1>5, <2>1
    <2> QED BY <1>1, <1>3, <1>5, <2>1, <2>4, <2>5 DEF MergeInv
  <1>9. CASE StartAfresh(c)
    <2>1. /\ outer' = "attempt" /\ known' = IF Parses(cf) THEN cf ELSE NoControlFile
          /\ cf' = WriteNewControlFile(c.old, c.new, known'.files)
          /\ attempts' = Len(cf'.files)
      BY <1>9 DEF StartAfresh
    <2>2. WellFormed(known') BY <1>4, <1>5, <2>1
    <2>3. /\ WellFormed(cf') /\ NumStarted(cf') = 0
          /\ Range(cf'.files) \cap Range(known'.files) = {}
      BY <2>1, NewFileWellFormed
    <2>4. Len(cf'.files) \in Nat BY <2>3, CountIsNat
    <2>5. Left' = attempts' BY <2>1, <2>3, <2>4 DEF Left
    <2>6. AttemptsLast'
      <3>1. outer' = "attempt" /\ attempts' \in Nat BY <2>1, <2>4
      <3>2. wasted' = 0 /\ (IF inner'.ranOne THEN 1 ELSE 0) = 0 BY <1>1, <1>6
      <3>3. PICK a \in Nat : a = attempts' BY <3>1
      <3>4. a + 0 >= a + 0 OBVIOUS
      <3>5. attempts' + 0 >= Left' + 0 BY <2>5, <3>3, <3>4, Zenon
      <3> QED BY <3>1, <3>2, <3>5 DEF AttemptsLast
    <2> QED BY <1>1, <1>3, <2>1, <2>2, <2>3, <2>6 DEF MergeInv
  <1>10. CASE KilledWriting(c)
    <2>1. outer' = "idle" /\ cf' = TornControlFile /\ known' = NoControlFile /\ attempts' = 0
      BY <1>10 DEF KilledWriting
    <2>2. AttemptsLast' BY <1>1, <2>1 DEF AttemptsLast
    <2> QED BY <1>1, <1>3, <1>5, <2>1, <2>2 DEF MergeInv
  <1> QED BY <1>7, <1>8, <1>9, <1>10

LEMMA LaunchKeeps == MergeInv /\ (LaunchInner \/ InnerCannotParse \/ OutOfAttempts) => MergeInv'
  <1> SUFFICES ASSUME MergeInv, LaunchInner \/ InnerCannotParse \/ OutOfAttempts PROVE MergeInv'
    OBVIOUS
  <1>1. UNCHANGED <<cf, known, newFiles, wasted>> /\ outer = "attempt" /\ inner = NoInner
    BY DEF LaunchInner, InnerCannotParse, OutOfAttempts, MergeInv, InnerFits
  <1>2. /\ WellFormed(cf) /\ FirstNotProcessedFile(cf) = NumStarted(cf) + 1 /\ NumStarted(cf) \in Nat
        /\ Len(cf.files) \in Nat
    BY CountIsNat DEF MergeInv
  <1>3. WellFormed(cf)' /\ WellFormed(known)' /\ (Range(cf.files) \cap Range(known.files) = {})'
    BY <1>1 DEF MergeInv
  <1>4. /\ Left' = Left /\ Left \in Int /\ Whole(cf') = Whole(cf) /\ inner.ranOne = FALSE
        /\ attempts \in Nat /\ wasted \in Nat
    BY <1>1, <1>2, NoInnerType DEF Left, NumStarted, MergeInv, AttemptsLast
  <1>5. Whole(cf) => attempts + wasted >= Left BY <1>1, <1>4 DEF MergeInv, AttemptsLast
  <1>6. CASE LaunchInner
    <2>1. inner' = [pc |-> "loop", at |-> NumStarted(cf) + 1, seen |-> {}, ranOne |-> FALSE]
      BY <1>2, <1>6 DEF LaunchInner, NoInner
    <2>2. outer' = "inner" /\ attempts > 0 /\ attempts' = attempts BY <1>6 DEF LaunchInner
    <2>3. InnerFits' BY <1>1, <1>2, <2>1, <2>2 DEF InnerFits
    <2>4. AttemptsLast' BY <1>1, <1>4, <1>5, <2>1, <2>2 DEF AttemptsLast
    <2> QED BY <1>1, <1>3, <2>2, <2>3, <2>4 DEF MergeInv
  <1>7. CASE InnerCannotParse
    <2>1. /\ outer' = "attempt" /\ inner' = NoInner /\ attempts' = attempts - 1 /\ attempts > 0
          /\ ~Parses(cf)
      BY <1>1, <1>7 DEF InnerCannotParse
    <2>2. InnerFits' BY <2>1, NoInnerFits
    <2>3. Whole(cf) => Left <= 0 BY <1>2, <2>1, WholeFacts, EmptySeq DEF Left
    <2>4. AttemptsLast' BY <1>1, <1>4, <2>1, <2>3, NoInnerType DEF AttemptsLast
    <2> QED BY <1>1, <1>3, <2>1, <2>2, <2>4 DEF MergeInv
  <1>8. CASE OutOfAttempts
    <2>1. outer' = "merge" /\ inner' = NoInner /\ attempts' = attempts BY <1>1, <1>8 DEF OutOfAttempts
    <2>2. InnerFits' BY <2>1, NoInnerFits
    <2>3. AttemptsLast' BY <1>1, <1>4, <2>1 DEF AttemptsLast
    <2> QED BY <1>1, <1>3, <2>1, <2>2, <2>3 DEF MergeInv
  <1> QED BY <1>6, <1>7, <1>8

LEMMA MergeKeeps == MergeInv /\ Merge => MergeInv'
  <1> SUFFICES ASSUME MergeInv, Merge PROVE MergeInv'
    OBVIOUS
  <1>1. UNCHANGED <<cf, attempts, known, inner, wasted>> /\ outer = "merge" /\ outer' \in {"done", "failed"}
    BY DEF Merge
  <1>2. newFiles' \subseteq Inputs
    <2>1. newFiles' = newFiles \/ \E r \in MergeResults(MergeInput(cf), MergeOthers(cf, known)) : newFiles' = r.files
      BY DEF Merge, MergeInput, MergeOthers
    <2>2. Shape(cf) /\ Shape(known) BY DEF MergeInv, WellFormed
    <2>3. RecordedNames(cf) \cup RecordedNames(known) \subseteq Inputs BY <2>2, NamesAreInputs
    <2> QED BY <2>1, <2>2, <2>3, ChosenAreRecorded DEF MergeInv
  <1>3. WellFormed(cf)' /\ WellFormed(known)' /\ (Range(cf.files) \cap Range(known.files) = {})'
    BY <1>1 DEF MergeInv
  <1>4. InnerFits'
    <2>1. inner' = NoInner BY <1>1, IdleHasNoInner
    <2> QED BY <1>1, <2>1, NoInnerFits
  <1>5. AttemptsLast' BY <1>1 DEF MergeInv, AttemptsLast
  <1> QED BY <1>1, <1>2, <1>3, <1>4, <1>5 DEF MergeInv

(* A STARTED line after the last one, or glued to the one that was cut.    *)
LEMMA BeginAppends ==
    ASSUME MergeInv, Begin
    PROVE  /\ WellFormed(cf') /\ cf'.files = cf.files /\ cf'.first = cf.first
           /\ "CUT" \notin Marks(cf')
           /\ Tidy(cf') => /\ cf'.log # <<>>
                           /\ cf'.log[Len(cf'.log)] = Line("STARTED", inner.at, {})
           /\ Whole(cf') => /\ Whole(cf) /\ inner.at = NumStarted(cf) + 1
                            /\ NumStarted(cf') = NumStarted(cf) + 1
                            /\ Recorded(cf') = Recorded(cf)
                            /\ RecordedNames(cf') = RecordedNames(cf)
  <1>1. /\ inner.pc = "loop" /\ inner.at \in 1 .. Len(cf.files) /\ WellFormed(cf)
        /\ Whole(cf) => inner.at = NumStarted(cf) + 1
    BY DEF Begin, MergeInv, InnerFits
  <1>2. /\ cf \in ControlFile /\ cf.log \in Seq(LogLine) /\ Len(cf.log) \in Nat /\ Shape(cf)
        /\ Len(cf.files) \in Nat /\ NumStarted(cf) \in Nat
    BY <1>1, CountIsNat
  <1> DEFINE n == Len(cf.log)
  <1>3. CASE cf.log # <<>> /\ Last(cf.log).mark = "CUT"
    <2>1. PICK m \in {"GLUED", "BAD"} : cf' = [cf EXCEPT !.log[Len(cf.log)].mark = m]
      BY <1>3 DEF Begin
    <2>2. n \in DOMAIN cf.log /\ n >= 1 /\ cf.log[n] \in LogLine BY <1>2, <1>3
    <2> DEFINE ln == [cf.log[n] EXCEPT !.mark = m]
               log == [cf.log EXCEPT ![n] = ln]
    <2>3. /\ ln \in LogLine /\ ln.mark = m /\ ln.id = cf.log[n].id
      BY <2>2 DEF LogLine
    <2> HIDE DEF ln
    <2>4. /\ log \in Seq(LogLine) /\ Len(log) = n /\ DOMAIN log = 1 .. n
          /\ log[n] = ln /\ \A l \in 1 .. n : l # n => log[l] = cf.log[l]
      <3>1. cf.log \in [1 .. n -> LogLine] BY <1>2
      <3>2. log \in [1 .. n -> LogLine] BY <2>3, <3>1
      <3>3. log \in Seq(LogLine) BY <1>2, <3>2, SeqDef
      <3>4. Len(log) = n BY <1>2, <3>2, <3>3, LenProperties
      <3> QED BY <1>2, <2>2, <2>3, <3>1, <3>2, <3>3, <3>4
    <2>5. cf' = [cf EXCEPT !.log = log] BY <2>1 DEF ln
    <2> HIDE DEF log
    <2>6. /\ cf' \in ControlFile /\ cf'.log = log /\ cf'.files = cf.files /\ cf'.first = cf.first
      BY <1>2, <2>4, <2>5 DEF ControlFile
    <2>7. \A l \in 1 .. n : log[l].id = cf.log[l].id BY <2>3, <2>4
    <2>8. \A l \in 1 .. n : log[l].mark # "CUT"
      <3>1. \A l \in 1 .. n : cf.log[l].mark = "CUT" => l = n BY <1>2 DEF Shape
      <3> QED BY <2>3, <2>4, <3>1
    <2>9. Shape(cf')
      <3>1. \A l \in 1 .. n : cf.log[l].id \in 1 .. Len(cf.files) BY <1>2 DEF Shape
      <3> QED BY <1>2, <2>4, <2>6, <2>7, <2>8, <3>1 DEF Shape
    <2>10. m \in Marks(cf') /\ "CUT" \notin Marks(cf')
      BY <2>2, <2>3, <2>4, <2>6, <2>8 DEF Marks
    <2>11. ~Tidy(cf') /\ ~Whole(cf') BY <2>10 DEF Tidy, Whole
    <2>12. WellFormed(cf') BY <2>9, <2>11 DEF WellFormed
    <2> QED BY <2>6, <2>10, <2>11, <2>12
  <1>4. CASE ~(cf.log # <<>> /\ Last(cf.log).mark = "CUT")
    <2> DEFINE ln == Line("STARTED", inner.at, {})
    <2>1. cf' = [cf EXCEPT !.log = Append(@, ln)] BY <1>4 DEF Begin
    <2>2. ln \in LogLine /\ ln.mark = "STARTED" /\ ln.id = inner.at BY <1>1, <1>2, LineTypes
    <2>3. "CUT" \notin Marks(cf)
      <3> SUFFICES ASSUME NEW l \in DOMAIN cf.log, cf.log[l].mark = "CUT" PROVE FALSE
        BY DEF Marks
      <3>1. l = n /\ cf.log # <<>> BY <1>2 DEF Shape
      <3> QED BY <1>4, <3>1 DEF Last
    <2> HIDE DEF ln
    <2>4. /\ cf' \in ControlFile /\ cf'.log = Append(cf.log, ln)
          /\ cf'.files = cf.files /\ cf'.first = cf.first
      BY <1>2, <2>1, <2>2, AppendToFile
    <2>5. Shape(cf') /\ Marks(cf') = Marks(cf) \cup {"STARTED"}
      <3>1. ln.id \in 1 .. Len(cf.files) BY <1>1, <2>2
      <3> QED BY <1>2, <2>1, <2>2, <2>3, <3>1, AppendKeepsShape
    <2>6. /\ "CUT" \notin Marks(cf')
          /\ Tidy(cf') => Whole(cf')
          /\ Whole(cf') <=> Whole(cf)
      <3>1. Marks(cf) \subseteq {"STARTED", "FT", "CUT", "GLUED", "BAD"}
        <4>1. \A l \in DOMAIN cf.log : cf.log[l] \in LogLine BY <1>2
        <4>2. \A x \in LogLine : x.mark \in {"STARTED", "FT", "CUT", "GLUED", "BAD"} BY DEF LogLine
        <4> QED BY <4>1, <4>2 DEF Marks
      <3> QED BY <2>3, <2>5, <3>1 DEF Tidy, Whole
    <2>7. cf'.log # <<>> /\ cf'.log[Len(cf'.log)] = ln
      BY <1>2, <2>2, <2>4, AppendProperties
    <2>8. ASSUME Whole(cf')
          PROVE  /\ WellFormed(cf') /\ inner.at = NumStarted(cf) + 1
                 /\ NumStarted(cf') = NumStarted(cf) + 1
                 /\ Recorded(cf') = Recorded(cf)
                 /\ RecordedNames(cf') = RecordedNames(cf)
      <3>1. Whole(cf) /\ inner.at = NumStarted(cf) + 1 /\ NumStarted(cf) < Len(cf.files)
        BY <1>1, <1>2, <2>6, <2>8
      <3>2. cf' = [cf EXCEPT !.log = Append(@, Line("STARTED", NumStarted(cf) + 1, {}))]
        BY <2>1, <3>1 DEF ln
      <3> DEFINE d == [cf EXCEPT !.log = Append(@, Line("STARTED", NumStarted(cf) + 1, {}))]
      <3>3. /\ WellFormed(d) /\ NumStarted(d) = NumStarted(cf) + 1
            /\ Recorded(d) = Recorded(cf) /\ RecordedNames(d) = RecordedNames(cf)
        BY ZenonT(30), <1>1, <3>1, AppendStarted
      <3> HIDE DEF d
      <3>4. cf' = d BY <3>2 DEF d
      <3> QED BY <3>1, <3>3, <3>4
    <2>9. WellFormed(cf')
      <3>1. CASE Whole(cf') BY <2>8, <3>1
      <3>2. CASE ~Whole(cf') BY <2>5, <2>6, <3>2 DEF WellFormed
      <3> QED BY <3>1, <3>2
    <2> QED BY <2>4, <2>6, <2>7, <2>8, <2>9 DEF ln
  <1> QED BY <1>3, <1>4

LEMMA BeginKeeps == MergeInv /\ Begin => MergeInv'
  <1> SUFFICES ASSUME MergeInv, Begin PROVE MergeInv'
    OBVIOUS
  <1>1. /\ inner.pc = "loop" /\ inner.at \in 1 .. Len(cf.files) /\ outer = "inner" /\ inner \in InnerType
        /\ UNCHANGED <<outer, attempts, known, newFiles, wasted>>
        /\ Len(cf.files) \in Nat /\ NumStarted(cf) \in Nat
    BY CountIsNat DEF Begin, outerVars, MergeInv, InnerFits, InnerType
  <1>2. inner' = [inner EXCEPT !.pc = "running", !.ranOne = TRUE] BY DEF Begin
  <1>3. /\ inner' \in InnerType
        /\ inner'.pc = "running" /\ inner'.at = inner.at /\ inner'.seen = inner.seen /\ inner'.ranOne
    BY <1>1, <1>2 DEF InnerType
  <1>4. InnerFits'
    <2>1. Whole(cf) => inner.seen \subseteq Recorded(cf) BY DEF MergeInv, InnerFits
    <2> QED BY <1>1, <1>3, <2>1, BeginAppends DEF InnerFits, InnerType
  <1>5. AttemptsLast'
    <2>1. attempts \in Nat /\ attempts >= 1 /\ wasted \in Nat BY <1>1 DEF MergeInv, AttemptsLast
    <2>2. Whole(cf) => attempts + wasted >= Left
      BY <1>1, <2>1 DEF MergeInv, AttemptsLast, Left
    <2>3. Whole(cf') => Whole(cf) /\ Left' = Left - 1 /\ Left \in Int
      BY <1>1, BeginAppends DEF Left
    <2> QED BY <1>1, <1>3, <2>1, <2>2, <2>3 DEF AttemptsLast
  <1> QED BY <1>1, <1>4, <1>5, BeginAppends DEF MergeInv

(* A line for the input that runs: its features, or what a kill left of    *)
(* them.                                                                   *)
LEMMA LineOfRunning ==
    ASSUME MergeInv, RunsToItsEnd, NEW m \in {"FT", "CUT", "BAD"}, NEW F \in SUBSET Nat,
           cf' = [cf EXCEPT !.log = Append(@, Line(m, inner.at, F))],
           m = "FT" /\ Whole(cf) => F = NewFeatures
    PROVE  /\ WellFormed(cf') /\ cf'.files = cf.files /\ cf'.first = cf.first
           /\ Marks(cf') = Marks(cf) \cup {m}
           /\ Whole(cf') => /\ m = "FT" /\ Whole(cf)
                            /\ inner.at = NumStarted(cf) /\ inner.at \in 1 .. NumStarted(cf)
                            /\ NumStarted(cf') = NumStarted(cf)
                            /\ Recorded(cf') = Recorded(cf) \cup F
                            /\ RecordedNames(cf') = RecordedNames(cf) \cup {cf.files[inner.at]}
  <1> DEFINE ln == Line(m, inner.at, F)
  <1>1. /\ inner.at \in 1 .. Len(cf.files) /\ WellFormed(cf) /\ "CUT" \notin Marks(cf)
        /\ Tidy(cf) => cf.log # <<>> /\ cf.log[Len(cf.log)] = Line("STARTED", inner.at, {})
        /\ Whole(cf) => inner.at = NumStarted(cf) /\ inner.seen \subseteq Recorded(cf)
    BY DEF RunsToItsEnd, MergeInv, InnerFits
  <1>2. /\ cf \in ControlFile /\ cf.log \in Seq(LogLine) /\ Shape(cf) /\ cf.files \in Seq(Inputs)
        /\ Len(cf.files) \in Nat /\ NumStarted(cf) \in Nat /\ inner.at \in Nat
    BY <1>1, CountIsNat
  <1>3. ln \in LogLine /\ ln.mark = m /\ ln.id = inner.at BY <1>2, LineTypes
  <1>4. /\ cf' \in ControlFile /\ cf'.log = Append(cf.log, ln)
        /\ cf'.files = cf.files /\ cf'.first = cf.first
    BY <1>2, <1>3, AppendToFile
  <1> HIDE DEF ln
  <1>5. Shape(cf') /\ Marks(cf') = Marks(cf) \cup {m}
    BY <1>1, <1>2, <1>3, AppendKeepsShape DEF ln
  <1>6. Tidy(cf') => Parses(cf')
    <2> SUFFICES ASSUME Tidy(cf') PROVE Parses(cf')
      OBVIOUS
    <2>1. Tidy(cf) /\ m # "BAD" BY <1>5 DEF Tidy
    <2>2. cf.files # <<>> BY <1>1, <1>2
    <2>3. Parses(cf) BY <1>1, <2>1, <2>2 DEF WellFormed
    <2>4. ln.mark \in {"FT", "CUT"} /\ cf.log # <<>> /\ cf.log[Len(cf.log)] = Line("STARTED", ln.id, {})
      BY <1>1, <1>3, <2>1
    <2> QED BY <1>2, <1>3, <2>3, <2>4, AppendParses DEF ln
  <1>7. ASSUME Whole(cf')
        PROVE  /\ WellFormed(cf') /\ m = "FT" /\ Whole(cf)
               /\ inner.at = NumStarted(cf) /\ inner.at \in 1 .. NumStarted(cf)
               /\ NumStarted(cf') = NumStarted(cf)
               /\ Recorded(cf') = Recorded(cf) \cup F
               /\ RecordedNames(cf') = RecordedNames(cf) \cup {cf.files[inner.at]}
    <2>1. m = "FT" /\ Whole(cf) BY <1>5, <1>7 DEF Whole
    <2>2. inner.at = NumStarted(cf) /\ NumStarted(cf) >= 1 /\ inner.at \in 1 .. NumStarted(cf)
      BY <1>1, <1>2, <2>1
    <2>3. F = NewFeatures BY <2>1
    <2>4. F \subseteq FeaturesOf[cf.files[NumStarted(cf)]] BY <2>2, <2>3 DEF NewFeatures
    <2>5. FeaturesOf[cf.files[NumStarted(cf)]] \subseteq Recorded(cf) \cup F
      BY <1>1, <2>1, <2>2, <2>3 DEF NewFeatures
    <2>6. cf.log # <<>> /\ cf.log[Len(cf.log)] = Line("STARTED", NumStarted(cf), {})
      BY <1>1, <2>1, <2>2, WholeFacts
    <2>7. cf' = [cf EXCEPT !.log = Append(@, Line("FT", NumStarted(cf), F))] BY <2>1, <2>2
    <2> DEFINE d == [cf EXCEPT !.log = Append(@, Line("FT", NumStarted(cf), F))]
    <2>8. /\ WellFormed(d) /\ NumStarted(d) = NumStarted(cf)
          /\ Recorded(d) = Recorded(cf) \cup F
          /\ RecordedNames(d) = RecordedNames(cf) \cup {cf.files[NumStarted(cf)]}
      BY ZenonT(30), <1>1, <2>1, <2>2, <2>4, <2>5, <2>6, AppendFT
    <2> HIDE DEF d
    <2>9. cf' = d BY <2>7 DEF d
    <2> QED BY <2>1, <2>2, <2>8, <2>9
  <1>8. WellFormed(cf') BY <1>5, <1>6, <1>7 DEF WellFormed
  <1> QED BY <1>4, <1>5, <1>7, <1>8

LEMMA NewFeaturesTypes ==
    ASSUME MergeInv, inner.pc = "running"
    PROVE  NewFeatures \subseteq Nat /\ cf.files[inner.at] \in Inputs
  <1>1. inner.at \in 1 .. Len(cf.files) /\ cf.files \in Seq(Inputs)
    BY CountIsNat DEF MergeInv, InnerFits
  <1>2. cf.files[inner.at] \in Inputs BY <1>1
  <1> QED BY <1>2, TargetAssumption DEF NewFeatures

LEMMA RecordAppends ==
    ASSUME MergeInv, Record
    PROVE  /\ WellFormed(cf') /\ cf'.files = cf.files /\ cf'.first = cf.first
           /\ Marks(cf') = Marks(cf) \cup {"FT"}
           /\ Whole(cf') => /\ Whole(cf)
                            /\ inner.at = NumStarted(cf) /\ inner.at \in 1 .. NumStarted(cf)
                            /\ NumStarted(cf') = NumStarted(cf)
                            /\ Recorded(cf') = Recorded(cf) \cup NewFeatures
                            /\ RecordedNames(cf') = RecordedNames(cf) \cup {cf.files[inner.at]}
  <1>1. RunsToItsEnd /\ cf' = [cf EXCEPT !.log = Append(@, Line("FT", inner.at, NewFeatures))]
    BY DEF Record
  <1>2. NewFeatures \in SUBSET Nat BY <1>1, NewFeaturesTypes DEF RunsToItsEnd
  <1> HIDE DEF NewFeatures
  <1> QED BY <1>1, <1>2, LineOfRunning

LEMMA RecordKeeps == MergeInv /\ Record => MergeInv'
  <1> SUFFICES ASSUME MergeInv, Record PROVE MergeInv'
    OBVIOUS
  <1>1. /\ inner.pc = "running" /\ outer = "inner" /\ inner.ranOne /\ "CUT" \notin Marks(cf)
        /\ inner \in InnerType /\ inner.at \in Nat /\ inner.at >= 1
        /\ Whole(cf) => inner.seen \subseteq Recorded(cf)
        /\ UNCHANGED <<outer, attempts, known, newFiles, wasted>>
    BY CountIsNat DEF Record, RunsToItsEnd, outerVars, MergeInv, InnerFits, InnerType
  <1>2. inner' = [inner EXCEPT !.pc = "loop", !.at = @ + 1, !.seen = @ \cup NewFeatures]
    BY DEF Record
  <1>3. NewFeatures \subseteq Nat BY <1>1, NewFeaturesTypes
  <1> HIDE DEF NewFeatures
  <1>4. /\ inner' \in InnerType
        /\ inner'.pc = "loop" /\ inner'.at = inner.at + 1 /\ inner'.ranOne = inner.ranOne
        /\ inner'.seen = inner.seen \cup NewFeatures
    <2> DEFINE seen == inner.seen \cup NewFeatures
    <2>1. inner' = [inner EXCEPT !.pc = "loop", !.at = inner.at + 1, !.seen = seen] BY <1>2
    <2>2. inner.at + 1 \in Nat BY <1>1
    <2>3. seen \in SUBSET Nat
      <3>1. inner.seen \subseteq Nat BY <1>1 DEF InnerType
      <3> QED BY <1>3, <3>1
    <2> HIDE DEF seen
    <2>4. /\ inner' \in InnerType
          /\ inner'.pc = "loop" /\ inner'.at = inner.at + 1 /\ inner'.ranOne = inner.ranOne
          /\ inner'.seen = seen
      BY <1>1, <2>1, <2>2, <2>3 DEF InnerType
    <2> QED BY <2>4 DEF seen
  <1>5. InnerFits'
    <2>1. Whole(cf') => inner'.at = NumStarted(cf') + 1 BY <1>4, RecordAppends
    <2>2. Whole(cf') => inner'.seen \subseteq Recorded(cf') BY <1>1, <1>4, RecordAppends
    <2> QED BY <1>1, <1>4, <2>1, <2>2 DEF InnerFits, InnerType
  <1>6. AttemptsLast'
    <2>1. Whole(cf') => Whole(cf) /\ Left' = Left BY RecordAppends DEF Left
    <2> QED BY <1>1, <1>4, <2>1 DEF MergeInv, AttemptsLast
  <1>7. (Range(cf.files) \cap Range(known.files) = {})' BY <1>1, RecordAppends DEF MergeInv
  <1> QED BY <1>1, <1>5, <1>6, <1>7, RecordAppends DEF MergeInv

(* An inner process that ends with an error started an input, which the    *)
(* next one skips, or is counted as wasted: that makes up for the attempt. *)
LEMMA InnerEndsKeeps ==
    ASSUME MergeInv, NEW e \in {0, 1}, InnerEnds(e), outer = "inner",
           WellFormed(cf'), cf'.files = cf.files,
           Whole(cf') => UNCHANGED cf
    PROVE  MergeInv'
  <1>1. /\ inner' = NoInner /\ attempts' = attempts - 1 /\ UNCHANGED <<known, newFiles>>
        /\ outer' = IF e = 0 THEN "merge" ELSE "attempt"
        /\ wasted' = IF inner.ranOne THEN wasted ELSE wasted + 1
    BY DEF InnerEnds
  <1>2. InnerFits' BY <1>1, NoInnerFits
  <1>3. AttemptsLast'
    <2>1. /\ attempts \in Nat /\ attempts >= 1 /\ Left \in Int /\ wasted \in Nat /\ inner.ranOne \in BOOLEAN
          /\ Whole(cf) => attempts + wasted >= Left + (IF inner.ranOne THEN 1 ELSE 0)
      BY CountIsNat DEF MergeInv, AttemptsLast, Left, InnerFits
    <2>2. Whole(cf') => Whole(cf) /\ Left' = Left BY DEF Left, NumStarted
    <2>3. attempts' \in Nat /\ wasted' \in Nat BY <1>1, <2>1
    <2>4. Whole(cf') => attempts' + wasted' >= Left'
      <3>1. CASE inner.ranOne BY <1>1, <2>1, <2>2, <3>1
      <3>2. CASE ~inner.ranOne BY <1>1, <2>1, <2>2, <3>2
      <3> QED BY <3>1, <3>2
    <2>5. inner'.ranOne = FALSE /\ outer' # "inner" BY <1>1, NoInnerType
    <2>6. Whole(cf)' => Left' \in Int BY <2>1, <2>2
    <2> QED BY <2>3, <2>4, <2>5, <2>6 DEF AttemptsLast
  <1>4. (Range(cf.files) \cap Range(known.files) = {})' BY <1>1 DEF MergeInv
  <1>5. WellFormed(known)' BY <1>1 DEF MergeInv
  <1> QED BY <1>1, <1>2, <1>3, <1>4, <1>5 DEF MergeInv

LEMMA RecordingCut ==
    ASSUME MergeInv, KilledRecording
    PROVE  /\ WellFormed(cf') /\ cf'.files = cf.files /\ ~Whole(cf')
           /\ InnerEnds(1) /\ outer = "inner"
  <1>1. RunsToItsEnd /\ InnerEnds(1) BY DEF KilledRecording
  <1>2. PICK m \in {"CUT", "BAD"}, F \in SUBSET NewFeatures, N \in {{}} \cup {{n} : n \in CutNumbers} :
           cf' = [cf EXCEPT !.log = Append(@, Line(m, inner.at, F \cup N))]
    BY DEF KilledRecording
  <1>3. inner.pc = "running" BY <1>1 DEF RunsToItsEnd
  <1>4. F \cup N \in SUBSET Nat BY <1>3, NewFeaturesTypes, TargetAssumption
  <1> HIDE DEF NewFeatures
  <1>5. PICK G \in SUBSET Nat : G = F \cup N BY <1>4
  <1>6. cf' = [cf EXCEPT !.log = Append(@, Line(m, inner.at, G))] BY <1>2, <1>5
  <1>7. /\ WellFormed(cf') /\ cf'.files = cf.files /\ (Whole(cf') => m = "FT")
    BY <1>1, <1>6, LineOfRunning
  <1>8. outer = "inner" BY <1>3 DEF MergeInv, InnerFits
  <1> QED BY <1>1, <1>7, <1>8

LEMMA EndsKeep ==
    MergeInv /\ (Crash \/ InnerDone \/ InnerKilled \/ KilledRecording \/ InnerExitsGracefully) => MergeInv'
  <1> SUFFICES ASSUME MergeInv, Crash \/ InnerDone \/ InnerKilled \/ KilledRecording \/ InnerExitsGracefully
               PROVE  MergeInv'
    OBVIOUS
  <1>1. inner.pc # "none" => outer = "inner" BY DEF MergeInv, InnerFits
  <1>2. CASE KilledRecording BY <1>2, RecordingCut, InnerEndsKeeps
  <1>3. CASE Crash \/ InnerDone \/ InnerKilled \/ InnerExitsGracefully
    <2>1. /\ UNCHANGED cf /\ outer = "inner"
          /\ InnerEnds(0) \/ InnerEnds(1)
      BY <1>1, <1>3 DEF Crash, InnerDone, InnerKilled, InnerExitsGracefully
    <2>2. WellFormed(cf') BY <2>1 DEF MergeInv
    <2> QED BY <2>1, <2>2, InnerEndsKeeps
  <1> QED BY <1>2, <1>3

LEMMA OuterKilledKeeps == MergeInv /\ OuterKilled => MergeInv'
  <1> SUFFICES ASSUME MergeInv, OuterKilled PROVE MergeInv'
    OBVIOUS
  <1>1. /\ outer' = "idle" /\ attempts' = 0 /\ known' = NoControlFile /\ inner' = NoInner /\ wasted' = 0
        /\ UNCHANGED <<cf, newFiles>>
    BY DEF OuterKilled
  <1>2. WellFormed(known') /\ Range(known'.files) = {} BY <1>1, NoFileWellFormed
  <1>3. WellFormed(cf') BY <1>1 DEF MergeInv
  <1>4. InnerFits' BY <1>1, NoInnerFits
  <1>5. AttemptsLast' BY <1>1 DEF AttemptsLast
  <1> QED BY <1>1, <1>2, <1>3, <1>4, <1>5 DEF MergeInv

LEMMA MergeInvStep == MergeInv /\ [MergeNext]_mergeVars => MergeInv'
  <1> SUFFICES ASSUME MergeInv, [MergeNext]_mergeVars PROVE MergeInv'
    OBVIOUS
  <1>1. CASE \E c \in Corpora : NothingToDo(c) \/ Resume(c) \/ StartAfresh(c) \/ KilledWriting(c)
    BY <1>1, StartKeeps
  <1>2. CASE MergeProgress
    BY <1>2, LaunchKeeps, MergeKeeps, BeginKeeps, RecordKeeps, EndsKeep DEF MergeProgress
  <1>3. CASE InnerKilled \/ KilledRecording \/ InnerExitsGracefully \/ OuterKilled
    BY <1>3, EndsKeep, OuterKilledKeeps
  <1>4. CASE UNCHANGED mergeVars
    <2>1. UNCHANGED <<cf, outer, attempts, known, newFiles, inner, wasted>>
      BY <1>4 DEF mergeVars, outerVars
    <2>2. WellFormed(cf)' /\ WellFormed(known)' BY <2>1 DEF MergeInv
    <2>3. InnerFits'
      <3>1. /\ Whole(cf') = Whole(cf) /\ Tidy(cf') = Tidy(cf) /\ Marks(cf') = Marks(cf)
            /\ NumStarted(cf') = NumStarted(cf) /\ Recorded(cf') = Recorded(cf)
        BY <2>1
      <3> QED BY <2>1, <3>1 DEF MergeInv, InnerFits
    <2>4. AttemptsLast'
      <3>1. Whole(cf') = Whole(cf) /\ Left' = Left BY <2>1 DEF Left, NumStarted
      <3> QED BY <2>1, <3>1 DEF MergeInv, AttemptsLast
    <2>5. (Range(cf.files) \cap Range(known.files) = {})' BY <2>1 DEF MergeInv
    <2> QED BY <2>1, <2>2, <2>3, <2>4, <2>5 DEF MergeInv
  <1> QED BY <1>1, <1>2, <1>3, <1>4 DEF MergeNext

LEMMA MergeInvariance == MergeSpec => []MergeInv
  BY MergeInvInit, MergeInvStep, PTL DEF MergeSpec

(* Merger::Parse reads back what any sequence of inner processes, crashed  *)
(* or told to exit or killed at any point, even within the lines they      *)
(* write, appended to the control file.  Excepted are only the two ways a  *)
(* kill does damage the file: it cuts off a marker, or what the next       *)
(* process appends is glued to the line it cut off.                        *)
THEOREM LogAlwaysParses == MergeSpec => []ControlFileParses
  <1>1. MergeInv => ControlFileParses BY DEF MergeInv, WellFormed, ControlFileParses, Tidy
  <1> QED BY <1>1, MergeInvariance, PTL

(* As long as no record was cut off, the attempts granted by               *)
(* WriteNewControlFile, or counted by a resumed merge, reach every input   *)
(* however many of them crash; a process that is killed before it started  *)
(* an input costs one attempt, and no other way to end costs any.          *)
THEOREM AttemptsReachAll == MergeSpec => []AttemptsSuffice
  <1>1. MergeInv => AttemptsSuffice
    <2> SUFFICES ASSUME MergeInv, outer \in {"attempt", "inner"}, Whole(cf)
                 PROVE  attempts + wasted >= Len(cf.files) - (FirstNotProcessedFile(cf) - 1) + (IF inner.ranOne THEN 1 ELSE 0)
      BY DEF AttemptsSuffice
    <2>1. /\ NumStarted(cf) \in Nat /\ Len(cf.files) \in Nat
          /\ FirstNotProcessedFile(cf) = NumStarted(cf) + 1
      BY CountIsNat DEF MergeInv
    <2>2. Left = Len(cf.files) - (FirstNotProcessedFile(cf) - 1) BY <2>1 DEF Left
    <2> QED BY <2>2 DEF MergeInv, AttemptsLast
  <1> QED BY <1>1, MergeInvariance, PTL

(* The names in the control files and in the result are names of inputs,   *)
(* and there is an inner process exactly while the outer one waits for it. *)
THEOREM MergeTypes == MergeSpec => []MergeTypeOK
  <1>1. MergeInv => MergeTypeOK
    <2> SUFFICES ASSUME MergeInv PROVE MergeTypeOK
      OBVIOUS
    <2>1. cf.written \in BOOLEAN /\ cf.first \in Nat BY DEF MergeInv, WellFormed, Shape, ControlFile
    <2>2. Range(cf.files) \subseteq Inputs /\ Range(known.files) \subseteq Inputs
      BY NamesAreInputs DEF MergeInv, WellFormed
    <2> QED BY <2>1, <2>2 DEF MergeInv, InnerFits, MergeTypeOK
  <1> QED BY <1>1, MergeInvariance, PTL

-----------------------------------------------------------------------------
(* The merge implements CorpusMerge *)

(* What the caller of the merge sees of the state.                         *)
Damaged == ~Whole(cf) \/ ~Whole(known)
Result == IF outer = "done" THEN <<newFiles, newFeatures>> ELSE <<>>

(* What is recorded does not wait: an FT line is for an input whose turn   *)
(* has come, and what is known is not in the file.                         *)
LEMMA RecordedDoNotWait ==
    ASSUME NEW c, WellFormed(c), Whole(c), NEW k, WellFormed(k), Range(c.files) \cap Range(k.files) = {}
    PROVE  /\ (RecordedNames(c) \cup RecordedNames(k)) \cap WaitingNames(c) = {}
           /\ WaitingNames(c) \subseteq Inputs /\ FirstNames(c) \subseteq Inputs
           /\ \A i \in 1 .. NumStarted(c) : c.files[i] \notin WaitingNames(c)
  <1>1. /\ NumStarted(c) \in Nat /\ Len(c.files) \in Nat /\ NumStarted(c) <= Len(c.files)
        /\ FirstNotProcessedFile(c) = NumStarted(c) + 1
        /\ DOMAIN c.files = 1 .. Len(c.files) /\ IsInjective(c.files)
        /\ InTurn(c) /\ Shape(c) /\ Shape(k)
    BY CountIsNat, WholeFacts DEF Shape
  <1>2. WaitingNames(c) \subseteq Range(c.files) BY <1>1 DEF WaitingNames, Range
  <1>3. \A i \in 1 .. NumStarted(c) : c.files[i] \notin WaitingNames(c)
    <2> SUFFICES ASSUME NEW i \in 1 .. NumStarted(c), NEW j \in NumStarted(c) + 1 .. Len(c.files),
                        c.files[i] = c.files[j]
                 PROVE  FALSE
      BY <1>1 DEF WaitingNames
    <2>1. i \in DOMAIN c.files /\ j \in DOMAIN c.files /\ i # j BY <1>1
    <2> QED BY <1>1, <2>1 DEF IsInjective
  <1>4. \A u \in RecordedNames(c) : u \notin WaitingNames(c)
    <2>1. \A l \in FTLines(c) : c.log[l].id \in 1 .. NumStarted(c) BY <1>1 DEF InTurn, FTLines
    <2> QED BY <1>3, <2>1, NamesOfLines
  <1>5. RecordedNames(k) \subseteq Range(k.files) /\ Range(c.files) \subseteq Inputs /\ FirstNames(c) \subseteq Inputs
    BY <1>1, NamesAreInputs
  <1> QED BY <1>2, <1>3, <1>4, <1>5

(* A step that leaves or finds a damaged record promises little.           *)
LEMMA DamagedImplements ==
    ASSUME Damaged', outer' # "done"
    PROVE  Abstract!CutOff
  <1>1. Result' = <<>> BY DEF Result
  <1> QED BY <1>1 DEF Abstract!CutOff, Damaged, Result

(* A merge that begins, or is given up, on whole records.                  *)
LEMMA FreshImplements ==
    ASSUME WellFormed(cf'), WellFormed(known'), (Range(cf.files) \cap Range(known.files) = {})',
           ~Damaged', outer' # "done",
           RecordedNames(cf') \cup RecordedNames(known') \subseteq RecordedNames(cf) \cup RecordedNames(known)
    PROVE  Abstract!Start
  <1>1. Whole(cf') /\ Whole(known') BY DEF Damaged
  <1>2. /\ (RecordedNames(cf') \cup RecordedNames(known')) \cap WaitingNames(cf') = {}
        /\ WaitingNames(cf') \subseteq Inputs /\ FirstNames(cf') \subseteq Inputs
    BY <1>1, RecordedDoNotWait
  <1>3. Result' = <<>> BY DEF Result
  <1> QED BY <1>1, <1>2, <1>3 DEF Abstract!Start, FirstNames, WaitingNames, Result

LEMMA StartImplements ==
    ASSUME MergeInv, NEW c \in Corpora,
           NothingToDo(c) \/ Resume(c) \/ StartAfresh(c) \/ KilledWriting(c)
    PROVE  Abstract!Start \/ Abstract!CutOff
  <1>1. outer' # "done" BY DEF NothingToDo, Resume, StartAfresh, KilledWriting
  <1>2. /\ WellFormed(cf') /\ WellFormed(known') /\ (Range(cf.files) \cap Range(known.files) = {})'
    BY StartKeeps DEF MergeInv
  <1>3. RecordedNames(NoControlFile) = {} /\ RecordedNames(TornControlFile) = {}
    BY NoFileWellFormed
  <1>4. RecordedNames(cf') \cup RecordedNames(known') \subseteq RecordedNames(cf) \cup RecordedNames(known)
    <2>1. CASE NothingToDo(c) BY <2>1 DEF NothingToDo
    <2>2. CASE Resume(c) BY <1>3, <2>2 DEF Resume
    <2>3. CASE StartAfresh(c)
      <3>1. RecordedNames(cf') = {} BY <2>3, NewFileWellFormed DEF StartAfresh
      <3>2. known' = cf \/ known' = NoControlFile BY <2>3 DEF StartAfresh
      <3> QED BY <1>3, <3>1, <3>2
    <2>4. CASE KilledWriting(c) BY <1>3, <2>4 DEF KilledWriting
    <2> QED BY <2>1, <2>2, <2>3, <2>4
  <1> QED BY <1>1, <1>2, <1>4, DamagedImplements, FreshImplements

LEMMA BeginImplements == MergeInv /\ Begin => Abstract!Next
  <1> SUFFICES ASSUME MergeInv, Begin PROVE Abstract!Next
    OBVIOUS
  <1>1. /\ inner.pc = "loop" /\ inner.at <= Len(cf.files) /\ outer = "inner"
        /\ UNCHANGED <<outer, known, newFiles, newFeatures>>
    BY DEF Begin, outerVars, MergeInv, InnerFits
  <1>2. CASE Damaged' BY <1>1, <1>2, DamagedImplements DEF Abstract!Next
  <1>3. CASE ~Damaged'
    <2>1. Whole(cf') /\ Whole(known') BY <1>3 DEF Damaged
    <2>2. /\ Whole(cf) /\ inner.at = NumStarted(cf) + 1
          /\ NumStarted(cf') = NumStarted(cf) + 1 /\ RecordedNames(cf') = RecordedNames(cf)
          /\ cf'.files = cf.files /\ cf'.first = cf.first /\ WellFormed(cf')
      BY <2>1, BeginAppends
    <2>3. ~Damaged BY <1>1, <2>1, <2>2 DEF Damaged
    <2>4. /\ WellFormed(cf) /\ WellFormed(known) /\ Range(cf'.files) \cap Range(known.files) = {}
          /\ cf.files \in Seq(Inputs) /\ NumStarted(cf) \in Nat /\ Len(cf.files) \in Nat
      BY <2>2, CountIsNat DEF MergeInv
    <2> DEFINE f == cf.files[NumStarted(cf) + 1]
    <2>5. f \in Inputs BY <1>1, <2>2, <2>4
    <2>6. WaitingNames(cf') = WaitingNames(cf) \ {f}
      <3>1. WaitingNames(cf) = {cf.files[i] : i \in NumStarted(cf) + 1 .. Len(cf.files)}
        BY <2>4, CountIsNat DEF WaitingNames
      <3>2. WaitingNames(cf') = {cf.files[i] : i \in NumStarted(cf) + 2 .. Len(cf.files)}
        BY <2>2, <2>4, CountIsNat DEF WaitingNames
      <3>3. NumStarted(cf) + 1 .. Len(cf.files) = {NumStarted(cf) + 1} \cup (NumStarted(cf) + 2 .. Len(cf.files))
        BY <1>1, <2>2, <2>4
      <3>4. WaitingNames(cf) = WaitingNames(cf') \cup {f} BY <3>1, <3>2, <3>3
      <3>5. f \notin WaitingNames(cf')
        <4>1. NumStarted(cf) + 1 \in 1 .. NumStarted(cf') BY <2>2, <2>4
        <4> QED BY <2>1, <2>2, <2>4, <4>1, RecordedDoNotWait
      <3> QED BY <3>4, <3>5
    <2>7. PICK u \in Inputs : u = f BY <2>5
    <2>8. Abstract!Run(u)
      <3>1. FirstNames(cf') = FirstNames(cf) BY <2>2 DEF FirstNames
      <3>2. RecordedNames(cf') \cup RecordedNames(known') = RecordedNames(cf) \cup RecordedNames(known)
        BY <1>1, <2>2
      <3>3. WaitingNames(cf') = WaitingNames(cf) \ {u} BY <2>6, <2>7
      <3>4. Result' = Result BY <1>1 DEF Result
      <3> QED BY <1>3, <2>3, <3>1, <3>2, <3>3, <3>4 DEF Abstract!Run, WaitingNames, FirstNames, Damaged, Result
    <2> QED BY <2>3, <2>8 DEF Abstract!Next, Damaged
  <1> QED BY <1>2, <1>3

LEMMA RecordImplements == MergeInv /\ Record => Abstract!Next
  <1> SUFFICES ASSUME MergeInv, Record PROVE Abstract!Next
    OBVIOUS
  <1>1. UNCHANGED <<outer, known, newFiles, newFeatures>> /\ outer = "inner" /\ inner.pc = "running"
    BY DEF Record, RunsToItsEnd, outerVars, MergeInv, InnerFits
  <1>2. CASE Damaged' BY <1>1, <1>2, DamagedImplements DEF Abstract!Next
  <1>3. CASE ~Damaged'
    <2> DEFINE f == cf.files[inner.at]
    <2>1. Whole(cf') /\ Whole(known') BY <1>3 DEF Damaged
    <2>2. /\ Whole(cf) /\ inner.at \in 1 .. NumStarted(cf) /\ NumStarted(cf') = NumStarted(cf)
          /\ RecordedNames(cf') = RecordedNames(cf) \cup {f}
          /\ cf'.files = cf.files /\ cf'.first = cf.first
      BY <2>1, RecordAppends
    <2>3. ~Damaged BY <1>1, <2>1, <2>2 DEF Damaged
    <2>4. f \notin WaitingNames(cf) /\ f \in Inputs
      BY <1>1, <2>2, RecordedDoNotWait, NewFeaturesTypes DEF MergeInv
    <2>5. WaitingNames(cf') = WaitingNames(cf)
      BY <2>2 DEF WaitingNames, FirstNotProcessedFile, NumStarted
    <2>6. Abstract!Record(f)
      <3>1. f \notin {cf.files[i] : i \in FirstNotProcessedFile(cf) .. Len(cf.files)}
        BY <2>4 DEF WaitingNames
      <3>2. {cf.files[i] : i \in FirstNotProcessedFile(cf) .. Len(cf.files)}'
              = {cf.files[i] : i \in FirstNotProcessedFile(cf) .. Len(cf.files)}
        BY <2>5 DEF WaitingNames
      <3>3. (RecordedNames(cf) \cup RecordedNames(known))'
              = (RecordedNames(cf) \cup RecordedNames(known)) \cup {f}
        BY <1>1, <2>2
      <3>4. {cf.files[i] : i \in 1 .. cf.first}' = {cf.files[i] : i \in 1 .. cf.first}
        BY <2>2
      <3>5. (IF outer = "done" THEN <<newFiles, newFeatures>> ELSE <<>>)'
              = IF outer = "done" THEN <<newFiles, newFeatures>> ELSE <<>>
        BY <1>1
      <3>6. (~Whole(cf) \/ ~Whole(known))' = (~Whole(cf) \/ ~Whole(known))
        BY <1>3, <2>3 DEF Damaged
      <3> QED BY <3>1, <3>2, <3>3, <3>4, <3>5, <3>6 DEF Abstract!Record
    <2> QED BY <2>3, <2>4, <2>6 DEF Abstract!Next, Damaged
  <1> QED BY <1>2, <1>3

LEMMA MergeImplements == MergeInv /\ Merge => Abstract!Next \/ UNCHANGED Abstract!vars
  <1> SUFFICES ASSUME MergeInv, Merge PROVE Abstract!Next \/ UNCHANGED Abstract!vars
    OBVIOUS
  <1>1. UNCHANGED <<cf, known>> /\ outer = "merge" BY DEF Merge
  <1>2. /\ WellFormed(cf) /\ WellFormed(known) /\ Range(cf.files) \cap Range(known.files) = {}
        /\ Shape(cf) /\ Shape(known)
    BY DEF MergeInv, WellFormed
  <1>3. CASE Parses(cf)
    <2>1. PICK r \in MergeResults(MergeInput(cf), MergeOthers(cf, known)) :
             newFiles' = r.files /\ newFeatures' = r.features
      BY <1>3 DEF Merge, MergeInput, MergeOthers
    <2>2. outer' = "done" BY <1>3 DEF Merge
    <2> DEFINE R == RecordedNames(cf) \cup RecordedNames(known)
    <2>3. newFiles' \subseteq R BY <1>2, <2>1, ChosenAreRecorded
    <2>4. Result' = <<newFiles', newFeatures'>> BY <2>2 DEF Result
    <2>5. CASE Damaged
      <3>1. Damaged' BY <1>1, <2>5 DEF Damaged
      <3>2. Result'[1] \subseteq R' BY <1>1, <2>3, <2>4
      <3>3. Abstract!CutOff BY <3>1, <3>2 DEF Abstract!CutOff, Damaged, Result
      <3> QED BY <3>3 DEF Abstract!Next
    <2>6. CASE ~Damaged
      <3>1. Whole(cf) /\ Whole(known) BY <2>6 DEF Damaged
      <3>2. IsMerge(InitialFeatures, FirstNames(cf), R, newFiles', newFeatures')
        BY <1>2, <2>1, <3>1, MergeIsChoice
      <3>3. newFeatures' \subseteq FeaturesOfAll(R) BY <3>2 DEF IsMerge
      <3>4. \E C \in SUBSET R, N \in SUBSET FeaturesOfAll(R) :
               /\ IsMerge(InitialFeatures, FirstNames(cf), R, C, N)
               /\ Result' = <<C, N>>
        BY <2>3, <2>4, <3>2, <3>3
      <3>5. Abstract!Choose
        BY <1>1, <2>6, <3>4
           DEF Abstract!Choose, Abstract!IsMerge, Abstract!FeaturesOfAll, IsMerge, FeaturesOfAll, FirstNames, Damaged, Result
      <3> QED BY <2>6, <3>5 DEF Abstract!Next, Damaged
    <2> QED BY <2>5, <2>6
  <1>4. CASE ~Parses(cf)
    <2>1. outer' = "failed" BY <1>4 DEF Merge
    <2> QED BY <1>1, <2>1 DEF Abstract!vars
  <1> QED BY <1>3, <1>4

(* The outer process alone, and the end of an inner one, are not seen: the *)
(* control file is unchanged, and there is no result before or after.      *)
LEMMA UnseenSteps ==
    ASSUME MergeInv,
           \/ LaunchInner \/ InnerCannotParse \/ OutOfAttempts
           \/ Crash \/ InnerDone \/ InnerKilled \/ InnerExitsGracefully
    PROVE  UNCHANGED Abstract!vars
  <1>1. UNCHANGED <<cf, known>>
    BY DEF LaunchInner, InnerCannotParse, OutOfAttempts, Crash, InnerDone, InnerKilled, InnerExitsGracefully, InnerEnds
  <1>2. outer # "done"
    BY DEF LaunchInner, InnerCannotParse, OutOfAttempts, Crash, InnerDone, InnerKilled, InnerExitsGracefully,
           MergeInv, InnerFits, NoInner
  <1>3. outer' # "done"
    BY <1>2 DEF LaunchInner, InnerCannotParse, OutOfAttempts, Crash, InnerDone, InnerKilled, InnerExitsGracefully, InnerEnds
  <1> QED BY <1>1, <1>2, <1>3 DEF Abstract!vars

LEMMA KilledRecordingImplements == MergeInv /\ KilledRecording => Abstract!CutOff
  <1> SUFFICES ASSUME MergeInv, KilledRecording PROVE Abstract!CutOff
    OBVIOUS
  <1>1. Damaged' /\ outer' # "done" BY RecordingCut DEF Damaged, InnerEnds
  <1> QED BY <1>1, DamagedImplements

LEMMA OuterKilledImplements == MergeInv /\ OuterKilled => Abstract!Start \/ Abstract!CutOff
  <1> SUFFICES ASSUME MergeInv, OuterKilled PROVE Abstract!Start \/ Abstract!CutOff
    OBVIOUS
  <1>1. UNCHANGED cf /\ known' = NoControlFile /\ outer' = "idle" BY DEF OuterKilled
  <1>2. RecordedNames(NoControlFile) = {} BY NoFileWellFormed
  <1>3. WellFormed(cf') /\ WellFormed(known') /\ (Range(cf.files) \cap Range(known.files) = {})'
    BY OuterKilledKeeps DEF MergeInv
  <1>4. RecordedNames(cf') \cup RecordedNames(known') \subseteq RecordedNames(cf) \cup RecordedNames(known)
    BY <1>1, <1>2
  <1> QED BY <1>1, <1>3, <1>4, DamagedImplements, FreshImplements

LEMMA MergeStepImplements == MergeInv /\ [MergeNext]_mergeVars => [Abstract!Next]_(Abstract!vars)
  <1> SUFFICES ASSUME MergeInv, [MergeNext]_mergeVars
               PROVE  Abstract!Next \/ UNCHANGED Abstract!vars
    OBVIOUS
  <1>1. CASE \E c \in Corpora : NothingToDo(c) \/ Resume(c) \/ StartAfresh(c) \/ KilledWriting(c)
    BY <1>1, StartImplements DEF Abstract!Next
  <1>2. CASE MergeProgress
    BY <1>2, UnseenSteps, MergeImplements, BeginImplements, RecordImplements DEF MergeProgress
  <1>3. CASE InnerKilled \/ KilledRecording \/ InnerExitsGracefully \/ OuterKilled
    BY <1>3, UnseenSteps, OuterKilledImplements, KilledRecordingImplements DEF Abstract!Next
  <1>4. CASE UNCHANGED mergeVars
    BY <1>4 DEF mergeVars, outerVars, Abstract!vars, FirstNotProcessedFile, RecordedNames, FeatureLines
  <1> QED BY <1>1, <1>2, <1>3, <1>4 DEF MergeNext

LEMMA MergeInitImplements == MergeInit => Abstract!Init
  <1> SUFFICES ASSUME MergeInit PROVE Abstract!Init
    OBVIOUS
  <1>1. /\ cf.files = <<>> /\ cf.first = 0 /\ WellFormed(cf) /\ NumStarted(cf) = 0
        /\ RecordedNames(cf) = {} /\ RecordedNames(known) = {} /\ outer = "idle"
        /\ Whole(cf) /\ Whole(known)
    BY NoFileWellFormed DEF MergeInit
  <1>2. FirstNotProcessedFile(cf) = 1 BY <1>1, CountIsNat
  <1> QED BY <1>1, <1>2 DEF Abstract!Init

(* Control file, crashes, attempts and restarts cannot be told apart from  *)
(* a merge that runs every input at most once, loses no feature that was   *)
(* recorded and returns just the features that are new; once a kill cut a  *)
(* record off, from one that chooses among the inputs of which something   *)
(* was recorded.                                                           *)
THEOREM MergeRefinement == MergeSpec => MergeRefines
  BY MergeInitImplements, MergeStepImplements, MergeInvariance, PTL
     DEF MergeSpec, MergeRefines, Abstract!Spec
=============================================================================
