------------------------ MODULE MessageCrossover_proofs ------------------------
(* What Mutator::Crossover keeps of the two messages it is given, for every*)
(* schema, every pair of messages and every limit: first what one helper   *)
(* can make of one message, then where in the two messages the call is,    *)
(* then each step.                                                         *)
EXTENDS MessageCrossover, ProtoMessage_proofs

-----------------------------------------------------------------------------
(* What one loop body makes of the message it works on.                    *)

(* A repeated field `old` after a crossover with `given`: extended by      *)
(* elements of it, none twice, or some but not all replaced by its.        *)
Merged(old, given, new) ==
    LET more == Len(new) - Len(old)
        changed == {i \in DOMAIN old : new[i] # old[i]}
    IN  /\ more \in 0 .. MaxNewRepeated
        /\ old # <<>> => changed # DOMAIN old
        /\ more > 0 =>
              /\ changed = {}
              /\ \E p \in Picks(more, Len(given)) :
                    \A i \in 1 .. more : new[Len(old) + i] = given[p[i]]

(* m1, at position `at`, becomes m at field f.  The last conjunct is why   *)
(* additions respect the limit and replacements of elements need not.      *)
Crossed(at, m1, m2, f, m, max) ==
    /\ IsMsg(TypeAt(at), m)
    /\ \A h \in DOMAIN TypeAt(at) \ Group(TypeAt(at), f) : m[h] = m1[h]
    /\ \A h \in DOMAIN TypeAt(at) : Range(m[h]) \subseteq Range(m1[h]) \cup Range(m2[h])
    /\ \A h \in DOMAIN TypeAt(at) :
          SetMembers(TypeAt(at), m1, h) # {} => SetMembers(TypeAt(at), m, h) # {}
    /\ IsRepeated(TypeAt(at)[f]) => Merged(m1[f], m2[f], m[f])
    /\ (\E h \in DOMAIN TypeAt(at) : Len(m[h]) > Len(m1[h])) => SizeAt(at, m) <= max

LEMMA SameMerged ==
    ASSUME NEW V, NEW old \in Seq(V), NEW given
    PROVE  Merged(old, given, old)
  <1>1. Len(old) - Len(old) = 0 /\ DOMAIN old = 1 .. Len(old) /\ Len(old) \in Nat OBVIOUS
  <1>2. {i \in DOMAIN old : old[i] # old[i]} = {} OBVIOUS
  <1>3. old # <<>> => DOMAIN old # {}
    <2>1. old # <<>> => Len(old) > 0 OBVIOUS
    <2>2. old # <<>> => 1 \in 1 .. Len(old) BY <1>1, <2>1
    <2> QED BY <1>1, <2>2
  <1>4. 0 \in 0 .. MaxNewRepeated /\ ~(0 > 0) BY CrossoverAssumption
  <1> QED BY <1>1, <1>2, <1>3, <1>4 DEF Merged

LEMMA SameCrossed ==
    ASSUME NEW at, NEW m1, IsMsg(TypeAt(at), m1), NEW m2, NEW f \in DOMAIN TypeAt(at), NEW max
    PROVE  Crossed(at, m1, m2, f, m1, max)
  <1>1. \A h \in DOMAIN TypeAt(at) : ~(Len(m1[h]) > Len(m1[h]))
    BY TypesAreTypes, MsgFields
  <1>2. Merged(m1[f], m2[f], m1[f]) BY TypesAreTypes, MsgFields, SameMerged
  <1> QED BY <1>1, <1>2 DEF Crossed

(* The members of a group hold one value at most: message2's, as message2  *)
(* has it.                                                                 *)
LEMMA TakenValue ==
    ASSUME NEW T \in Types, NEW m, IsMsg(T, m), NEW g \in DOMAIN T, ~IsRepeated(T[g]), m[g] # <<>>
    PROVE  m[g][1] \in Values(T, g) /\ m[g] = <<m[g][1]>> /\ Content(T, g, m[g][1]) = m[g]
  <1>1. m[g] \in Seq(Values(T, g)) /\ Len(m[g]) = 1
    <2>1. /\ m[g] \in Seq(Values(T, g)) /\ Len(m[g]) \in Nat
          /\ Len(m[g]) <= 1 /\ Len(m[g]) > 0
      BY MsgFields
    <2>2. \A n \in Nat : n <= 1 /\ n > 0 => n = 1 OBVIOUS
    <2> QED BY <2>1, <2>2
  <1>2. m[g][1] \in Values(T, g) /\ m[g] = <<m[g][1]>> BY <1>1
  <1>3. Holds(T, m, g, Values(T, g)) BY DEF IsMsg
  <1>4. (T[g].kind = "scalar" /\ T[g].oneof = 0) => m[g][1] # Default BY <1>2, <1>3 DEF Holds
  <1> QED BY <1>2, <1>4 DEF Content

(* ReplaceSetField and CrossoverAddUnsetField, when the value fits.        *)
LEMMA SetCrossed ==
    ASSUME NEW at, NEW m1, IsMsg(TypeAt(at), m1), NEW m2, IsMsg(TypeAt(at), m2),
           NEW f \in DOMAIN TypeAt(at), ~IsRepeated(TypeAt(at)[f]),
           NEW g \in Group(TypeAt(at), f), m2[g] # <<>>,
           NEW x, x = SetField(TypeAt(at), m1, g, m2[g][1]), NEW max, SizeAt(at, x) <= max
    PROVE  Crossed(at, m1, m2, f, x, max)
  <1> DEFINE T == TypeAt(at)
  <1>1. T \in Types BY TypesAreTypes
  <1>2. g \in DOMAIN T /\ ~IsRepeated(T[g]) BY <1>1, GroupLaws
  <1>3. Group(T, g) = Group(T, f) BY <1>1, GroupLaws
  <1> HIDE DEF T
  <1>4. /\ IsMsg(T, x) /\ x[g] = m2[g]
        /\ \A h \in DOMAIN T : h # g => x[h] = IF h \in Group(T, f) THEN <<>> ELSE m1[h]
    <2>1. m2[g][1] \in Values(T, g) /\ Content(T, g, m2[g][1]) = m2[g]
      BY <1>1, <1>2, TakenValue DEF T
    <2> QED BY <1>1, <1>2, <1>3, <2>1, SetFieldMsg DEF T
  <1>5. \A h \in DOMAIN T \ Group(T, f) : x[h] = m1[h] BY <1>4 DEF T
  <1>6. ASSUME NEW h \in DOMAIN T PROVE Range(x[h]) \subseteq Range(m1[h]) \cup Range(m2[h])
    <2>1. CASE h = g BY <1>4, <2>1
    <2>2. CASE h # g
      <3>1. x[h] = m1[h] \/ x[h] = <<>> BY <1>4, <2>2
      <3> QED BY <3>1 DEF Range
    <2> QED BY <2>1, <2>2
  <1>7. ASSUME NEW h \in DOMAIN T, SetMembers(T, m1, h) # {} PROVE SetMembers(T, x, h) # {}
    <2>1. CASE h \in Group(T, f)
      <3>1. g \in Group(T, h) BY <1>1, <2>1, GroupLaws DEF T
      <3> QED BY <1>4, <3>1 DEF SetMembers
    <2>2. CASE h \notin Group(T, f)
      <3>1. PICK k \in Group(T, h) : m1[k] # <<>> BY <1>7 DEF SetMembers
      <3>2. k \in DOMAIN T /\ Group(T, k) = Group(T, h) /\ h \in Group(T, h) BY <1>1, GroupLaws
      <3>3. k \notin Group(T, f) BY <1>1, <2>2, <3>2, GroupLaws DEF T
      <3>4. x[k] = m1[k] BY <1>5, <3>2, <3>3
      <3> QED BY <3>1, <3>4 DEF SetMembers
    <2> QED BY <2>1, <2>2
  <1> QED BY <1>4, <1>5, <1>6, <1>7 DEF Crossed, T

(* CrossoverAddUnsetField, when it does not: nothing was set in the group, *)
(* so that clearing the member again leaves message1 as it was.            *)
LEMMA ClearedIsSame ==
    ASSUME NEW T \in Types, NEW m, IsMsg(T, m), NEW f \in DOMAIN T, SetMembers(T, m, f) = {},
           NEW g \in Group(T, f), NEW v, NEW y, y = [SetField(T, m, g, v) EXCEPT ![g] = <<>>]
    PROVE  y = m
  <1>1. m = [h \in DOMAIN T |-> m[h]] /\ DOMAIN m = DOMAIN T BY DEF IsMsg
  <1>2. Group(T, g) = Group(T, f) /\ g \in DOMAIN T BY GroupLaws
  <1>3. \A h \in Group(T, f) : m[h] = <<>> BY DEF SetMembers
  <1>4. y = [h \in DOMAIN T |-> IF h = g THEN <<>>
                                ELSE IF h \in Group(T, f) THEN <<>> ELSE m[h]]
    BY <1>1, <1>2 DEF SetField
  <1>5. \A h \in DOMAIN T : y[h] = m[h] BY <1>3, <1>4
  <1> QED BY <1>1, <1>4, <1>5

LEMMA LesserBounds ==
    ASSUME NEW a \in Int, NEW b \in Int
    PROVE  Lesser(a, b) \in Int /\ Lesser(a, b) <= a /\ Lesser(a, b) <= b
  BY DEF Lesser

(* ReplaceRepeatedField never replaces them all, so one element is left.   *)
Replaced(old, given, S, from) == [i \in DOMAIN old |-> IF i \in S THEN given[from[i]] ELSE old[i]]

LEMMA ReplacedMerged ==
    ASSUME NEW V, NEW old \in Seq(V), old # <<>>, NEW given \in Seq(V),
           NEW S \in SUBSET DOMAIN old, Cardinality(S) <= Len(old) - 1,
           NEW from \in [S -> DOMAIN given],
           NEW new, new = Replaced(old, given, S, from)
    PROVE  /\ new \in Seq(V) /\ Len(new) = Len(old) /\ Merged(old, given, new)
           /\ Range(new) \subseteq Range(old) \cup Range(given)
  <1>1. DOMAIN old = 1 .. Len(old) /\ Len(old) \in Nat \ {0} OBVIOUS
  <1>2. \A i \in S : from[i] \in DOMAIN given OBVIOUS
  <1>14. /\ DOMAIN new = DOMAIN old /\ new = [i \in DOMAIN old |-> new[i]]
         /\ \A i \in DOMAIN old : new[i] = IF i \in S THEN given[from[i]] ELSE old[i]
    BY DEF Replaced
  <1>3. \A i \in DOMAIN old : new[i] \in Range(old) \cup Range(given) BY <1>2, <1>14 DEF Range
  <1>4. Range(old) \subseteq V /\ Range(given) \subseteq V BY DEF Range
  <1>5. new \in [1 .. Len(old) -> V] BY <1>1, <1>3, <1>4, <1>14
  <1>6. new \in Seq(V) /\ Len(new) = Len(old) /\ DOMAIN new = DOMAIN old BY <1>1, <1>5
  <1>7. Range(new) \subseteq Range(old) \cup Range(given) BY <1>3, <1>6 DEF Range
  <1>8. S # DOMAIN old
    <2>1. Cardinality(1 .. Len(old)) = Len(old) BY <1>1, FS_Interval
    <2> QED BY <1>1, <2>1
  <1>9. {i \in DOMAIN old : new[i] # old[i]} \subseteq S BY <1>14
  <1>10. {i \in DOMAIN old : new[i] # old[i]} # DOMAIN old BY <1>8, <1>9
  <1>11. Len(new) - Len(old) = 0 BY <1>1, <1>6
  <1>12. 0 \in 0 .. MaxNewRepeated /\ ~(0 > 0) BY CrossoverAssumption
  <1> QED BY <1>6, <1>7, <1>10, <1>11, <1>12 DEF Merged

LEMMA ReplaceRepeatedCrossed ==
    ASSUME NEW at, NEW m1, IsMsg(TypeAt(at), m1), NEW m2, IsMsg(TypeAt(at), m2),
           NEW f \in DOMAIN TypeAt(at), IsRepeated(TypeAt(at)[f]), NEW max,
           NEW x \in ReplaceRepeatedField(m1, m2, f)
    PROVE  Crossed(at, m1, m2, f, x, max)
  <1> DEFINE T == TypeAt(at)
  <1>1. T \in Types BY TypesAreTypes
  <1>2. CASE x = m1 BY <1>2, SameCrossed
  <1>3. CASE m1[f] # <<>> /\ m2[f] # <<>>
             /\ x \in ReplaceUpTo(Lesser(Len(m1[f]) - 1, MaxReplaceRepeated), m1, m2, f)
    <2>1. PICK S \in SUBSET DOMAIN m1[f] :
             /\ Cardinality(S) <= Lesser(Len(m1[f]) - 1, MaxReplaceRepeated)
             /\ \E from \in [S -> DOMAIN m2[f]] :
                   x = [m1 EXCEPT ![f] =
                           [i \in DOMAIN @ |-> IF i \in S THEN m2[f][from[i]] ELSE @[i]]]
      BY <1>3 DEF ReplaceUpTo
    <2>2. PICK from \in [S -> DOMAIN m2[f]] :
             x = [m1 EXCEPT ![f] = [i \in DOMAIN @ |-> IF i \in S THEN m2[f][from[i]] ELSE @[i]]]
      BY <2>1
    <2>3. PICK new : new = Replaced(m1[f], m2[f], S, from) OBVIOUS
    <2>4. x = Put(m1, f, new) BY <2>2, <2>3 DEF Replaced, Put
    <2>5. /\ m1[f] \in Seq(Values(T, f)) /\ m2[f] \in Seq(Values(T, f))
          /\ Len(m1[f]) \in Nat /\ DOMAIN m1[f] = 1 .. Len(m1[f])
      BY <1>1, MsgFields
    <2>6. IsFiniteSet(DOMAIN m1[f])
      <3>1. IsFiniteSet(1 .. Len(m1[f])) BY <2>5, FS_Interval
      <3> QED BY <2>5, <3>1
    <2>7. Cardinality(S) \in Nat
      <3>1. IsFiniteSet(S) BY <2>6, FS_Subset
      <3> QED BY <3>1, FS_CardinalityType
    <2>8. Cardinality(S) <= Len(m1[f]) - 1
      <3>1. MaxReplaceRepeated \in Int /\ Len(m1[f]) - 1 \in Int BY <2>5, CrossoverAssumption
      <3>2. PICK most : most = Lesser(Len(m1[f]) - 1, MaxReplaceRepeated) OBVIOUS
      <3>3. most \in Int /\ most <= Len(m1[f]) - 1 BY <3>1, <3>2, LesserBounds
      <3>4. Cardinality(S) <= most BY <2>1, <3>2
      <3> QED BY <2>5, <2>7, <3>3, <3>4
    <2>9. /\ new \in Seq(Values(T, f)) /\ Len(new) = Len(m1[f]) /\ Merged(m1[f], m2[f], new)
          /\ Range(new) \subseteq Range(m1[f]) \cup Range(m2[f])
      <3>1. PICK V : V = Values(T, f) OBVIOUS
      <3>2. m1[f] \in Seq(V) /\ m2[f] \in Seq(V) BY <2>5, <3>1
      <3>3. /\ new \in Seq(V) /\ Len(new) = Len(m1[f]) /\ Merged(m1[f], m2[f], new)
            /\ Range(new) \subseteq Range(m1[f]) \cup Range(m2[f])
        BY <1>3, <2>3, <2>8, <3>2, ReplacedMerged
      <3> QED BY <3>1, <3>3
    <2>10. IsMsg(T, x) /\ x[f] = new /\ \A h \in DOMAIN T : h # f => x[h] = m1[h]
      <3>1. IsRepeated(T[f]) /\ new \in Seq(Values(T, f)) BY <2>9
      <3>2. IsMsg(T, m1) /\ f \in DOMAIN T OBVIOUS
      <3> HIDE DEF T
      <3> QED BY <1>1, <2>4, <3>1, <3>2, PutFieldMsg
    <2>11. f \in Group(T, f) BY <1>1, GroupLaws
    <2>12. \A h \in DOMAIN T : Len(x[h]) = Len(m1[h]) BY <2>9, <2>10
    <2>13. ASSUME NEW h \in DOMAIN T PROVE ~(Len(x[h]) > Len(m1[h]))
      <3>1. Len(m1[h]) \in Nat BY <1>1, MsgFields
      <3>2. Len(x[h]) = Len(m1[h]) BY <2>12
      <3> HIDE DEF T
      <3> QED BY <3>1, <3>2
    <2>14. ASSUME NEW h \in DOMAIN T, SetMembers(T, m1, h) # {} PROVE SetMembers(T, x, h) # {}
      <3>1. PICK k \in Group(T, h) : m1[k] # <<>> BY <2>14 DEF SetMembers
      <3>2. k \in DOMAIN T BY <1>1, GroupLaws
      <3>3. x[k] # <<>>
        <4>1. CASE k = f BY <1>3, <2>5, <2>9, <2>10, <4>1
        <4>2. CASE k # f BY <2>10, <3>1, <3>2, <4>2
        <4> QED BY <4>1, <4>2
      <3> QED BY <3>3 DEF SetMembers
    <2>15. \A h \in DOMAIN T : Range(x[h]) \subseteq Range(m1[h]) \cup Range(m2[h])
      BY <2>9, <2>10
    <2> QED BY <2>9, <2>10, <2>11, <2>13, <2>14, <2>15 DEF Crossed
  <1> QED BY <1>2, <1>3 DEF ReplaceRepeatedField

(* CrossoverAddRepeatedField keeps message1's elements as they are.        *)
Taken(given, k, p) == [i \in 1 .. k |-> given[p[i]]]
Extended(old, given, k, p) == old \o Taken(given, k, p)

LEMMA AddedMerged ==
    ASSUME NEW V, NEW old \in Seq(V), NEW given \in Seq(V),
           NEW k \in 0 .. MaxNewRepeated, NEW p \in Picks(k, Len(given)),
           NEW new, new = Extended(old, given, k, p)
    PROVE  /\ new \in Seq(V) /\ Merged(old, given, new)
           /\ Range(new) \subseteq Range(old) \cup Range(given)
  <1> DEFINE s == Taken(given, k, p)
  <1>1. /\ k \in Nat /\ DOMAIN old = 1 .. Len(old) /\ Len(old) \in Nat
        /\ DOMAIN given = 1 .. Len(given) /\ Len(given) \in Nat
    BY CrossoverAssumption
  <1>2. p \in [1 .. k -> 1 .. Len(given)] BY DEF Picks
  <1>3. \A i \in 1 .. k : s[i] \in V /\ s[i] = given[p[i]] /\ p[i] \in DOMAIN given
    BY <1>1, <1>2 DEF Taken
  <1>4. s \in Seq(V) /\ Len(s) = k
    <2>1. s \in [1 .. k -> V] BY <1>3 DEF Taken
    <2> HIDE DEF s
    <2> QED BY <1>1, <2>1
  <1>5. new = old \o s BY DEF Extended
  <1> HIDE DEF s
  <1>6. /\ new \in Seq(V) /\ Len(new) = Len(old) + k
        /\ \A i \in 1 .. Len(old) : new[i] = old[i]
        /\ \A i \in 1 .. k : new[Len(old) + i] = s[i]
    <2>1. new \in Seq(V) BY <1>4, <1>5
    <2>4. Len(new) = Len(old) + k BY <1>4, <1>5
    <2>2. \A i \in 1 .. Len(old) : new[i] = old[i] BY <1>1, <1>4, <1>5
    <2>3. ASSUME NEW i \in 1 .. k PROVE new[Len(old) + i] = s[i]
      <3>1. Len(old) + i \in 1 .. Len(old) + Len(s) /\ Len(old) + i > Len(old)
            /\ Len(old) + i - Len(old) = i
        BY <1>1, <1>4
      <3> QED BY <1>4, <1>5, <3>1
    <2> QED BY <2>1, <2>2, <2>3, <2>4
  <1>7. {i \in DOMAIN old : new[i] # old[i]} = {} BY <1>1, <1>6
  <1>8. Len(new) - Len(old) = k BY <1>1, <1>6
  <1>9. old # <<>> => {} # DOMAIN old
    <2>1. old # <<>> => Len(old) > 0 OBVIOUS
    <2>2. old # <<>> => 1 \in 1 .. Len(old) BY <1>1, <2>1
    <2> QED BY <1>1, <2>2
  <1>10. \A i \in 1 .. k : new[Len(old) + i] = given[p[i]] BY <1>3, <1>6
  <1>11. Merged(old, given, new)
    <2>1. \E q \in Picks(k, Len(given)) : \A i \in 1 .. k : new[Len(old) + i] = given[q[i]]
      BY <1>10
    <2> DEFINE more == Len(new) - Len(old)
               changed == {i \in DOMAIN old : new[i] # old[i]}
    <2>2. more = k /\ changed = {} BY <1>7, <1>8
    <2> HIDE DEF more, changed
    <2>3. more \in 0 .. MaxNewRepeated BY <2>2
    <2>4. old # <<>> => changed # DOMAIN old BY <1>9, <2>2
    <2>5. \E q \in Picks(more, Len(given)) :
             \A i \in 1 .. more : new[Len(old) + i] = given[q[i]]
      BY <2>1, <2>2
    <2> QED BY ZenonT(30), <2>2, <2>3, <2>4, <2>5 DEF Merged, more, changed
  <1>12. ASSUME NEW j \in DOMAIN new PROVE new[j] \in Range(old) \cup Range(given)
    <2>1. CASE j \in 1 .. Len(old) BY <1>1, <1>6, <2>1 DEF Range
    <2>2. CASE j \notin 1 .. Len(old)
      <3>1. PICK i \in 1 .. k : j = Len(old) + i
        <4>1. j \in 1 .. Len(old) + k BY <1>6
        <4>2. j - Len(old) \in 1 .. k /\ j = Len(old) + (j - Len(old)) BY <1>1, <2>2, <4>1
        <4> QED BY <4>2
      <3>2. new[j] = given[p[i]] BY <1>10, <3>1
      <3> QED BY <1>3, <3>2 DEF Range
    <2> QED BY <2>1, <2>2
  <1>13. Range(new) \subseteq Range(old) \cup Range(given) BY <1>12 DEF Range
  <1> QED BY <1>6, <1>11, <1>13

LEMMA AddRepeatedCrossed ==
    ASSUME NEW at, NEW m1, IsMsg(TypeAt(at), m1), NEW m2, IsMsg(TypeAt(at), m2),
           NEW f \in DOMAIN TypeAt(at), IsRepeated(TypeAt(at)[f]), NEW max,
           NEW x \in CrossoverAddRepeatedField(at, m1, m2, f, max)
    PROVE  Crossed(at, m1, m2, f, x, max)
  <1> DEFINE T == TypeAt(at)
  <1>1. T \in Types BY TypesAreTypes
  <1>2. CASE x = m1 BY <1>2, SameCrossed
  <1>3. CASE /\ x \in {[m1 EXCEPT ![f] = @ \o s] :
                          s \in Drawn(Lesser(Len(m2[f]), MaxNewRepeated), m2, f)}
             /\ SizeAt(at, x) <= max
    <2>1. PICK s \in Drawn(Lesser(Len(m2[f]), MaxNewRepeated), m2, f) :
             x = [m1 EXCEPT ![f] = @ \o s]
      BY <1>3
    <2>20. PICK k \in 0 .. Lesser(Len(m2[f]), MaxNewRepeated) :
             s \in {[i \in 1 .. k |-> m2[f][p[i]]] : p \in Picks(k, Len(m2[f]))}
      BY <2>1 DEF Drawn
    <2>2. PICK p \in Picks(k, Len(m2[f])) : s = [i \in 1 .. k |-> m2[f][p[i]]]
      BY <2>20
    <2>3. /\ m1[f] \in Seq(Values(T, f)) /\ m2[f] \in Seq(Values(T, f))
          /\ Len(m2[f]) \in Nat
      BY <1>1, MsgFields
    <2>4. k \in 0 .. MaxNewRepeated
      <3>1. MaxNewRepeated \in Int /\ Len(m2[f]) \in Int BY <2>3, CrossoverAssumption
      <3>2. PICK most : most = Lesser(Len(m2[f]), MaxNewRepeated) OBVIOUS
      <3>3. most \in Int /\ most <= MaxNewRepeated BY <2>3, <3>1, <3>2, LesserBounds
      <3>4. k \in 0 .. most BY <3>2
      <3> QED BY <3>1, <3>3, <3>4
    <2>5. PICK new : new = m1[f] \o s OBVIOUS
    <2>6. x = Put(m1, f, new) BY <2>1, <2>5 DEF Put
    <2>7. /\ new \in Seq(Values(T, f)) /\ Merged(m1[f], m2[f], new)
          /\ Range(new) \subseteq Range(m1[f]) \cup Range(m2[f])
      <3>1. new = Extended(m1[f], m2[f], k, p) BY <2>2, <2>5 DEF Taken, Extended
      <3>2. PICK V : V = Values(T, f) OBVIOUS
      <3>3. m1[f] \in Seq(V) /\ m2[f] \in Seq(V) BY <2>3, <3>2
      <3>4. /\ new \in Seq(V) /\ Merged(m1[f], m2[f], new)
            /\ Range(new) \subseteq Range(m1[f]) \cup Range(m2[f])
        BY <2>2, <2>4, <3>1, <3>3, AddedMerged
      <3> QED BY <3>2, <3>4
    <2>8. IsMsg(T, x) /\ x[f] = new /\ \A h \in DOMAIN T : h # f => x[h] = m1[h]
      <3>1. IsRepeated(T[f]) /\ new \in Seq(Values(T, f)) BY <2>7
      <3>2. IsMsg(T, m1) /\ f \in DOMAIN T OBVIOUS
      <3> HIDE DEF T
      <3> QED BY <1>1, <2>6, <3>1, <3>2, PutFieldMsg
    <2>9. f \in Group(T, f) BY <1>1, GroupLaws
    <2>10. ASSUME NEW h \in DOMAIN T, SetMembers(T, m1, h) # {} PROVE SetMembers(T, x, h) # {}
      <3>1. PICK j \in Group(T, h) : m1[j] # <<>> BY <2>10 DEF SetMembers
      <3>2. j \in DOMAIN T BY <1>1, GroupLaws
      <3>3. x[j] # <<>>
        <4>1. CASE j = f
          <5>1. new # <<>>
            <6>1. Len(m1[f]) \in Nat /\ Len(m1[f]) > 0 BY <1>1, <3>1, <4>1, MsgFields
            <6>2. Len(new) - Len(m1[f]) \in 0 .. MaxNewRepeated BY <2>7 DEF Merged
            <6>3. Len(new) \in Nat BY <2>7
            <6> HIDE DEF T
            <6>4. Len(new) > 0 BY <6>1, <6>2, <6>3, CrossoverAssumption
            <6> QED BY <6>4
          <5> QED BY <2>8, <4>1, <5>1
        <4>2. CASE j # f BY <2>8, <3>1, <3>2, <4>2
        <4> QED BY <4>1, <4>2
      <3> QED BY <3>3 DEF SetMembers
    <2>11. \A h \in DOMAIN T : Range(x[h]) \subseteq Range(m1[h]) \cup Range(m2[h])
      BY <2>7, <2>8
    <2> QED BY <1>3, <2>7, <2>8, <2>9, <2>10, <2>11 DEF Crossed
  <1> QED BY <1>2, <1>3 DEF CrossoverAddRepeatedField

-----------------------------------------------------------------------------
(* Where a call can be: at a field of the outer messages, between two      *)
(* pairs of embedded messages, or at a field of such a pair.               *)

Outer(f, i, e) == [at |-> <<>>, field |-> f, into |-> i, elem |-> e, max |-> maxSize]

OtherAt(i, e) == IF other[i] = <<>> THEN EmptyLeaf ELSE other[i][e]

AtField(f) ==
    /\ f \in 1 .. Len(RootType) + 1
    /\ stack = <<Outer(f, 0, 0)>>

(* Field i is f itself, or a set member of the group f begins.             *)
Embedded(f, i) ==
    /\ f \in DOMAIN RootType /\ i \in Group(RootType, f)
    /\ IsMessageType(RootType[i])
    /\ ~IsRepeated(RootType[i]) => root[i] # <<>>

BetweenPairs(f, i, e) ==
    /\ Embedded(f, i) /\ e \in Nat \ {0}
    /\ stack = <<Outer(f, i, e)>>

InPair(f, i, e, g, x) ==
    /\ Embedded(f, i) /\ e \in DOMAIN root[i]
    /\ (IsRepeated(RootType[i]) \/ other[i] # <<>>) => e \in DOMAIN other[i]
    /\ g \in 1 .. Len(LeafType) + 1
    /\ stack = <<Outer(f, i, e + 1), Frame(<<i, e>>, g, x)>>

Placed ==
    \/ stack = <<>>
    \/ \E f : AtField(f)
    \/ \E f, i, e : BetweenPairs(f, i, e)
    \/ \E f, i, e, g, x : InPair(f, i, e, g, x)

(* The second alternative of WholeOrPaired.                                *)
Paired(f) ==
    /\ Len(root[f]) = Len(seed[f])
    /\ \A i \in DOMAIN root[f] : i > Len(other[f]) => root[f][i] = seed[f][i]
    /\ \A i \in DOMAIN root[f], h \in DOMAIN LeafType : i <= Len(other[f]) =>
          Range(root[f][i][h]) \subseteq Range(seed[f][i][h]) \cup Range(other[f][i][h])

(* The repeated fields from the cursor on are as the caller gave them, but *)
(* for the one whose elements are being crossed over pairwise.             *)
Untouched ==
    stack # <<>> => \A h \in DOMAIN RootType : IsRepeated(RootType[h]) /\ h >= stack[1].field =>
        IF h = stack[1].into THEN Paired(h) ELSE root[h] = seed[h]

Kept == Provenance /\ RepeatedMerge /\ NothingLost /\ WholeOrPaired

CrossInv ==
    /\ IsRoot(root) /\ pair \in Pairs /\ maxSize \in Budgets
    /\ Placed /\ Untouched /\ Kept

(* The budget: at every loop head of the outer message remain_size is what *)
(* the caller's limit leaves.                                              *)
Budgeted ==
    /\ remain \in Int
    /\ \A k \in DOMAIN stack : stack[k].max \in Int
    /\ \A f : AtField(f) => remain = maxSize - RootSize(root)

LEMMA FieldView ==
    ASSUME NEW f, AtField(f)
    PROVE  /\ stack # <<>> /\ Len(stack) = 1 /\ stack[1] = Outer(f, 0, 0)
           /\ Top = Outer(f, 0, 0) /\ Top.into = 0 /\ Top.at = <<>> /\ Top.max = maxSize
           /\ F = f /\ Type = RootType /\ Msg = root /\ Other = other
           /\ HelperMax = RootSize(root) + remain
  <1>1. stack # <<>> /\ Len(stack) = 1 /\ stack[1] = Outer(f, 0, 0) BY DEF AtField
  <1>2. Top = Outer(f, 0, 0) BY <1>1 DEF Top, Last
  <1>3. Top.into = 0 /\ Top.at = <<>> /\ Top.max = maxSize /\ Top.field = f
    BY <1>2 DEF Outer
  <1> QED BY <1>1, <1>2, <1>3 DEF F, Type, Msg, Other, HelperMax, Size, TypeAt, MessageAt, SizeAt

LEMMA PairsView ==
    ASSUME NEW f, NEW i, NEW e, BetweenPairs(f, i, e)
    PROVE  /\ stack # <<>> /\ Len(stack) = 1 /\ stack[1] = Outer(f, i, e)
           /\ Top = Outer(f, i, e) /\ Top.into = i /\ Top.elem = e /\ i # 0 /\ i \in DOMAIN RootType
           /\ Top.at = <<>> /\ Top.field = f /\ Top.max = maxSize
           /\ Type = RootType /\ Msg = root /\ Other = other
  <1>1. stack # <<>> /\ Len(stack) = 1 /\ stack[1] = Outer(f, i, e) BY DEF BetweenPairs
  <1>2. Top = Outer(f, i, e) BY <1>1 DEF Top, Last
  <1>3. /\ Top.into = i /\ Top.elem = e /\ Top.at = <<>> /\ Top.field = f /\ Top.max = maxSize
    BY <1>2 DEF Outer
  <1>4. i \in DOMAIN RootType BY DEF BetweenPairs, Embedded, Group
  <1>5. i # 0 BY <1>4, SchemaLaws DEF Types
  <1> QED BY <1>1, <1>2, <1>3, <1>4, <1>5 DEF Type, Msg, Other, TypeAt, MessageAt

LEMMA PairView ==
    ASSUME NEW f, NEW i, NEW e, NEW g, NEW x, InPair(f, i, e, g, x)
    PROVE  /\ stack # <<>> /\ Top.into = 0 /\ Top.at = <<i, e>>
           /\ F = g /\ Type = LeafType /\ Msg = root[i][e] /\ Other = OtherAt(i, e)
  <1>1. stack # <<>> /\ Len(stack) = 2 /\ stack[2] = Frame(<<i, e>>, g, x)
    BY DEF InPair
  <1>2. Top = Frame(<<i, e>>, g, x) BY <1>1 DEF Top, Last
  <1>3. Top.into = 0 /\ Top.at = <<i, e>> /\ Top.field = g
    BY <1>2 DEF Frame
  <1>4. Top.at # <<>> /\ Top.at[1] = i /\ Top.at[2] = e BY <1>3
  <1> QED BY <1>1, <1>3, <1>4 DEF F, Type, Msg, Other, OtherAt, TypeAt, MessageAt

(* A loop body either ends with one crossover of one field, or descends    *)
(* with message1 unchanged into an embedded message that both have, or     *)
(* creates message1's.                                                     *)
LEMMA LoopBody ==
    ASSUME InLoop, IsMsg(Type, Msg), IsMsg(Type, Other), F \in DOMAIN Type,
           NoCrossover \/ Replace \/ CrossoverAdd \/ EnterMessage
    PROVE  \/ \E m : EndField(m) /\ Crossed(Top.at, Msg, Other, F, m, HelperMax)
           \/ \E i \in Group(Type, F) :
                 /\ IsMessageType(Type[i]) /\ StartDescent(Msg, i)
                 /\ IsRepeated(Type[i]) \/ Msg[i] # <<>>
           \/ /\ IsMessageType(Type[F]) /\ ~IsRepeated(Type[F]) /\ Type[F].oneof = 0
              /\ Msg[F] = <<>> /\ StartDescent(SetField(Type, Msg, F, EmptyLeaf), F)
  <1>1. Type \in Types /\ Type = TypeAt(Top.at) BY TypesAreTypes DEF Type
  <1>2. /\ F \in Group(Type, F)
        /\ Type[F].oneof = 0 => Group(Type, F) = {F}
        /\ InGroup => ~IsRepeated(Type[F])
        /\ Singular => ~IsRepeated(Type[F]) /\ Type[F].oneof = 0
        /\ Repeated => IsRepeated(Type[F])
    BY <1>1, GroupLaws, SchemaLaws DEF InGroup, Singular, Repeated, IsRepeated
  <1>3. /\ \A g \in Members1 : InGroup /\ g \in Group(Type, F) /\ Msg[g] # <<>>
        /\ \A g \in Members2 : InGroup /\ g \in Group(Type, F) /\ Other[g] # <<>>
        /\ Members2 # {} /\ Members1 = {} => SetMembers(Type, Msg, F) = {}
    BY DEF Members1, Members2, SetMembers
  <1>4. Crossed(Top.at, Msg, Other, F, Msg, HelperMax) BY <1>1, SameCrossed
  <1>5. ASSUME NEW g \in Group(Type, F), ~IsRepeated(Type[F]), Other[g] # <<>>,
               NEW m \in ReplaceSetField(Top.at, Msg, Other, g, HelperMax)
        PROVE  Crossed(Top.at, Msg, Other, F, m, HelperMax)
    <2>1. PICK x : x = SetField(TypeAt(Top.at), Msg, g, Other[g][1]) OBVIOUS
    <2>2. IF SizeAt(Top.at, x) <= HelperMax THEN m = x ELSE m = Msg
      BY <1>5, <2>1 DEF ReplaceSetField
    <2>3. ASSUME SizeAt(Top.at, x) <= HelperMax PROVE Crossed(Top.at, Msg, Other, F, x, HelperMax)
      BY <1>1, <1>5, <2>1, <2>3, SetCrossed
    <2> QED BY <1>4, <2>2, <2>3
  <1>6. ASSUME NEW g \in Group(Type, F), ~IsRepeated(Type[F]), Other[g] # <<>>,
               SetMembers(Type, Msg, F) = {},
               NEW m \in CrossoverAddUnsetField(Top.at, Msg, Other, F, g, HelperMax)
        PROVE  Crossed(Top.at, Msg, Other, F, m, HelperMax)
    <2>1. PICK x : x = SetField(TypeAt(Top.at), Msg, g, Other[g][1]) OBVIOUS
    <2>2. IF SizeAt(Top.at, x) <= HelperMax THEN m = x ELSE m = [x EXCEPT ![g] = <<>>]
      BY <1>6, <2>1 DEF CrossoverAddUnsetField
    <2>3. ASSUME SizeAt(Top.at, x) <= HelperMax PROVE Crossed(Top.at, Msg, Other, F, x, HelperMax)
      BY <1>1, <1>6, <2>1, <2>3, SetCrossed
    <2>4. ASSUME m = [x EXCEPT ![g] = <<>>] PROVE m = Msg
      BY <1>1, <1>6, <2>1, <2>4, ClearedIsSame
    <2> QED BY <1>4, <2>2, <2>3, <2>4
  <1>7. CASE NoCrossover
    <2>1. CASE EndField(Msg) BY <1>4, <2>1
    <2>2. CASE \E i \in Members1 \cap Members2 : IsMessageType(Type[i]) /\ StartDescent(Msg, i)
      BY <1>3, <2>2
    <2>3. CASE Repeated /\ IsMessageType(Type[F]) /\ StartDescent(Msg, F) BY <1>2, <2>3
    <2> QED BY <1>7, <2>1, <2>2, <2>3 DEF NoCrossover
  <1>8. CASE Replace
    <2>1. CASE \E i \in Members1, g \in Members2 :
                  \E m \in ReplaceSetField(Top.at, Msg, Other, g, HelperMax) : EndField(m)
      <3>1. PICK g \in Members2 :
               \E m \in ReplaceSetField(Top.at, Msg, Other, g, HelperMax) : EndField(m)
        BY <2>1
      <3>2. PICK m \in ReplaceSetField(Top.at, Msg, Other, g, HelperMax) : EndField(m) BY <3>1
      <3> QED BY <1>2, <1>3, <1>5, <3>2
    <2>2. CASE /\ Singular /\ Other[F] # <<>>
               /\ \E m \in ReplaceSetField(Top.at, Msg, Other, F, HelperMax) : EndField(m)
      BY <1>2, <1>5, <2>2
    <2>3. CASE Repeated /\ \E m \in ReplaceRepeatedField(Msg, Other, F) : EndField(m)
      <3>1. PICK m \in ReplaceRepeatedField(Msg, Other, F) : EndField(m) BY <2>3
      <3>2. Crossed(Top.at, Msg, Other, F, m, HelperMax)
        BY <1>1, <1>2, <2>3, <3>1, ReplaceRepeatedCrossed
      <3> QED BY <3>1, <3>2
    <2> QED BY <1>8, <2>1, <2>2, <2>3 DEF Replace
  <1>9. CASE CrossoverAdd
    <2>1. CASE /\ Members1 = {}
               /\ \E g \in Members2 :
                     \E m \in CrossoverAddUnsetField(Top.at, Msg, Other, F, g, HelperMax) :
                        EndField(m)
      <3>1. PICK g \in Members2 :
               \E m \in CrossoverAddUnsetField(Top.at, Msg, Other, F, g, HelperMax) : EndField(m)
        BY <2>1
      <3>2. PICK m \in CrossoverAddUnsetField(Top.at, Msg, Other, F, g, HelperMax) : EndField(m)
        BY <3>1
      <3>3. SetMembers(Type, Msg, F) = {} BY <1>3, <2>1, <3>1
      <3> QED BY <1>2, <1>3, <1>6, <3>2, <3>3
    <2>2. CASE /\ Singular /\ Msg[F] = <<>> /\ Other[F] # <<>>
               /\ \E m \in CrossoverAddUnsetField(Top.at, Msg, Other, F, F, HelperMax) : EndField(m)
      <3>1. SetMembers(Type, Msg, F) = {} BY <1>2, <2>2 DEF SetMembers
      <3> QED BY <1>2, <1>6, <2>2, <3>1
    <2>3. CASE /\ Repeated
               /\ \E m \in CrossoverAddRepeatedField(Top.at, Msg, Other, F, HelperMax) : EndField(m)
      <3>1. PICK m \in CrossoverAddRepeatedField(Top.at, Msg, Other, F, HelperMax) : EndField(m)
        BY <2>3
      <3>2. Crossed(Top.at, Msg, Other, F, m, HelperMax)
        BY <1>1, <1>2, <2>3, <3>1, AddRepeatedCrossed
      <3> QED BY <3>1, <3>2
    <2> QED BY <1>9, <2>1, <2>2, <2>3 DEF CrossoverAdd
  <1>10. CASE EnterMessage
    <2>1. /\ Type[F].oneof = 0 /\ IsMessageType(Type[F]) /\ ~IsRepeated(Type[F])
          /\ StartDescent(IF Msg[F] = <<>> THEN SetField(Type, Msg, F, EmptyLeaf) ELSE Msg, F)
      BY <1>10 DEF EnterMessage, InGroup, IsMessageType, IsRepeated
    <2>2. CASE Msg[F] = <<>> BY <2>1, <2>2
    <2>3. CASE Msg[F] # <<>> BY <1>2, <2>1, <2>3
    <2> QED BY <2>2, <2>3
  <1> QED BY <1>7, <1>8, <1>9, <1>10

-----------------------------------------------------------------------------
(* What each kind of step does to the messages.                            *)

LEMMA PairIsRoots == pair \in Pairs => IsRoot(seed) /\ IsRoot(other)
  BY CrossoverAssumption DEF seed, other

(* Two of the properties, field by field.                                  *)
MergedIn(f) == Merged(seed[f], other[f], root[f])
Whole(f) == Range(root[f]) \subseteq Range(seed[f]) \cup Range(other[f])

LEMMA MergedFields ==
    RepeatedMerge <=> \A f \in DOMAIN RootType : RootType[f].kind = "repeated" => MergedIn(f)
  BY DEF RepeatedMerge, Merged, MergedIn

LEMMA WholeFields ==
    WholeOrPaired <=> \A f \in DOMAIN RootType :
                         RootType[f].kind = "messages" => Whole(f) \/ Paired(f)
  BY DEF WholeOrPaired, Whole, Paired

LEMMA MergedFieldsNext ==
    (\A f \in DOMAIN RootType : RootType[f].kind = "repeated" => MergedIn(f)') => RepeatedMerge'
  BY DEF RepeatedMerge, Merged, MergedIn

LEMMA WholeFieldsNext ==
    (\A f \in DOMAIN RootType :
        RootType[f].kind = "messages" => Whole(f)' \/ Paired(f)') => WholeOrPaired'
  BY DEF WholeOrPaired, Whole, Paired

LEMMA FieldUnchanged ==
    ASSUME seed' = seed, other' = other, NEW f, root'[f] = root[f]
    PROVE  (MergedIn(f)' <=> MergedIn(f)) /\ (Whole(f)' <=> Whole(f)) /\ (Paired(f)' <=> Paired(f))
  BY DEF MergedIn, Whole, Paired

LEMMA LeafValuesOf ==
    ASSUME NEW m, NEW f, NEW h
    PROVE  LeafValues(m, f, h) = UNION {Range(v[h]) : v \in Range(m[f])}
  BY DEF LeafValues, Range

(* A group has no repeated field, so repeated fields other than the one    *)
(* being crossed over stay as they are.                                    *)
LEMMA OtherRepeated ==
    ASSUME NEW T \in Types, NEW f \in DOMAIN T, NEW h \in DOMAIN T, IsRepeated(T[h]), h # f
    PROVE  h \notin Group(T, f)
  BY GroupLaws

LEMMA MergedGrows ==
    ASSUME NEW V, NEW old \in Seq(V), NEW new \in Seq(V), NEW given, Merged(old, given, new)
    PROVE  Len(new) >= Len(old)
  <1>1. Len(new) - Len(old) \in 0 .. MaxNewRepeated /\ Len(new) \in Nat /\ Len(old) \in Nat
    BY DEF Merged
  <1> QED BY <1>1, CrossoverAssumption

LEMMA OuterKept ==
    ASSUME IsRoot(root), pair \in Pairs, Kept, UNCHANGED call,
           NEW f \in DOMAIN RootType, IsRepeated(RootType[f]) => root[f] = seed[f],
           NEW max, Crossed(<<>>, root, other, f, root', max)
    PROVE  /\ IsRoot(root') /\ Kept'
           /\ \A h \in DOMAIN RootType : IsRepeated(RootType[h]) /\ h # f => root'[h] = root[h]
  <1>1. TypeAt(<<>>) = RootType /\ RootType \in Types BY DEF TypeAt, Types
  <1>2. seed' = seed /\ other' = other BY DEF call, seed, other
  <1>3. IsMsg(RootType, root) /\ IsMsg(RootType, root') /\ IsRoot(root') /\ IsMsg(RootType, seed)
    BY <1>1, RootIsMsg, PairIsRoots DEF Crossed
  <1>4. \A h \in DOMAIN RootType \ Group(RootType, f) : root'[h] = root[h] BY <1>1 DEF Crossed
  <1>5. ASSUME NEW h \in DOMAIN RootType, IsRepeated(RootType[h]), h # f PROVE root'[h] = root[h]
    BY <1>1, <1>4, <1>5, OtherRepeated
  <1>6. \A h \in DOMAIN RootType : Range(root'[h]) \subseteq Range(root[h]) \cup Range(other[h])
    BY <1>1 DEF Crossed
  <1>7. Provenance'
    <2>1. ASSUME NEW h \in DOMAIN RootType, IsMessageType(RootType[h]), NEW k \in DOMAIN LeafType
          PROVE  LeafValues(root', h, k) \subseteq LeafValues(seed, h, k) \cup LeafValues(other, h, k)
      <3>1. LeafValues(root', h, k) \subseteq LeafValues(root, h, k) \cup LeafValues(other, h, k)
        BY <1>6, LeafValuesOf
      <3>2. LeafValues(root, h, k) \subseteq LeafValues(seed, h, k) \cup LeafValues(other, h, k)
        BY <2>1 DEF Kept, Provenance
      <3> QED BY <3>1, <3>2
    <2>2. ASSUME NEW h \in DOMAIN RootType, ~IsMessageType(RootType[h])
          PROVE  Range(root'[h]) \subseteq Range(seed[h]) \cup Range(other[h])
      <3>1. Range(root[h]) \subseteq Range(seed[h]) \cup Range(other[h])
        BY <2>2 DEF Kept, Provenance
      <3> QED BY <1>6, <3>1
    <2> QED BY <1>2, <2>1, <2>2 DEF Provenance
  <1>8. ASSUME IsRepeated(RootType[f]) PROVE Merged(seed[f], other[f], root'[f])
    BY <1>1, <1>8 DEF Crossed
  <1>9. RepeatedMerge'
    <2>1. ASSUME NEW h \in DOMAIN RootType, RootType[h].kind = "repeated" PROVE MergedIn(h)'
      <3>1. IsRepeated(RootType[h]) BY <2>1 DEF IsRepeated
      <3>2. CASE h = f BY <1>2, <1>8, <3>1, <3>2 DEF MergedIn
      <3>3. CASE h # f
        <4>1. root'[h] = root[h] BY <1>5, <3>1, <3>3
        <4>2. MergedIn(h) BY <2>1, MergedFields DEF Kept
        <4> QED BY <1>2, <4>1, <4>2, FieldUnchanged
      <3> QED BY <3>2, <3>3
    <2> QED BY <2>1, MergedFieldsNext
  <1>10. NothingLost'
    <2>1. ASSUME NEW h \in DOMAIN RootType, SetMembers(RootType, seed, h) # {}
          PROVE  SetMembers(RootType, root', h) # {}
      BY <1>1, <2>1 DEF Kept, NothingLost, Crossed
    <2>2. ASSUME NEW h \in DOMAIN RootType, IsRepeated(RootType[h])
          PROVE  Len(root'[h]) >= Len(seed[h])
      <3>1. CASE h = f
        <4>1. Merged(seed[f], other[f], root'[f]) BY <1>8, <2>2, <3>1
        <4>2. seed[f] \in Seq(Values(RootType, f)) /\ root'[f] \in Seq(Values(RootType, f))
          BY <1>1, <1>3, MsgFields
        <4> QED BY <3>1, <4>1, <4>2, MergedGrows
      <3>2. CASE h # f BY <1>5, <2>2, <3>2 DEF Kept, NothingLost
      <3> QED BY <3>1, <3>2
    <2> QED BY <1>2, <2>1, <2>2 DEF NothingLost
  <1>11. WholeOrPaired'
    <2>1. ASSUME NEW h \in DOMAIN RootType, RootType[h].kind = "messages"
          PROVE  Whole(h)' \/ Paired(h)'
      <3>1. IsRepeated(RootType[h]) BY <2>1 DEF IsRepeated
      <3>2. CASE h = f
        <4>1. root[h] = seed[h] BY <3>1, <3>2
        <4>2. Range(root'[h]) \subseteq Range(seed[h]) \cup Range(other[h]) BY <1>6, <4>1
        <4> QED BY <1>2, <4>2 DEF Whole
      <3>3. CASE h # f
        <4>1. root'[h] = root[h] BY <1>5, <3>1, <3>3
        <4>2. Whole(h) \/ Paired(h) BY <2>1, WholeFields DEF Kept
        <4> QED BY <1>2, <4>1, <4>2, FieldUnchanged
      <3> QED BY <3>2, <3>3
    <2> QED BY <2>1, WholeFieldsNext
  <1> QED BY <1>3, <1>5, <1>7, <1>9, <1>10, <1>11 DEF Kept

LEMMA KeptUnchanged ==
    ASSUME Kept, root' = root, UNCHANGED call
    PROVE  Kept'
  <1>1. seed' = seed /\ other' = other BY DEF call, seed, other
  <1>2. Provenance' BY <1>1 DEF Kept, Provenance
  <1>3. RepeatedMerge'
    <2>1. ASSUME NEW h \in DOMAIN RootType, RootType[h].kind = "repeated" PROVE MergedIn(h)'
      <3>1. MergedIn(h) BY <2>1, MergedFields DEF Kept
      <3> QED BY <1>1, <3>1, FieldUnchanged
    <2> QED BY <2>1, MergedFieldsNext
  <1>4. NothingLost' BY <1>1 DEF Kept, NothingLost
  <1>5. WholeOrPaired'
    <2>1. ASSUME NEW h \in DOMAIN RootType, RootType[h].kind = "messages"
          PROVE  Whole(h)' \/ Paired(h)'
      <3>1. Whole(h) \/ Paired(h) BY <2>1, WholeFields DEF Kept
      <3> QED BY <1>1, <3>1, FieldUnchanged
    <2> QED BY <2>1, WholeFieldsNext
  <1> QED BY <1>2, <1>3, <1>4, <1>5 DEF Kept

(* An unset embedded message is created empty.                             *)
LEMMA CreatedKept ==
    ASSUME IsRoot(root), pair \in Pairs, Kept, UNCHANGED call,
           NEW f \in DOMAIN RootType, IsMessageType(RootType[f]), ~IsRepeated(RootType[f]),
           RootType[f].oneof = 0, root[f] = <<>>,
           root' = SetField(RootType, root, f, EmptyLeaf)
    PROVE  /\ IsRoot(root') /\ Kept' /\ root'[f] # <<>>
           /\ \A h \in DOMAIN RootType : h # f => root'[h] = root[h]
  <1>1. RootType \in Types BY DEF Types
  <1>2. seed' = seed /\ other' = other BY DEF call, seed, other
  <1>3. EmptyLeaf \in Values(RootType, f) BY EmptyIsLeaf, LeavesAreLeaves DEF Values
  <1>4. IsMsg(RootType, root) BY RootIsMsg
  <1>5. Group(RootType, f) = {f} BY <1>1, GroupLaws
  <1>6. /\ IsMsg(RootType, root') /\ root'[f] = Content(RootType, f, EmptyLeaf)
        /\ \A h \in DOMAIN RootType : h # f => root'[h] = root[h]
    BY <1>1, <1>3, <1>4, <1>5, SetFieldMsg
  <1>7. root'[f] = <<EmptyLeaf>> BY <1>6 DEF Content, IsMessageType
  <1>8. Provenance'
    <2>1. ASSUME NEW k \in DOMAIN LeafType PROVE LeafValues(root', f, k) = {}
      BY <1>7 DEF LeafValues, EmptyLeaf, Range
    <2>2. ASSUME NEW h \in DOMAIN RootType, h # f, NEW k
          PROVE  LeafValues(root', h, k) = LeafValues(root, h, k)
      BY <1>6, <2>2 DEF LeafValues
    <2> QED BY <1>2, <1>6, <2>1, <2>2 DEF Kept, Provenance
  <1>9. RepeatedMerge'
    <2>1. \A h \in DOMAIN RootType : RootType[h].kind = "repeated" => root'[h] = root[h]
      BY <1>6 DEF IsRepeated
    <2>2. ASSUME NEW h \in DOMAIN RootType, RootType[h].kind = "repeated" PROVE MergedIn(h)'
      <3>1. MergedIn(h) BY <2>2, MergedFields DEF Kept
      <3> QED BY <1>2, <2>1, <2>2, <3>1, FieldUnchanged
    <2> QED BY <2>2, MergedFieldsNext
  <1>10. NothingLost'
    <2>1. ASSUME NEW h \in DOMAIN RootType, SetMembers(RootType, seed, h) # {}
          PROVE  SetMembers(RootType, root', h) # {}
      <3>1. PICK k \in Group(RootType, h) : root[k] # <<>>
        BY <2>1 DEF Kept, NothingLost, SetMembers
      <3>2. k \in DOMAIN RootType BY <1>1, GroupLaws
      <3>3. root'[k] # <<>> BY <1>6, <3>1, <3>2
      <3> QED BY <3>3 DEF SetMembers
    <2>2. \A h \in DOMAIN RootType : IsRepeated(RootType[h]) => root'[h] = root[h] BY <1>6
    <2> QED BY <1>2, <2>1, <2>2 DEF Kept, NothingLost
  <1>11. WholeOrPaired'
    <2>1. \A h \in DOMAIN RootType : RootType[h].kind = "messages" => root'[h] = root[h]
      BY <1>6 DEF IsRepeated
    <2>2. ASSUME NEW h \in DOMAIN RootType, RootType[h].kind = "messages" PROVE Whole(h)' \/ Paired(h)'
      <3>1. Whole(h) \/ Paired(h) BY <2>2, WholeFields DEF Kept
      <3> QED BY <1>2, <2>1, <2>2, <3>1, FieldUnchanged
    <2> QED BY <2>2, WholeFieldsNext
  <1> QED BY <1>6, <1>7, <1>8, <1>9, <1>10, <1>11, RootIsMsg DEF Kept

LEMMA InnerKept ==
    ASSUME IsRoot(root), pair \in Pairs, Kept, UNCHANGED call,
           NEW i \in DOMAIN RootType, IsMessageType(RootType[i]), NEW e \in DOMAIN root[i],
           IsRepeated(RootType[i]) \/ other[i] # <<>> => e \in DOMAIN other[i],
           IsRepeated(RootType[i]) => Paired(i),
           NEW g, NEW m, NEW max, Crossed(<<i, e>>, root[i][e], OtherAt(i, e), g, m, max),
           root' = PutAt(root, <<i, e>>, m)
    PROVE  /\ IsRoot(root') /\ Kept' /\ DOMAIN root'[i] = DOMAIN root[i]
           /\ IsRepeated(RootType[i]) => Paired(i)'
           /\ \A h \in DOMAIN RootType : h # i => root'[h] = root[h]
           /\ \A h \in DOMAIN RootType : root'[h] = <<>> <=> root[h] = <<>>
  <1>1. TypeAt(<<i, e>>) = LeafType /\ RootType \in Types /\ IsMsg(RootType, root)
    BY RootIsMsg DEF TypeAt, Types
  <1>2. seed' = seed /\ other' = other BY DEF call, seed, other
  <1>3. IsLeaf(m) BY <1>1, LeafIsMsg DEF Crossed
  <1>4. /\ IsRoot(root') /\ root'[i][e] = m
        /\ DOMAIN root'[i] = DOMAIN root[i] /\ Len(root'[i]) = Len(root[i])
        /\ \A j \in DOMAIN root[i] : j # e => root'[i][j] = root[i][j]
        /\ \A h \in DOMAIN RootType : h # i => root'[h] = root[h]
        /\ \A h \in DOMAIN RootType : root'[h] = <<>> <=> root[h] = <<>>
    BY <1>3, PutEmbedded
  <1>5. ASSUME NEW h \in DOMAIN LeafType
        PROVE  \/ Range(m[h]) \subseteq Range(root[i][e][h])
               \/ /\ e \in DOMAIN other[i]
                  /\ Range(m[h]) \subseteq Range(root[i][e][h]) \cup Range(other[i][e][h])
    <2>1. Range(m[h]) \subseteq Range(root[i][e][h]) \cup Range(OtherAt(i, e)[h])
      BY <1>1 DEF Crossed
    <2>2. CASE other[i] = <<>>
      <3>1. OtherAt(i, e)[h] = <<>> BY <2>2 DEF OtherAt, EmptyLeaf
      <3>2. Range(OtherAt(i, e)[h]) = {} BY <3>1 DEF Range
      <3> QED BY <2>1, <3>2
    <2>3. CASE other[i] # <<>> BY <2>1, <2>3 DEF OtherAt
    <2> QED BY <2>2, <2>3
  <1>6. Provenance'
    <2>1. ASSUME NEW h \in DOMAIN LeafType
          PROVE  LeafValues(root', i, h) \subseteq LeafValues(seed, i, h) \cup LeafValues(other, i, h)
      <3>1. LeafValues(root, i, h) \subseteq LeafValues(seed, i, h) \cup LeafValues(other, i, h)
        BY DEF Kept, Provenance
      <3>2. ASSUME NEW j \in DOMAIN root'[i], NEW v \in Range(root'[i][j][h])
            PROVE  v \in LeafValues(root, i, h) \cup LeafValues(other, i, h)
        <4>1. CASE j = e
          <5>1. e \in DOMAIN root[i] /\ root'[i][j][h] = m[h] BY <1>4, <3>2, <4>1
          <5>2. \/ v \in Range(root[i][e][h])
                \/ e \in DOMAIN other[i] /\ v \in Range(root[i][e][h]) \cup Range(other[i][e][h])
            BY <1>5, <3>2, <5>1
          <5> QED BY <5>1, <5>2 DEF LeafValues
        <4>2. CASE j # e BY <1>4, <3>2, <4>2 DEF LeafValues
        <4> QED BY <4>1, <4>2
      <3>3. LeafValues(root', i, h) \subseteq LeafValues(root, i, h) \cup LeafValues(other, i, h)
        BY <3>2 DEF LeafValues
      <3> QED BY <3>1, <3>3
    <2>2. ASSUME NEW h \in DOMAIN RootType, h # i, NEW k
          PROVE  LeafValues(root', h, k) = LeafValues(root, h, k)
      BY <1>4, <2>2 DEF LeafValues
    <2> QED BY <1>2, <1>4, <2>1, <2>2 DEF Kept, Provenance
  <1>7. RepeatedMerge'
    <2>1. \A h \in DOMAIN RootType : RootType[h].kind = "repeated" => root'[h] = root[h]
      BY <1>4 DEF IsMessageType
    <2>2. ASSUME NEW h \in DOMAIN RootType, RootType[h].kind = "repeated" PROVE MergedIn(h)'
      <3>1. MergedIn(h) BY <2>2, MergedFields DEF Kept
      <3> QED BY <1>2, <2>1, <2>2, <3>1, FieldUnchanged
    <2> QED BY <2>2, MergedFieldsNext
  <1>8. NothingLost'
    <2>1. ASSUME NEW h \in DOMAIN RootType
          PROVE  SetMembers(RootType, root', h) = SetMembers(RootType, root, h)
      <3>1. Group(RootType, h) \subseteq DOMAIN RootType BY <1>1, GroupLaws
      <3> QED BY <1>4, <3>1 DEF SetMembers
    <2>2. \A h \in DOMAIN RootType : Len(root'[h]) = Len(root[h]) BY <1>4
    <2> QED BY <1>2, <2>1, <2>2 DEF Kept, NothingLost
  <1>9. ASSUME IsRepeated(RootType[i]) PROVE Paired(i)'
    <2>1. Paired(i) /\ e \in DOMAIN other[i] BY <1>9
    <2>2. e <= Len(other[i]) /\ Len(other[i]) \in Nat
      <3>1. IsMsg(RootType, other) BY PairIsRoots, RootIsMsg
      <3>2. DOMAIN other[i] = 1 .. Len(other[i]) /\ Len(other[i]) \in Nat BY <1>1, <3>1, MsgFields
      <3> QED BY <2>1, <3>2
    <2>3. Len(root'[i]) = Len(seed[i]) BY <1>4, <2>1 DEF Paired
    <2>4. ASSUME NEW j \in DOMAIN root[i], j > Len(other[i]) PROVE root'[i][j] = seed[i][j]
      <3>1. j # e
        <4>1. DOMAIN root[i] = 1 .. Len(root[i]) /\ Len(root[i]) \in Nat BY <1>1, MsgFields
        <4>2. j \in Int BY <4>1
        <4> QED BY <2>2, <2>4, <4>1, <4>2
      <3> QED BY <1>4, <2>1, <2>4, <3>1 DEF Paired
    <2>5. ASSUME NEW j \in DOMAIN root[i], NEW h \in DOMAIN LeafType, j <= Len(other[i])
          PROVE  Range(root'[i][j][h]) \subseteq Range(seed[i][j][h]) \cup Range(other[i][j][h])
      <3>1. Range(root[i][j][h]) \subseteq Range(seed[i][j][h]) \cup Range(other[i][j][h])
        BY <2>1, <2>5 DEF Paired
      <3>2. CASE j = e
        <4>1. Range(root'[i][j][h]) \subseteq Range(root[i][j][h]) \cup Range(other[i][j][h])
          BY <1>4, <1>5, <3>2
        <4> QED BY <3>1, <4>1
      <3>3. CASE j # e BY <1>4, <3>1, <3>3
      <3> QED BY <3>2, <3>3
    <2> QED BY <1>2, <1>4, <2>3, <2>4, <2>5 DEF Paired
  <1>10. WholeOrPaired'
    <2>1. ASSUME NEW h \in DOMAIN RootType, RootType[h].kind = "messages"
          PROVE  Whole(h)' \/ Paired(h)'
      <3>1. CASE h = i BY <1>9, <2>1, <3>1 DEF IsRepeated
      <3>2. CASE h # i
        <4>1. root'[h] = root[h] BY <1>4, <3>2
        <4>2. Whole(h) \/ Paired(h) BY <2>1, WholeFields DEF Kept
        <4> QED BY <1>2, <4>1, <4>2, FieldUnchanged
      <3> QED BY <3>1, <3>2
    <2> QED BY <2>1, WholeFieldsNext
  <1> QED BY <1>4, <1>6, <1>7, <1>8, <1>9, <1>10 DEF Kept

-----------------------------------------------------------------------------
(* The invariant, step by step.                                            *)

LEMMA CrossInitially ==
    ASSUME SizesAreNumbers, Init
    PROVE  CrossInv /\ Budgeted
  <1>1. /\ pair \in Pairs /\ maxSize \in Budgets /\ root = seed /\ IsRoot(seed) /\ IsRoot(other)
        /\ RootType \in Types /\ IsMsg(RootType, seed)
    BY PairIsRoots, RootIsMsg DEF Init, Types
  <1>2. /\ RootSize(root) \in Nat /\ maxSize \in Nat /\ remain = maxSize - RootSize(root)
        /\ remain \in Int /\ RootSize(seed) + remain = maxSize
    BY <1>1, CrossoverAssumption DEF SizesAreNumbers, Init
  <1>3. Len(RootType) \in Nat BY SchemaLaws DEF Types
  <1>4. Kept
    <2>1. \A f \in DOMAIN RootType : Merged(seed[f], other[f], seed[f])
      BY <1>1, MsgFields, SameMerged
    <2>2. RepeatedMerge BY <1>1, <2>1, MergedFields DEF MergedIn
    <2>3. \A f \in DOMAIN RootType : Len(seed[f]) \in Nat BY <1>1, MsgFields
    <2>4. \A f \in DOMAIN RootType : Len(seed[f]) >= Len(seed[f]) BY <2>3
    <2> QED BY <1>1, <2>2, <2>4 DEF Kept, Provenance, NothingLost, WholeOrPaired
  <1>5. Untouched
    <2>1. stack[1].into = 0 BY DEF Init, Frame
    <2>2. \A h \in DOMAIN RootType : h # 0 BY SchemaLaws DEF Types
    <2> QED BY <1>1, <2>1, <2>2 DEF Untouched
  <1>6. AtField(1) BY <1>2, <1>3 DEF AtField, Init, Frame, Outer
  <1>7. Placed BY <1>6 DEF Placed
  <1>8. stack[1].max = maxSize /\ DOMAIN stack = {1} BY <1>2 DEF Init, Frame
  <1>9. Budgeted BY <1>2, <1>8 DEF Budgeted
  <1> QED BY <1>1, <1>4, <1>5, <1>7, <1>9 DEF CrossInv

(* AdditionsFit, as a condition on one step.                               *)
FittingStep ==
    (\E f \in DOMAIN RootType :
        ~IsMessageType(RootType[f]) /\ Len(root'[f]) > Len(root[f])) => RootSize(root') <= maxSize

(* Frames of an activation, seen as what they are.                         *)
LEMMA NextField ==
    ASSUME NEW f, NEW i, NEW e, stack = <<Outer(f, i, e)>>, NEW m, EndField(m)
    PROVE  /\ root' = m /\ remain' = maxSize - RootSize(m) /\ UNCHANGED call
           /\ stack' = <<Outer(f + 1, 0, 0)>>
  <1>1. Len(stack) = 1 /\ Top = Outer(f, i, e) BY DEF Top, Last
  <1>2. Top.at = <<>> /\ Top.field = f /\ Top.max = maxSize BY <1>1 DEF Outer
  <1>3. Frame(<<>>, f + 1, maxSize) = Outer(f + 1, 0, 0) BY DEF Frame, Outer
  <1>4. stack' = [stack EXCEPT ![1] = Outer(f + 1, 0, 0)] BY <1>1, <1>2, <1>3 DEF EndField
  <1>5. stack' = <<Outer(f + 1, 0, 0)>> BY <1>4
  <1> QED BY <1>2, <1>5 DEF EndField, PutAt, Size, SizeAt

LEMMA IntoEmbedded ==
    ASSUME NEW f, stack = <<Outer(f, 0, 0)>>, NEW m, NEW i, StartDescent(m, i)
    PROVE  /\ root' = m /\ stack' = <<Outer(f, i, 1)>> /\ UNCHANGED <<remain, call>>
  <1>1. Len(stack) = 1 /\ Top = Outer(f, 0, 0) BY DEF Top, Last
  <1>2. Top.at = <<>> BY <1>1 DEF Outer
  <1>3. stack' = <<Outer(f, i, 1)>>
    <2>1. stack' = [stack EXCEPT ![1].into = i, ![1].elem = 1] BY <1>1 DEF StartDescent
    <2>2. Outer(f, i, 1) = [Outer(f, 0, 0) EXCEPT !.into = i, !.elem = 1]
      <3>1. [Outer(f, 0, 0) EXCEPT !.into = i] = Outer(f, i, 0) BY DEF Outer
      <3>2. [Outer(f, i, 0) EXCEPT !.elem = 1] = Outer(f, i, 1) BY DEF Outer
      <3> QED BY <3>1, <3>2
    <2>3. stack' = <<[Outer(f, 0, 0) EXCEPT !.into = i, !.elem = 1]>> BY <2>1
    <2> QED BY <2>2, <2>3
  <1> QED BY <1>2, <1>3 DEF StartDescent, PutAt

(* The outer activation of a step that leaves it at field f.               *)
LEMMA AtFieldNext ==
    ASSUME UNCHANGED call, NEW f \in 1 .. Len(RootType) + 1, stack' = <<Outer(f, 0, 0)>>,
           remain' = maxSize - RootSize(root'), RootSize(root') \in Nat, maxSize \in Nat
    PROVE  Placed' /\ Budgeted'
  <1>1. Outer(f, 0, 0)' = Outer(f, 0, 0) BY DEF Outer, call
  <1>2. AtField(f)' BY <1>1 DEF AtField
  <1>3. Placed' BY <1>2 DEF Placed
  <1>4. DOMAIN stack' = {1} /\ stack'[1].max = maxSize BY DEF Outer
  <1>5. maxSize' = maxSize /\ remain' \in Int BY DEF call
  <1> QED BY <1>3, <1>4, <1>5 DEF Budgeted

(* After a crossover of a field of the outer message.                      *)
LEMMA OuterStep ==
    ASSUME SizesAreNumbers, CrossInv, Budgeted, NEW f, AtField(f), f <= Len(RootType),
           NEW m, EndField(m), Crossed(<<>>, root, other, f, m, HelperMax)
    PROVE  CrossInv' /\ Budgeted' /\ FittingStep
  <1>1. /\ RootType \in Types /\ DOMAIN RootType = 1 .. Len(RootType) /\ Len(RootType) \in Nat
        /\ f \in DOMAIN RootType /\ f + 1 \in 1 .. Len(RootType) + 1
    BY SchemaLaws DEF AtField, Types
  <1>2. /\ stack = <<Outer(f, 0, 0)>> /\ stack # <<>> /\ stack[1].into = 0 /\ stack[1].field = f
    BY DEF AtField, Outer
  <1>3. /\ root' = m /\ remain' = maxSize - RootSize(m) /\ UNCHANGED call
        /\ stack' = <<Outer(f + 1, 0, 0)>>
    BY <1>2, NextField
  <1>4. \A h \in DOMAIN RootType : IsRepeated(RootType[h]) /\ h >= f => root[h] = seed[h]
    <2>1. \A h \in DOMAIN RootType : h # 0 BY <1>1
    <2> QED BY <1>2, <2>1 DEF CrossInv, Untouched
  <1>5. IsRepeated(RootType[f]) => root[f] = seed[f] BY <1>1, <1>4
  <1>6. /\ IsRoot(root') /\ Kept'
        /\ \A h \in DOMAIN RootType : IsRepeated(RootType[h]) /\ h # f => root'[h] = root[h]
    BY <1>1, <1>3, <1>5, OuterKept DEF CrossInv
  <1>7. RootSize(root') \in Nat /\ RootSize(root) \in Nat /\ maxSize \in Nat
    BY <1>6, CrossoverAssumption DEF SizesAreNumbers, CrossInv
  <1>8. Placed' /\ Budgeted' BY <1>1, <1>3, <1>7, AtFieldNext
  <1>9. Untouched'
    <2>1. stack'[1].into = 0 /\ stack'[1].field = f + 1 BY <1>3 DEF Outer
    <2>2. seed' = seed BY <1>3 DEF call, seed
    <2>3. ASSUME NEW h \in DOMAIN RootType, IsRepeated(RootType[h]), h >= f + 1
          PROVE  h # 0 /\ root'[h] = seed[h]
      <3>1. h >= f /\ h # f /\ h # 0 BY <1>1, <2>3
      <3> QED BY <1>4, <1>6, <2>3, <3>1
    <2> QED BY <2>1, <2>2, <2>3 DEF Untouched
  <1>10. FittingStep
    <2>1. HelperMax = maxSize
      <3>1. HelperMax = RootSize(root) + remain BY FieldView
      <3>2. remain = maxSize - RootSize(root) BY DEF Budgeted
      <3> QED BY <1>7, <3>1, <3>2
    <2>2. (\E h \in DOMAIN RootType : Len(m[h]) > Len(root[h])) => RootSize(m) <= maxSize
      BY <2>1 DEF Crossed, TypeAt, SizeAt
    <2> QED BY <1>3, <2>2 DEF FittingStep
  <1>11. pair' \in Pairs /\ maxSize' \in Budgets BY <1>3 DEF call, CrossInv
  <1> QED BY <1>6, <1>8, <1>9, <1>10, <1>11 DEF CrossInv

(* On entering embedded messages, created or not.                          *)
LEMMA EnterStep ==
    ASSUME SizesAreNumbers, CrossInv, Budgeted, NEW f, AtField(f), f <= Len(RootType),
           NEW i \in Group(RootType, f), IsMessageType(RootType[i]),
           NEW m, StartDescent(m, i),
           \/ m = root /\ (IsRepeated(RootType[i]) \/ root[i] # <<>>)
           \/ /\ i = f /\ ~IsRepeated(RootType[f]) /\ RootType[f].oneof = 0 /\ root[f] = <<>>
              /\ m = SetField(RootType, root, f, EmptyLeaf)
    PROVE  CrossInv' /\ Budgeted' /\ FittingStep
  <1>1. /\ RootType \in Types /\ DOMAIN RootType = 1 .. Len(RootType) /\ Len(RootType) \in Nat
        /\ f \in DOMAIN RootType /\ i \in DOMAIN RootType
    BY SchemaLaws, GroupLaws DEF AtField, Types
  <1>2. /\ stack = <<Outer(f, 0, 0)>> /\ stack # <<>> /\ stack[1].into = 0 /\ stack[1].field = f
    BY DEF AtField, Outer
  <1>3. root' = m /\ stack' = <<Outer(f, i, 1)>> /\ UNCHANGED <<remain, call>>
    BY <1>2, IntoEmbedded
  <1>4. seed' = seed /\ other' = other /\ maxSize' = maxSize BY <1>3 DEF call, seed, other
  <1>5. /\ IsRoot(root') /\ Kept'
        /\ \A h \in DOMAIN RootType : root'[h] = root[h] \/ (h = i /\ ~IsRepeated(RootType[i]))
        /\ IsRepeated(RootType[i]) \/ root'[i] # <<>>
    <2>1. CASE m = root /\ (IsRepeated(RootType[i]) \/ root[i] # <<>>)
      <3>1. root' = root BY <1>3, <2>1
      <3>2. Kept' BY <1>3, <3>1, KeptUnchanged DEF CrossInv
      <3> QED BY <2>1, <3>1, <3>2 DEF CrossInv
    <2>2. CASE /\ i = f /\ ~IsRepeated(RootType[f]) /\ RootType[f].oneof = 0 /\ root[f] = <<>>
               /\ m = SetField(RootType, root, f, EmptyLeaf)
      BY <1>1, <1>3, <2>2, CreatedKept DEF CrossInv
    <2> QED BY <2>1, <2>2
  <1>6. BetweenPairs(f, i, 1)'
    <2>1. Outer(f, i, 1)' = Outer(f, i, 1) BY <1>4 DEF Outer
    <2> QED BY <1>1, <1>3, <1>5, <2>1 DEF BetweenPairs, Embedded
  <1>7. Placed' BY <1>6 DEF Placed
  <1>8. Untouched'
    <2>1. stack'[1].into = i /\ stack'[1].field = f BY <1>3 DEF Outer
    <2>2. ASSUME NEW h \in DOMAIN RootType, IsRepeated(RootType[h]), h >= f
          PROVE  root'[h] = seed[h]
      <3>1. h # 0 BY <1>1
      <3>2. root[h] = seed[h] BY <1>2, <2>2, <3>1 DEF CrossInv, Untouched
      <3> QED BY <1>5, <2>2, <3>2
    <2>3. ASSUME NEW h \in DOMAIN RootType, IsRepeated(RootType[h]), root'[h] = seed[h]
          PROVE  Paired(h)'
      <3> QED BY <1>4, <2>3 DEF Paired
    <2> QED BY <1>4, <2>1, <2>2, <2>3 DEF Untouched
  <1>9. Budgeted'
    <2>1. DOMAIN stack' = {1} /\ stack'[1].max = maxSize BY <1>3 DEF Outer
    <2>2. maxSize \in Int /\ remain' \in Int
      BY <1>3, CrossoverAssumption DEF CrossInv, Budgeted
    <2>3. \A h : ~AtField(h)'
      <3>1. i # 0 BY <1>1
      <3>2. stack'[1].into # 0 BY <1>3, <3>1 DEF Outer
      <3>3. \A h : AtField(h)' => stack'[1].into = 0 BY DEF AtField, Outer
      <3> QED BY <3>2, <3>3
    <2> QED BY <2>1, <2>2, <2>3 DEF Budgeted
  <1>10. FittingStep
    <2>1. \A h \in DOMAIN RootType : ~IsMessageType(RootType[h]) => Len(root'[h]) = Len(root[h])
      BY <1>5
    <2>2. ASSUME NEW h \in DOMAIN RootType PROVE Len(root[h]) \in Nat
      BY <1>1, RootIsMsg, MsgFields DEF CrossInv
    <2>3. \A h \in DOMAIN RootType : ~IsMessageType(RootType[h]) => ~(Len(root'[h]) > Len(root[h]))
      BY <2>1, <2>2
    <2> QED BY <2>3 DEF FittingStep
  <1>11. pair' \in Pairs /\ maxSize' \in Budgets BY <1>3 DEF call, CrossInv
  <1> QED BY <1>5, <1>7, <1>8, <1>9, <1>10, <1>11 DEF CrossInv

(* After a crossover inside a pair.                                        *)
LEMMA InnerStep ==
    ASSUME SizesAreNumbers, CrossInv, Budgeted,
           NEW f, NEW i, NEW e, NEW g, NEW x, InPair(f, i, e, g, x), g <= Len(LeafType),
           NEW m, EndField(m), NEW max, Crossed(<<i, e>>, root[i][e], OtherAt(i, e), g, m, max)
    PROVE  CrossInv' /\ Budgeted' /\ FittingStep
  <1>1. /\ RootType \in Types /\ DOMAIN RootType = 1 .. Len(RootType) /\ Len(RootType) \in Nat
        /\ Len(LeafType) \in Nat /\ LeafType \in Types
    BY SchemaLaws DEF Types
  <1>2. /\ f \in DOMAIN RootType /\ i \in Group(RootType, f) /\ IsMessageType(RootType[i])
        /\ ~IsRepeated(RootType[i]) => root[i] # <<>>
        /\ e \in DOMAIN root[i] /\ g \in 1 .. Len(LeafType) + 1
        /\ (IsRepeated(RootType[i]) \/ other[i] # <<>>) => e \in DOMAIN other[i]
    BY DEF InPair, Embedded
  <1>3. i \in DOMAIN RootType /\ (IsRepeated(RootType[i]) => i = f) BY <1>1, <1>2, GroupLaws
  <1>4. /\ stack = <<Outer(f, i, e + 1), Frame(<<i, e>>, g, x)>> /\ Len(stack) = 2
        /\ stack # <<>> /\ stack[1].into = i /\ stack[1].field = f
    BY DEF InPair, Outer
  <1>5. Top = Frame(<<i, e>>, g, x) BY <1>4 DEF Top, Last
  <1>6. Top.at = <<i, e>> /\ Top.field = g /\ Top.max = x BY <1>5 DEF Frame
  <1>7. /\ root' = PutAt(root, <<i, e>>, m) /\ remain' = x - LeafSize(m) /\ UNCHANGED call
        /\ stack' = <<Outer(f, i, e + 1), Frame(<<i, e>>, g + 1, x)>>
    <2>1. stack' = [stack EXCEPT ![2] = Frame(<<i, e>>, g + 1, x)] BY <1>4, <1>6 DEF EndField
    <2>2. stack' = <<Outer(f, i, e + 1), Frame(<<i, e>>, g + 1, x)>> BY <1>4, <2>1
    <2>3. Size(m) = LeafSize(m)
      <3>1. Top.at # <<>> BY <1>6
      <3> QED BY <3>1 DEF Size, SizeAt
    <2>4. root' = PutAt(root, Top.at, m) /\ remain' = Top.max - Size(m) /\ UNCHANGED call
      BY DEF EndField
    <2> QED BY <1>6, <2>2, <2>3, <2>4
  <1>8. seed' = seed /\ other' = other /\ maxSize' = maxSize BY <1>7 DEF call, seed, other
  <1>9. IsRepeated(RootType[i]) => Paired(i)
    <2>1. Len(seed[i]) \in Nat /\ f \in Nat /\ f >= f BY <1>1, <1>2
    <2> QED BY <1>2, <1>3, <1>4, <2>1 DEF CrossInv, Untouched
  <1>10. /\ IsRoot(root') /\ Kept' /\ DOMAIN root'[i] = DOMAIN root[i]
         /\ IsRepeated(RootType[i]) => Paired(i)'
         /\ \A h \in DOMAIN RootType : h # i => root'[h] = root[h]
         /\ \A h \in DOMAIN RootType : root'[h] = <<>> <=> root[h] = <<>>
    BY <1>2, <1>3, <1>7, <1>9, InnerKept DEF CrossInv
  <1>11. Placed'
    <2>1. Outer(f, i, e + 1)' = Outer(f, i, e + 1) BY <1>8 DEF Outer
    <2>2. g + 1 \in 1 .. Len(LeafType) + 1 BY <1>1, <1>2
    <2>3. InPair(f, i, e, g + 1, x)'
      BY <1>2, <1>3, <1>7, <1>8, <1>10, <2>1, <2>2 DEF InPair, Embedded
    <2> QED BY <2>3 DEF Placed
  <1>12. Untouched'
    <2>1. stack'[1].into = i /\ stack'[1].field = f BY <1>7 DEF Outer
    <2>2. ASSUME NEW h \in DOMAIN RootType, IsRepeated(RootType[h]), h >= f
          PROVE  IF h = i THEN Paired(h)' ELSE root'[h] = seed[h]
      <3>1. CASE h = i BY <1>10, <2>2, <3>1
      <3>2. CASE h # i
        <4>1. root[h] = seed[h] BY <1>4, <2>2, <3>2 DEF CrossInv, Untouched
        <4> QED BY <1>10, <3>2, <4>1
      <3> QED BY <3>1, <3>2
    <2> QED BY <1>8, <2>1, <2>2 DEF Untouched
  <1>13. Budgeted'
    <2>1. IsLeaf(m) BY LeafIsMsg DEF Crossed, TypeAt
    <2>2. /\ DOMAIN stack' = 1 .. 2 /\ stack'[1].max = maxSize /\ stack'[2].max = x
      BY <1>7 DEF Outer, Frame
    <2>3. maxSize \in Int /\ x \in Int
      <3>1. stack[2].max = x /\ 2 \in DOMAIN stack BY <1>4 DEF Frame
      <3>2. stack[2].max \in Int BY <3>1 DEF Budgeted
      <3> QED BY <3>1, <3>2, CrossoverAssumption DEF CrossInv
    <2>4. remain' \in Int BY <1>7, <2>1, <2>3 DEF SizesAreNumbers
    <2>5. Len(stack') = 2 /\ \A h : ~(Len(<<Outer(h, 0, 0)>>) = 2) BY <1>7
    <2>6. \A h : ~AtField(h)'
      <3>1. ASSUME NEW h, AtField(h)' PROVE FALSE
        <4>1. stack' = <<Outer(h, 0, 0)'>> BY <3>1 DEF AtField
        <4>2. Len(stack') = 1 BY <4>1
        <4> QED BY <2>5, <4>2
      <3> QED BY <3>1
    <2>7. \A k \in DOMAIN stack' : stack'[k].max \in Int
      <3>1. \A k \in 1 .. 2 : k = 1 \/ k = 2 OBVIOUS
      <3> QED BY <2>2, <2>3, <3>1
    <2> QED BY <2>4, <2>6, <2>7 DEF Budgeted
  <1>14. FittingStep
    <2>1. \A h \in DOMAIN RootType : ~IsMessageType(RootType[h]) => root'[h] = root[h]
      BY <1>2, <1>10
    <2>2. ASSUME NEW h \in DOMAIN RootType PROVE Len(root[h]) \in Nat
      BY <1>1, RootIsMsg, MsgFields DEF CrossInv
    <2>3. \A h \in DOMAIN RootType : ~IsMessageType(RootType[h]) => ~(Len(root'[h]) > Len(root[h]))
      BY <2>1, <2>2
    <2> QED BY <2>3 DEF FittingStep
  <1>15. pair' \in Pairs /\ maxSize' \in Budgets BY <1>7 DEF call, CrossInv
  <1> QED BY <1>10, <1>11, <1>12, <1>13, <1>14, <1>15 DEF CrossInv

(* From one pair of embedded messages to the next, and back out of them.   *)
LEMMA DescendStep ==
    ASSUME SizesAreNumbers, CrossInv, Budgeted, NEW f, NEW i, NEW e, BetweenPairs(f, i, e), Descend
    PROVE  CrossInv' /\ Budgeted' /\ FittingStep
  <1>1. /\ stack = <<Outer(f, i, e)>> /\ stack # <<>> /\ Len(stack) = 1
        /\ Top = Outer(f, i, e) /\ Top.into = i /\ Top.elem = e
        /\ Type = RootType /\ Msg = root /\ Other = other
        /\ Embedded(f, i) /\ e \in Nat \ {0} /\ stack[1] = Outer(f, i, e)
    BY PairsView DEF BetweenPairs
  <1>2. UNCHANGED <<root, remain, call>> BY DEF Descend
  <1>3. seed' = seed /\ other' = other /\ maxSize' = maxSize BY <1>2 DEF call, seed, other
  <1>4. PICK x : x = LeafSize(root[i][e]) + remain OBVIOUS
  <1>5. stack' = <<Outer(f, i, e + 1), Frame(<<i, e>>, 1, x)>>
    <2>1. [Outer(f, i, e) EXCEPT !.elem = e + 1] = Outer(f, i, e + 1) BY DEF Outer
    <2>2. stack' = Append([stack EXCEPT ![1].elem = @ + 1], Frame(<<i, e>>, 1, x))
      BY <1>1, <1>4 DEF Descend
    <2>3. Outer(f, i, e).elem = e BY DEF Outer
    <2>4. [stack EXCEPT ![1].elem = @ + 1] = <<Outer(f, i, e + 1)>>
      <3>1. [stack EXCEPT ![1].elem = @ + 1] = <<[Outer(f, i, e) EXCEPT !.elem = @ + 1]>>
        BY <1>1
      <3>2. [Outer(f, i, e) EXCEPT !.elem = @ + 1] = Outer(f, i, e + 1) BY <2>1, <2>3
      <3> QED BY <3>1, <3>2
    <2>5. stack' = Append(<<Outer(f, i, e + 1)>>, Frame(<<i, e>>, 1, x)) BY <2>2, <2>4, Zenon
    <2> QED BY <2>5, Pushed
  <1>6. /\ RootType \in Types /\ f \in DOMAIN RootType /\ i \in DOMAIN RootType
        /\ IsMsg(RootType, root) /\ IsMsg(RootType, other) /\ Len(LeafType) \in Nat
    BY <1>1, SchemaLaws, GroupLaws, RootIsMsg, PairIsRoots DEF Embedded, Types, CrossInv
  <1>7. /\ DOMAIN root[i] = 1 .. Len(root[i]) /\ Len(root[i]) \in Nat
        /\ DOMAIN other[i] = 1 .. Len(other[i]) /\ Len(other[i]) \in Nat
        /\ root[i] # <<>> => Len(root[i]) > 0
        /\ other[i] # <<>> => Len(other[i]) > 0
        /\ root[i] \in Seq(Values(RootType, i))
    BY <1>6, MsgFields
  <1>8. /\ e \in DOMAIN root[i]
        /\ (IsRepeated(RootType[i]) \/ other[i] # <<>>) => e \in DOMAIN other[i]
    <2>1. e <= PairCount BY <1>1 DEF Descend
    <2>2. CASE RootType[i].kind = "messages"
      <3>1. PairCount = Lesser(Len(root[i]), Len(other[i])) BY <1>1, <2>2 DEF PairCount
      <3>2. PICK a \in Int, b \in Int : a = Len(root[i]) /\ b = Len(other[i]) BY <1>7
      <3>3. Lesser(a, b) \in Int /\ Lesser(a, b) <= a /\ Lesser(a, b) <= b BY LesserBounds
      <3>4. PairCount \in Int /\ PairCount <= a /\ PairCount <= b BY <3>1, <3>2, <3>3
      <3>5. e \in Int /\ e >= 1 BY <1>1
      <3>6. e <= a /\ e <= b BY <2>1, <3>4, <3>5
      <3> QED BY <1>7, <3>2, <3>5, <3>6
    <2>3. CASE RootType[i].kind # "messages"
      <3>1. PairCount = 1 BY <1>1, <2>3 DEF PairCount
      <3>2. e = 1 BY <1>1, <2>1, <3>1
      <3>3. ~IsRepeated(RootType[i]) /\ root[i] # <<>>
        BY <1>1, <2>3 DEF Embedded, IsRepeated, IsMessageType
      <3> QED BY <1>7, <3>2, <3>3
    <2> QED BY <2>2, <2>3
  <1>9. Placed'
    <2>1. Outer(f, i, e + 1)' = Outer(f, i, e + 1) BY <1>3 DEF Outer
    <2>2. InPair(f, i, e, 1, x)' BY <1>1, <1>2, <1>3, <1>5, <1>6, <1>8, <2>1 DEF InPair, Embedded
    <2> QED BY <2>2 DEF Placed
  <1>10. Untouched'
    <2>1. /\ stack'[1].into = stack[1].into /\ stack'[1].field = stack[1].field
      BY <1>1, <1>5 DEF Outer
    <2>2. \A h : Paired(h) => Paired(h)' BY <1>2, <1>3 DEF Paired
    <2> QED BY <1>1, <1>2, <1>3, <2>1, <2>2 DEF CrossInv, Untouched
  <1>11. Budgeted'
    <2>1. maxSize \in Int /\ remain \in Int /\ maxSize' = maxSize
      BY <1>3, CrossoverAssumption DEF CrossInv, Budgeted
    <2>2. x \in Int
      <3>1. root[i][e] \in Leaves BY <1>1, <1>7, <1>8 DEF Values, Embedded
      <3>2. LeafSize(root[i][e]) \in Nat BY <3>1, LeavesAreLeaves DEF SizesAreNumbers
      <3> QED BY <1>4, <2>1, <3>2
    <2>3. /\ DOMAIN stack' = 1 .. 2 /\ stack'[1].max = maxSize /\ stack'[2].max = x
          /\ Len(stack') = 2
      BY <1>5 DEF Outer, Frame
    <2>4. \A k \in DOMAIN stack' : stack'[k].max \in Int
      <3>1. \A k \in 1 .. 2 : k = 1 \/ k = 2 OBVIOUS
      <3> QED BY <2>1, <2>2, <2>3, <3>1
    <2>5. ASSUME NEW h, AtField(h)' PROVE FALSE
      <3>1. stack' = <<Outer(h, 0, 0)'>> BY <2>5 DEF AtField
      <3>2. Len(stack') = 1 BY <3>1
      <3> QED BY <2>3, <3>2
    <2> QED BY <1>2, <2>1, <2>4, <2>5 DEF Budgeted
  <1>12. FittingStep
    <2>1. \A h \in DOMAIN RootType : Len(root[h]) \in Nat BY <1>6, MsgFields
    <2> QED BY <1>2, <2>1 DEF FittingStep
  <1>13. Kept' BY <1>2, KeptUnchanged DEF CrossInv
  <1>14. IsRoot(root') /\ pair' \in Pairs /\ maxSize' \in Budgets BY <1>2 DEF CrossInv, call
  <1> QED BY <1>9, <1>10, <1>11, <1>12, <1>13, <1>14 DEF CrossInv

LEMMA EndDescentStep ==
    ASSUME SizesAreNumbers, CrossInv, Budgeted, NEW f, NEW i, NEW e, BetweenPairs(f, i, e), EndDescent
    PROVE  CrossInv' /\ Budgeted' /\ FittingStep
  <1>1. /\ stack = <<Outer(f, i, e)>> /\ stack # <<>> /\ stack[1].into = i /\ stack[1].field = f
        /\ Msg = root /\ Embedded(f, i)
    BY PairsView DEF BetweenPairs, Outer
  <1>2. /\ root' = root /\ remain' = maxSize - RootSize(root) /\ UNCHANGED call
        /\ stack' = <<Outer(f + 1, 0, 0)>>
    BY <1>1, NextField DEF EndDescent
  <1>3. seed' = seed /\ other' = other /\ maxSize' = maxSize BY <1>2 DEF call, seed, other
  <1>4. /\ RootType \in Types /\ DOMAIN RootType = 1 .. Len(RootType) /\ Len(RootType) \in Nat
        /\ f \in DOMAIN RootType /\ i \in DOMAIN RootType /\ IsMsg(RootType, root)
        /\ IsRepeated(RootType[i]) => i = f
    BY <1>1, SchemaLaws, GroupLaws, RootIsMsg DEF Embedded, Types, CrossInv
  <1>5. Placed' /\ Budgeted'
    <2>1. RootSize(root) \in Nat /\ maxSize \in Nat
      BY CrossoverAssumption DEF SizesAreNumbers, CrossInv
    <2>2. f + 1 \in 1 .. Len(RootType) + 1 BY <1>4
    <2> QED BY <1>2, <2>1, <2>2, AtFieldNext
  <1>6. Untouched'
    <2>1. stack'[1].into = 0 /\ stack'[1].field = f + 1 BY <1>2 DEF Outer
    <2>2. ASSUME NEW h \in DOMAIN RootType, IsRepeated(RootType[h]), h >= f + 1
          PROVE  h # 0 /\ root'[h] = seed[h]
      <3>1. h >= f /\ h # f /\ h # 0 BY <1>4, <2>2
      <3>2. h # i BY <1>4, <2>2, <3>1
      <3>3. root[h] = seed[h] BY <1>1, <2>2, <3>1, <3>2 DEF CrossInv, Untouched
      <3> QED BY <1>2, <3>1, <3>3
    <2> QED BY <1>3, <2>1, <2>2 DEF Untouched
  <1>7. FittingStep
    <2>1. \A h \in DOMAIN RootType : Len(root[h]) \in Nat BY <1>4, MsgFields
    <2> QED BY <1>2, <2>1 DEF FittingStep
  <1>8. Kept' BY <1>2, KeptUnchanged DEF CrossInv
  <1>9. IsRoot(root') /\ pair' \in Pairs /\ maxSize' \in Budgets BY <1>2 DEF CrossInv, call
  <1> QED BY <1>5, <1>6, <1>7, <1>8, <1>9 DEF CrossInv

(* An activation returns: the call is over, or the pair is.                *)
LEMMA ReturnStep ==
    ASSUME CrossInv, Budgeted, Return
    PROVE  CrossInv' /\ Budgeted' /\ FittingStep
  <1>1. UNCHANGED <<root, remain, call>> BY DEF Return
  <1>2. seed' = seed /\ other' = other /\ maxSize' = maxSize BY <1>1 DEF call, seed, other
  <1>3. /\ RootType \in Types /\ IsMsg(RootType, root) BY RootIsMsg DEF Types, CrossInv
  <1>4. FittingStep
    <2>1. \A h \in DOMAIN RootType : Len(root[h]) \in Nat BY <1>3, MsgFields
    <2> QED BY <1>1, <2>1 DEF FittingStep
  <1>5. Kept' BY <1>1, KeptUnchanged DEF CrossInv
  <1>6. IsRoot(root') /\ pair' \in Pairs /\ maxSize' \in Budgets BY <1>1 DEF CrossInv, call
  <1>7. CASE \E f : AtField(f)
    <2>1. PICK f : AtField(f) BY <1>7
    <2>2. stack = <<Outer(f, 0, 0)>> BY <2>1 DEF AtField
    <2>3. stack' = <<>> BY <2>2 DEF Return, Front
    <2>4. Placed' /\ Untouched' BY <2>3 DEF Placed, Untouched
    <2>5. Budgeted'
      <3>1. DOMAIN stack' = {} BY <2>3
      <3>2. \A h : ~AtField(h)' BY <2>3 DEF AtField
      <3> QED BY <1>1, <3>1, <3>2 DEF Budgeted
    <2> QED BY <1>4, <1>5, <1>6, <2>4, <2>5 DEF CrossInv
  <1>8. CASE \E f, i, e : BetweenPairs(f, i, e)
    <2>1. PICK f, i, e : BetweenPairs(f, i, e) BY <1>8
    <2>2. Top.into # 0 BY <2>1, PairsView
    <2> QED BY <2>2 DEF Return
  <1>9. CASE \E f, i, e, g, x : InPair(f, i, e, g, x)
    <2>1. PICK f, i, e, g, x : InPair(f, i, e, g, x) BY <1>9
    <2>2. stack = <<Outer(f, i, e + 1), Frame(<<i, e>>, g, x)>> /\ Embedded(f, i)
          /\ e \in DOMAIN root[i]
      BY <2>1 DEF InPair
    <2>3. stack' = <<Outer(f, i, e + 1)>>
      <3>1. PICK a, b : a = Outer(f, i, e + 1) /\ b = Frame(<<i, e>>, g, x) OBVIOUS
      <3>2. stack = <<a, b>> /\ Len(stack) = 2 BY <2>2, <3>1
      <3>3. stack' = SubSeq(<<a, b>>, 1, 1) BY <3>2 DEF Return, Front
      <3> QED BY <3>1, <3>3, Popped
    <2>4. i \in DOMAIN RootType /\ i # 0 BY <1>3, <2>2, SchemaLaws, GroupLaws DEF Embedded
    <2>5. e + 1 \in Nat \ {0}
      <3>1. e \in 1 .. Len(root[i]) /\ Len(root[i]) \in Nat BY <1>3, <2>2, <2>4, MsgFields
      <3> QED BY <3>1
    <2>6. Placed'
      <3>1. Outer(f, i, e + 1)' = Outer(f, i, e + 1) BY <1>2 DEF Outer
      <3>2. BetweenPairs(f, i, e + 1)'
        BY <1>1, <2>2, <2>3, <2>5, <3>1 DEF BetweenPairs, Embedded
      <3> QED BY <3>2 DEF Placed
    <2>7. Untouched'
      <3>1. stack # <<>> /\ stack'[1] = stack[1] BY <2>2, <2>3
      <3>2. \A h : Paired(h) => Paired(h)' BY <1>1, <1>2 DEF Paired
      <3> QED BY <1>1, <1>2, <3>1, <3>2 DEF CrossInv, Untouched
    <2>8. Budgeted'
      <3>1. DOMAIN stack' = {1} /\ stack'[1] = stack[1] /\ 1 \in DOMAIN stack BY <2>2, <2>3
      <3>2. stack'[1].into # 0 BY <2>3, <2>4 DEF Outer
      <3>3. \A h : AtField(h)' => stack'[1].into = 0 BY DEF AtField, Outer
      <3> QED BY <1>1, <3>1, <3>2, <3>3 DEF Budgeted
    <2> QED BY <1>4, <1>5, <1>6, <2>6, <2>7, <2>8 DEF CrossInv
  <1> QED BY <1>7, <1>8, <1>9 DEF CrossInv, Placed, Return

-----------------------------------------------------------------------------
LEMMA LoopStep ==
    ASSUME SizesAreNumbers, CrossInv, Budgeted, InLoop,
           NoCrossover \/ Replace \/ CrossoverAdd \/ EnterMessage
    PROVE  CrossInv' /\ Budgeted' /\ FittingStep
  <1>1. /\ RootType \in Types /\ DOMAIN RootType = 1 .. Len(RootType) /\ Len(RootType) \in Nat
        /\ LeafType \in Types /\ DOMAIN LeafType = 1 .. Len(LeafType) /\ Len(LeafType) \in Nat
    BY SchemaLaws DEF Types
  <1>2. IsMsg(RootType, root) /\ IsMsg(RootType, other) BY RootIsMsg, PairIsRoots DEF CrossInv
  <1>3. CASE \E f : AtField(f)
    <2>1. PICK f : AtField(f) BY <1>3
    <2>2. /\ F = f /\ Type = RootType /\ Msg = root /\ Other = other /\ Top.at = <<>>
      BY <2>1, FieldView
    <2>3. f \in DOMAIN RootType /\ f <= Len(RootType)
      BY <1>1, <2>1, <2>2 DEF InLoop, AtField
    <2>4. CASE \E m : EndField(m) /\ Crossed(Top.at, Msg, Other, F, m, HelperMax)
      BY <2>1, <2>2, <2>3, <2>4, OuterStep
    <2>5. CASE \E i \in Group(Type, F) :
                  /\ IsMessageType(Type[i]) /\ StartDescent(Msg, i)
                  /\ IsRepeated(Type[i]) \/ Msg[i] # <<>>
      BY <2>1, <2>2, <2>3, <2>5, EnterStep
    <2>6. CASE /\ IsMessageType(Type[F]) /\ ~IsRepeated(Type[F]) /\ Type[F].oneof = 0
               /\ Msg[F] = <<>> /\ StartDescent(SetField(Type, Msg, F, EmptyLeaf), F)
      <3>1. f \in Group(RootType, f) BY <1>1, <2>3, GroupLaws
      <3>2. PICK m : m = SetField(RootType, root, f, EmptyLeaf) OBVIOUS
      <3> QED BY <2>1, <2>2, <2>3, <2>6, <3>1, <3>2, EnterStep
    <2> QED BY <1>2, <2>2, <2>3, <2>4, <2>5, <2>6, LoopBody
  <1>4. CASE \E f, i, e : BetweenPairs(f, i, e)
    <2>1. PICK f, i, e : BetweenPairs(f, i, e) BY <1>4
    <2>2. Top.into # 0 BY <2>1, PairsView
    <2> QED BY <2>2 DEF InLoop
  <1>5. CASE \E f, i, e, g, x : InPair(f, i, e, g, x)
    <2>1. PICK f, i, e, g, x : InPair(f, i, e, g, x) BY <1>5
    <2>2. /\ F = g /\ Type = LeafType /\ Msg = root[i][e] /\ Other = OtherAt(i, e)
          /\ Top.at = <<i, e>>
      BY <2>1, PairView
    <2>3. g \in DOMAIN LeafType /\ g <= Len(LeafType) BY <1>1, <2>1, <2>2 DEF InLoop, InPair
    <2>4. /\ i \in DOMAIN RootType /\ IsMessageType(RootType[i]) /\ e \in DOMAIN root[i]
          /\ other[i] # <<>> => e \in DOMAIN other[i]
      BY <1>1, <2>1, GroupLaws DEF InPair, Embedded
    <2>5. IsMsg(LeafType, Msg) /\ IsMsg(LeafType, Other)
      <3>1. root[i] \in Seq(Leaves) /\ other[i] \in Seq(Leaves)
        BY <1>1, <1>2, <2>4, MsgFields DEF Values
      <3>2. root[i][e] \in Leaves BY <2>4, <3>1
      <3>3. OtherAt(i, e) = EmptyLeaf \/ OtherAt(i, e) \in Leaves BY <2>4, <3>1 DEF OtherAt
      <3> QED BY <2>2, <3>2, <3>3, LeavesAreLeaves, LeafIsMsg, EmptyIsLeaf
    <2>6. \A h \in DOMAIN LeafType : ~IsMessageType(LeafType[h]) BY LeafHasNoMessage
    <2>7. Group(LeafType, g) \subseteq DOMAIN LeafType BY <1>1, <2>3, GroupLaws
    <2>8. \E m : EndField(m) /\ Crossed(Top.at, Msg, Other, F, m, HelperMax)
      BY <2>2, <2>3, <2>5, <2>6, <2>7, LoopBody
    <2>9. PICK m : EndField(m) /\ Crossed(<<i, e>>, root[i][e], OtherAt(i, e), g, m, HelperMax)
      BY <2>2, <2>8
    <2> QED BY <2>1, <2>3, <2>9, InnerStep
  <1> QED BY <1>3, <1>4, <1>5 DEF CrossInv, Placed, InLoop

LEMMA CrossStep ==
    ASSUME SizesAreNumbers, CrossInv, Budgeted, [Next]_vars
    PROVE  CrossInv' /\ Budgeted' /\ [FittingStep]_vars
  <1>1. CASE UNCHANGED vars
    <2>1. /\ root' = root /\ remain' = remain /\ stack' = stack /\ UNCHANGED call
          /\ seed' = seed /\ other' = other /\ maxSize' = maxSize /\ pair' = pair
      BY <1>1 DEF vars, call, seed, other
    <2>2. Kept' BY <2>1, KeptUnchanged DEF CrossInv
    <2>3. \A f, i, e : Outer(f, i, e)' = Outer(f, i, e) BY <2>1 DEF Outer
    <2>4. Placed'
      <3>1. \A f : AtField(f) => AtField(f)' BY <2>1, <2>3 DEF AtField
      <3>2. \A f, i : Embedded(f, i) => Embedded(f, i)' BY <2>1 DEF Embedded
      <3>3. \A f, i, e : BetweenPairs(f, i, e) => BetweenPairs(f, i, e)'
        BY <2>1, <2>3, <3>2 DEF BetweenPairs
      <3>4. \A f, i, e, g, x : InPair(f, i, e, g, x) => InPair(f, i, e, g, x)'
        BY <2>1, <2>3, <3>2 DEF InPair
      <3>5. stack = <<>> => stack' = <<>> BY <2>1
      <3>6. Placed BY DEF CrossInv
      <3> QED BY ZenonT(30), <3>1, <3>3, <3>4, <3>5, <3>6 DEF Placed
    <2>5. \A h : Paired(h) => Paired(h)' BY <2>1 DEF Paired
    <2>6. Untouched'
      <3>1. Untouched BY DEF CrossInv
      <3> QED BY ZenonT(30), <2>1, <2>5, <3>1 DEF Untouched
    <2>7. Budgeted' BY <2>1, <2>3 DEF Budgeted, AtField
    <2> QED BY <1>1, <2>1, <2>2, <2>4, <2>6, <2>7 DEF CrossInv
  <1>2. CASE NoCrossover \/ Replace \/ CrossoverAdd \/ EnterMessage
    <2>1. InLoop BY <1>2 DEF NoCrossover, Replace, CrossoverAdd, EnterMessage
    <2> QED BY <1>2, <2>1, LoopStep
  <1>3. CASE Descend \/ EndDescent
    <2>1. stack # <<>> /\ Top.into # 0 BY <1>3 DEF Descend, EndDescent
    <2>2. \A f : ~AtField(f) BY <2>1, FieldView
    <2>3. \A f, i, e, g, x : ~InPair(f, i, e, g, x) BY <2>1, PairView
    <2>4. PICK f, i, e : BetweenPairs(f, i, e) BY <2>1, <2>2, <2>3 DEF CrossInv, Placed
    <2> QED BY <1>3, <2>4, DescendStep, EndDescentStep
  <1>4. CASE Return BY <1>4, ReturnStep
  <1> QED BY <1>1, <1>2, <1>3, <1>4 DEF Next

(* The invariant holds in every state of a call.                           *)
LEMMA CrossInvariance ==
    ASSUME SizesAreNumbers
    PROVE  Spec => [](CrossInv /\ Budgeted) /\ [][FittingStep]_vars
  <1>1. Init => CrossInv /\ Budgeted BY CrossInitially
  <1>2. CrossInv /\ Budgeted /\ [Next]_vars => (CrossInv /\ Budgeted)' /\ [FittingStep]_vars
    BY CrossStep
  <1> QED BY <1>1, <1>2, PTL DEF Spec

(* The types: activations are at the outer message or at one embedded in   *)
(* it, and every budget is a number, possibly negative.                    *)
THEOREM CrossoverTypes ==
    ASSUME SizesAreNumbers
    PROVE  Spec => []TypeOK
  <1> DEFINE Position == {<<>>} \cup ((DOMAIN RootType) \X (Nat \ {0}))
             Activation == [at : Position, field : Nat, into : Nat, elem : Nat, max : Int]
  <1>1. CrossInv /\ Budgeted => TypeOK
    <2> SUFFICES ASSUME CrossInv, Budgeted PROVE TypeOK OBVIOUS
    <2>1. /\ RootType \in Types /\ DOMAIN RootType = 1 .. Len(RootType) /\ Len(RootType) \in Nat
          /\ Len(LeafType) \in Nat /\ IsMsg(RootType, root)
      BY SchemaLaws, RootIsMsg DEF Types, CrossInv
    <2>2. maxSize \in Int BY CrossoverAssumption DEF CrossInv
    <2>3. ASSUME NEW f \in Nat, NEW i \in Nat, NEW e \in Nat PROVE Outer(f, i, e) \in Activation
      <3>1. <<>> \in Position OBVIOUS
      <3> QED BY <2>2, <2>3, <3>1 DEF Outer
    <2>4. ASSUME NEW f, NEW i, Embedded(f, i) PROVE f \in Nat /\ i \in Nat /\ i \in DOMAIN RootType
      <3>1. f \in DOMAIN RootType /\ i \in DOMAIN RootType BY <2>1, <2>4, GroupLaws DEF Embedded
      <3> QED BY <2>1, <3>1
    <2>5. ASSUME NEW f, AtField(f) PROVE stack \in Seq(Activation)
      <3>1. f \in Nat BY <2>1, <2>5 DEF AtField
      <3>2. Outer(f, 0, 0) \in Activation BY <2>3, <3>1
      <3> HIDE DEF Activation
      <3> QED BY <2>5, <3>2 DEF AtField
    <2>6. ASSUME NEW f, NEW i, NEW e, BetweenPairs(f, i, e) PROVE stack \in Seq(Activation)
      <3>1. Outer(f, i, e) \in Activation BY <2>3, <2>4, <2>6 DEF BetweenPairs
      <3> HIDE DEF Activation
      <3> QED BY <2>6, <3>1 DEF BetweenPairs
    <2>7. ASSUME NEW f, NEW i, NEW e, NEW g, NEW x, InPair(f, i, e, g, x)
          PROVE  stack \in Seq(Activation)
      <3>1. /\ stack = <<Outer(f, i, e + 1), Frame(<<i, e>>, g, x)>> /\ Embedded(f, i)
            /\ e \in DOMAIN root[i] /\ g \in 1 .. Len(LeafType) + 1
        BY <2>7 DEF InPair
      <3>2. e \in Nat \ {0} /\ g \in Nat
        <4>1. DOMAIN root[i] = 1 .. Len(root[i]) /\ Len(root[i]) \in Nat
          BY <2>1, <2>4, <3>1, MsgFields
        <4> QED BY <2>1, <3>1, <4>1
      <3>3. x \in Int
        <4>1. 2 \in DOMAIN stack /\ stack[2].max = x BY <3>1 DEF Frame
        <4> QED BY <4>1 DEF Budgeted
      <3>4. Outer(f, i, e + 1) \in Activation
        <4>1. e + 1 \in Nat /\ f \in Nat /\ i \in Nat BY <2>4, <3>1, <3>2
        <4> HIDE DEF Activation
        <4> QED BY <2>3, <4>1
      <3>5. <<i, e>> \in Position BY <2>4, <3>1, <3>2
      <3>6. Frame(<<i, e>>, g, x) \in Activation BY <3>2, <3>3, <3>5 DEF Frame
      <3> HIDE DEF Activation
      <3> QED BY <3>1, <3>4, <3>6
    <2>8. stack \in Seq(Activation)
      <3>1. CASE stack = <<>> BY <3>1
      <3> QED BY <2>5, <2>6, <2>7, <3>1 DEF CrossInv, Placed
    <2> QED BY <2>8 DEF TypeOK, CrossInv, Budgeted
  <1> QED BY <1>1, CrossInvariance, PTL

(* Crossover takes nothing away, whatever fits or does not.                *)
THEOREM CrossoverLosesNothing ==
    ASSUME SizesAreNumbers
    PROVE  Spec => []NothingLost
  <1>1. CrossInv => NothingLost BY DEF CrossInv, Kept
  <1> QED BY <1>1, CrossInvariance, PTL

(* Crossover invents nothing.                                              *)
THEOREM CrossoverInventsNothing ==
    ASSUME SizesAreNumbers
    PROVE  Spec => []Provenance
  <1>1. CrossInv => Provenance BY DEF CrossInv, Kept
  <1> QED BY <1>1, CrossInvariance, PTL

(* A repeated scalar field is extended or replaced in place, never both.   *)
THEOREM RepeatedFieldsMerge ==
    ASSUME SizesAreNumbers
    PROVE  Spec => []RepeatedMerge
  <1>1. CrossInv => RepeatedMerge BY DEF CrossInv, Kept
  <1> QED BY <1>1, CrossInvariance, PTL

(* Embedded messages are exchanged whole or crossed over pairwise, not both*)
(* (mutator.h:44).                                                         *)
THEOREM WholeMessagesOrPairs ==
    ASSUME SizesAreNumbers
    PROVE  Spec => []WholeOrPaired
  <1>1. CrossInv => WholeOrPaired BY DEF CrossInv, Kept
  <1> QED BY <1>1, CrossInvariance, PTL

(* Adding a value to the outer message leaves all of it within max_size.   *)
THEOREM AdditionsRespectLimit ==
    ASSUME SizesAreNumbers
    PROVE  Spec => AdditionsFit
  <1>1. [FittingStep]_vars <=>
        [ (\E f \in DOMAIN RootType :
              ~IsMessageType(RootType[f]) /\ Len(root'[f]) > Len(root[f]))
          => RootSize(root') <= maxSize ]_vars
    BY DEF FittingStep
  <1> QED BY <1>1, CrossInvariance, PTL DEF AdditionsFit
=============================================================================
