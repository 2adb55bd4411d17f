------------------------- MODULE LibFuzzer_proofs -------------------------
(***************************************************************************)
(* The fuzzing process of libFuzzer, for any target, units and flags:      *)
(*   - the corpus and the loop (FuzzLoop): the counts of the elements, the *)
(*     features they are recorded for and the evictions always agree, and  *)
(*     sizes and limits stay in their bounds;                              *)
(*   - the callbacks (CrashCallbacks): the fuzzing thread reports the unit *)
(*     it was given, whole, and at most one of the callbacks that ask for  *)
(*     the crash state reports;                                            *)
(*   - the mutations (ByteMutations): the words of the current sequence    *)
(*     are what was applied, until they are recorded;                      *)
(*   - the coverage (TracePC): what is counted becomes features, and the   *)
(*     features are those of counters.                                     *)
(* The driver (FuzzerDriver): for a command line with one task, every      *)
(* process launched does what it is launched for, and for any command line *)
(* the processes come to an end.                                           *)
(* At the end the parts of LibFuzzer are put together: what each of them   *)
(* keeps, every process of libFuzzer keeps.                                *)
(***************************************************************************)
EXTENDS LibFuzzer, CrashResistantMerge_proofs, DriverTasks_proofs, WellFoundedInduction

-----------------------------------------------------------------------------
(* The corpus and the loop *)

(* The features recorded for element i, by their slots.                    *)
Owned(i) == {s \in Slots : ownerSize[s] > 0 /\ owner[s] = i}

CorpusTypes ==
    /\ corpus \in Seq(Elements)
    /\ owner \in [Slots -> 0 .. Len(corpus)]
    /\ ownerSize \in [Slots -> Nat]
    /\ disk \subseteq Inputs
    /\ \A s \in Slots : ownerSize[s] > 0 => owner[s] \in DOMAIN corpus

(* The count of an element is that of its slots, and it is evicted when    *)
(* there are none.                                                         *)
Accounts ==
    \A i \in DOMAIN corpus :
        /\ corpus[i].features = Cardinality(Owned(i))
        /\ Evicted(i) <=> corpus[i].features = 0

(* UniqFeatureSet is what the element was added for: it covers its slots,  *)
(* whatever it has lost since, and its unit shows it, even when Replace    *)
(* has changed that unit (MayReplace asks for the whole set).              *)
Shown ==
    /\ \A i \in DOMAIN corpus : ~Evicted(i) => corpus[i].uniq \subseteq FeaturesOf[corpus[i].unit]
    /\ \A s \in Slots : ownerSize[s] > 0 => \E f \in corpus[owner[s]].uniq : Slot(f) = s

CorpusInv == CorpusTypes /\ Accounts /\ Shown

FuzzInv ==
    /\ CorpusInv
    /\ seeds \in Seq(Inputs)
    /\ fpc \in {"ran", "ran new"} => unit \in Inputs
    /\ fpc \in {"mutate", "ran"} => base \in DOMAIN corpus /\ ~Evicted(base)

-----------------------------------------------------------------------------
(* Slots and the features that are taken over *)

LEMMA SlotsAreFinite == IsFiniteSet(Slots)
  BY FuzzAssumption, FS_Interval DEF Slots

LEMMA SlotIsSlot == \A f \in Nat : Slot(f) \in Slots
  BY FuzzAssumption DEF Slot, Slots

LEMMA OwnedIsFinite == \A i : IsFiniteSet(Owned(i)) /\ Cardinality(Owned(i)) \in Nat
  <1> SUFFICES ASSUME NEW i PROVE IsFiniteSet(Owned(i)) /\ Cardinality(Owned(i)) \in Nat
    OBVIOUS
  <1>1. Owned(i) \in SUBSET Slots BY DEF Owned
  <1>2. IsFiniteSet(Owned(i)) BY <1>1, SlotsAreFinite, FS_Subset
  <1> QED BY <1>2, FS_CardinalityType

SlotsOf(T) == {Slot(f) : f \in T}

(* A second feature of the same slot finds that AddFeature has set the     *)
(* slot's size for the first one: features taken over and slots are as     *)
(* many.                                                                   *)
LEMMA OneFeaturePerSlot ==
    ASSUME NEW u \in Inputs, NEW T \in SUBSET Taken(u)
    PROVE  /\ IsFiniteSet(T) /\ IsFiniteSet(SlotsOf(T))
           /\ Cardinality(T) = Cardinality(SlotsOf(T))
  <1> DEFINE slot == [f \in T |-> Slot(f)]
  <1>1. T \subseteq Nat BY TargetAssumption DEF Taken
  <1>2. SlotsOf(T) \in SUBSET Slots BY <1>1, SlotIsSlot DEF SlotsOf
  <1>3. IsFiniteSet(SlotsOf(T)) BY <1>2, SlotsAreFinite, FS_Subset
  <1>4. \A f, g \in T : Slot(f) = Slot(g) => f = g
    <2> SUFFICES ASSUME NEW f \in T, NEW g \in T, Slot(f) = Slot(g) PROVE f = g
      OBVIOUS
    <2>1. f <= g /\ g <= f BY DEF Taken
    <2> QED BY <1>1, <2>1
  <1>5. slot \in Injection(T, SlotsOf(T)) BY <1>4 DEF Injection, SlotsOf, IsInjective
  <1>6. slot \in Surjection(T, SlotsOf(T)) BY DEF Surjection, SlotsOf
  <1> QED BY <1>3, <1>5, <1>6, FS_Injection

-----------------------------------------------------------------------------
(* AddToCorpus *)

LEMMA EmptyCount ==
    ASSUME NEW S, IsFiniteSet(S)
    PROVE  Cardinality(S) \in Nat /\ (Cardinality(S) = 0 <=> S = {})
  BY FS_EmptySet, FS_CardinalityType

(* What element i loses to u are the slots the two have in common.         *)
LEMMA LostSlots ==
    ASSUME CorpusInv, NEW u \in Inputs, NEW i
    PROVE  /\ LostBy(i, u) \in Nat
           /\ LostBy(i, u) = Cardinality(Owned(i)) - Cardinality(Owned(i) \ SlotsOf(Taken(u)))
  <1> DEFINE lost == {f \in Taken(u) : ownerSize[Slot(f)] > 0 /\ owner[Slot(f)] = i}
             common == Owned(i) \cap SlotsOf(Taken(u))
  <1>1. lost \in SUBSET Taken(u) OBVIOUS
  <1>2. \A f \in Taken(u) : Slot(f) \in Slots BY TargetAssumption, SlotIsSlot DEF Taken
  <1>3. SlotsOf(lost) = common BY <1>2 DEF SlotsOf, Owned
  <1>4. Cardinality(lost) = Cardinality(SlotsOf(lost)) /\ IsFiniteSet(lost)
    BY <1>1, OneFeaturePerSlot
  <1>5. Cardinality(Owned(i) \ SlotsOf(Taken(u))) = Cardinality(Owned(i)) - Cardinality(common)
    BY OwnedIsFinite, FS_Difference
  <1>6. LostBy(i, u) = Cardinality(lost) BY DEF LostBy
  <1>7. Cardinality(lost) \in Nat BY <1>4, FS_CardinalityType
  <1>8. Cardinality(Owned(i)) \in Nat BY OwnedIsFinite
  <1> HIDE DEF lost, common
  <1> QED BY <1>3, <1>4, <1>5, <1>6, <1>7, <1>8

LEMMA FewerFeatures ==
    ASSUME NEW e \in Elements, NEW n \in Nat
    PROVE  /\ [e EXCEPT !.features = n] \in Elements
           /\ [e EXCEPT !.features = n].features = n
           /\ [e EXCEPT !.features = n].unit = e.unit
           /\ [e EXCEPT !.features = n].uniq = e.uniq
  BY DEF Elements

LEMMA NoFeatures ==
    ASSUME NEW e \in Elements
    PROVE  /\ [e EXCEPT !.features = 0, !.unit = Empty] \in Elements
           /\ [e EXCEPT !.features = 0, !.unit = Empty].features = 0
           /\ [e EXCEPT !.features = 0, !.unit = Empty].unit = Empty
           /\ [e EXCEPT !.features = 0, !.unit = Empty].uniq = e.uniq
  BY DEF Elements

LEMMA AfterLossesOf ==
    ASSUME CorpusInv, NEW u \in Inputs, NEW i \in DOMAIN corpus
    PROVE  LET e == AfterLosses(u)[i]
               kept == Owned(i) \ SlotsOf(Taken(u))
           IN  /\ e \in Elements
               /\ e.features = Cardinality(kept)
               /\ e.uniq = corpus[i].uniq
               /\ e.unit = Empty <=> e.features = 0
               /\ e.unit # Empty => e.unit = corpus[i].unit
  <1> DEFINE kept == Owned(i) \ SlotsOf(Taken(u))
             left == corpus[i].features - LostBy(i, u)
  <1>1. corpus[i] \in Elements /\ corpus[i].features = Cardinality(Owned(i))
    BY DEF CorpusInv, CorpusTypes, Accounts
  <1>2. kept \in SUBSET Owned(i) OBVIOUS
  <1>3. IsFiniteSet(kept) BY <1>2, OwnedIsFinite, FS_Subset
  <1>4. Cardinality(kept) \in Nat BY <1>3, EmptyCount
  <1>5. left = Cardinality(kept) /\ LostBy(i, u) \in Nat
    BY <1>1, <1>4, LostSlots, OwnedIsFinite
  <1>6. CASE LostBy(i, u) > 0 /\ left = 0
    <2>1. AfterLosses(u)[i] = [corpus[i] EXCEPT !.features = 0, !.unit = Empty]
      BY <1>6 DEF AfterLosses
    <2> HIDE DEF left, kept
    <2> QED BY <1>1, <1>4, <1>5, <1>6, <2>1, NoFeatures DEF kept
  <1>7. CASE ~(LostBy(i, u) > 0 /\ left = 0)
    <2>1. AfterLosses(u)[i] = [corpus[i] EXCEPT !.features = left]
      BY <1>7 DEF AfterLosses
    <2>2. left = 0 <=> corpus[i].features = 0
      BY <1>1, <1>4, <1>5, <1>7, OwnedIsFinite
    <2>3. corpus[i].unit = Empty <=> corpus[i].features = 0 BY DEF CorpusInv, Accounts, Evicted
    <2> HIDE DEF left, kept
    <2>4. left \in Nat BY <1>4, <1>5
    <2>5. corpus[i] \in Elements BY <1>1
    <2>6. /\ AfterLosses(u)[i] \in Elements /\ AfterLosses(u)[i].features = left
          /\ AfterLosses(u)[i].unit = corpus[i].unit /\ AfterLosses(u)[i].uniq = corpus[i].uniq
      BY <2>1, <2>4, <2>5, FewerFeatures
    <2> QED BY <1>5, <2>2, <2>3, <2>6 DEF kept
  <1> QED BY <1>6, <1>7

(* The slots u takes over pass to the new element, with a smaller size or  *)
(* as the first; every other slot keeps its element.                       *)
LEMMA AddKeeps ==
    ASSUME CorpusInv, NEW u \in Inputs, NEW mayDelete \in BOOLEAN, AddToCorpus(u, mayDelete),
           Taken(u) # {}
    PROVE  CorpusInv'
  <1> DEFINE new == [unit |-> u, features |-> Cardinality(Taken(u)), mayDelete |-> mayDelete, uniq |-> Taken(u)]
             n == Len(corpus)
             slots == SlotsOf(Taken(u))
  <1>1. /\ corpus' = Append(AfterLosses(u), new)
        /\ owner' = [s \in Slots |-> IF s \in slots THEN n + 1 ELSE owner[s]]
        /\ ownerSize' = [s \in Slots |-> IF s \in slots THEN SizeOf[u] ELSE ownerSize[s]]
        /\ disk' \subseteq disk
    BY DEF AddToCorpus, SlotsOf
  <1>2. n \in Nat /\ DOMAIN corpus = 1 .. n BY DEF CorpusInv, CorpusTypes
  <1>3. /\ Taken(u) \in SUBSET Nat /\ Taken(u) \subseteq FeaturesOf[u]
        /\ slots \subseteq Slots
    BY TargetAssumption, SlotIsSlot DEF Taken, SlotsOf
  <1>4. /\ IsFiniteSet(Taken(u)) /\ Cardinality(Taken(u)) = Cardinality(slots)
        /\ Cardinality(Taken(u)) \in Nat \ {0}
    BY OneFeaturePerSlot, EmptyCount
  <1>5. new \in Elements
    <2> DEFINE count == Cardinality(Taken(u))
               its == Taken(u)
    <2>1. count \in Nat /\ its \in SUBSET Nat BY <1>3, <1>4
    <2> HIDE DEF count, its
    <2>2. new = [unit |-> u, features |-> count, mayDelete |-> mayDelete, uniq |-> its]
      BY DEF count, its
    <2> HIDE DEF new
    <2> QED BY <2>1, <2>2 DEF Elements
  <1>6. AfterLosses(u) \in Seq(Elements) /\ Len(AfterLosses(u)) = n
    <2>1. DOMAIN AfterLosses(u) = 1 .. n BY <1>2 DEF AfterLosses
    <2>2. \A i \in 1 .. n : AfterLosses(u)[i] \in Elements BY <1>2, AfterLossesOf
    <2>3. AfterLosses(u) = [i \in 1 .. n |-> AfterLosses(u)[i]] BY <1>2 DEF AfterLosses
    <2>4. AfterLosses(u) \in [1 .. n -> Elements] BY <2>2, <2>3
    <2> QED BY <1>2, <2>1, <2>4
  <1>7. /\ corpus' \in Seq(Elements) /\ Len(corpus') = n + 1
        /\ DOMAIN corpus' = 1 .. n + 1
        /\ corpus'[n + 1] = new
        /\ \A i \in 1 .. n : corpus'[i] = AfterLosses(u)[i]
    <2> HIDE DEF new
    <2> QED BY <1>1, <1>2, <1>5, <1>6, AppendProperties
  <1>a. \A i \in 1 .. n : /\ corpus'[i].features = Cardinality(Owned(i) \ slots)
                          /\ corpus'[i].uniq = corpus[i].uniq
                          /\ corpus'[i].unit = Empty <=> corpus'[i].features = 0
                          /\ corpus'[i].unit # Empty => corpus'[i].unit = corpus[i].unit
    <2> SUFFICES ASSUME NEW i \in 1 .. n
                 PROVE  /\ AfterLosses(u)[i].features = Cardinality(Owned(i) \ slots)
                        /\ AfterLosses(u)[i].uniq = corpus[i].uniq
                        /\ AfterLosses(u)[i].unit = Empty <=> AfterLosses(u)[i].features = 0
                        /\ AfterLosses(u)[i].unit # Empty => AfterLosses(u)[i].unit = corpus[i].unit
      <3> HIDE DEF slots, new, n
      <3> QED BY <1>7
    <2>1. i \in DOMAIN corpus BY <1>2
    <2> HIDE DEF new, n
    <2> QED BY <2>1, AfterLossesOf
  <1>8. /\ owner' \in [Slots -> 0 .. n + 1]
        /\ ownerSize' \in [Slots -> Nat]
        /\ \A s \in slots : owner'[s] = n + 1 /\ ownerSize'[s] = SizeOf[u] /\ ownerSize'[s] > 0
        /\ \A s \in Slots \ slots : owner'[s] = owner[s] /\ ownerSize'[s] = ownerSize[s]
    <2>1. SizeOf[u] \in Nat \ {0} BY TargetAssumption
    <2>2. \A s \in Slots : owner[s] \in 0 .. n /\ ownerSize[s] \in Nat
      BY DEF CorpusInv, CorpusTypes
    <2> HIDE DEF slots, n
    <2> QED BY <1>1, <1>2, <1>3, <2>1, <2>2
  <1>9. \A k : k = n + 1 => Owned(k)' = slots
    <2> SUFFICES ASSUME NEW k, k = n + 1 PROVE Owned(k)' = slots
      OBVIOUS
    <2>1. \A s \in Slots : owner[s] # n + 1 BY <1>2 DEF CorpusInv, CorpusTypes
    <2> HIDE DEF slots, n
    <2> QED BY <1>3, <1>8, <2>1 DEF Owned
  <1>10. \A i \in 1 .. n : Owned(i)' = Owned(i) \ slots
    <2> HIDE DEF slots
    <2> QED BY <1>2, <1>3, <1>8 DEF Owned
  <1>11. CorpusTypes'
    <2>1. \A s \in Slots : ownerSize'[s] > 0 => owner'[s] \in 1 .. n + 1
      <3> HIDE DEF slots
      <3> QED BY <1>2, <1>8 DEF CorpusInv, CorpusTypes
    <2>2. disk' \subseteq Inputs BY <1>1 DEF CorpusInv, CorpusTypes
    <2> HIDE DEF slots, new
    <2> QED BY <1>7, <1>8, <2>1, <2>2 DEF CorpusTypes
  <1>12. Accounts'
    <2> SUFFICES ASSUME NEW i \in 1 .. n + 1
                 PROVE  /\ corpus'[i].features = Cardinality(Owned(i)')
                        /\ corpus'[i].unit = Empty <=> corpus'[i].features = 0
      BY <1>7 DEF Accounts, Evicted
    <2>1. CASE i = n + 1
      <3>1. /\ corpus'[i].features = Cardinality(Taken(u)) /\ corpus'[i].unit = u
        BY <1>7, <2>1
      <3>2. u # Empty BY FuzzAssumption
      <3>3. Owned(i)' = slots BY <1>9, <2>1
      <3> HIDE DEF slots, new, n
      <3> QED BY <1>4, <3>1, <3>2, <3>3
    <2>2. CASE i \in 1 .. n
      <3>1. Owned(i)' = Owned(i) \ slots BY <1>10, <2>2
      <3> HIDE DEF slots, new, n
      <3> QED BY <1>a, <2>2, <3>1
    <2> QED BY <1>2, <2>1, <2>2
  <1>13. Shown'
    <2>1. ASSUME NEW i \in 1 .. n + 1, corpus'[i].unit # Empty
          PROVE  corpus'[i].uniq \subseteq FeaturesOf[corpus'[i].unit]
      <3>1. CASE i = n + 1
        <4>1. corpus'[i].unit = u /\ corpus'[i].uniq = Taken(u) BY <1>7, <3>1
        <4> QED BY <1>3, <4>1
      <3>2. CASE i \in 1 .. n
        <4>1. /\ corpus'[i].unit = corpus[i].unit /\ corpus'[i].uniq = corpus[i].uniq
          BY <1>a, <2>1, <3>2
        <4> QED BY <1>2, <2>1, <3>2, <4>1 DEF CorpusInv, Shown, Evicted
      <3> QED BY <1>2, <3>1, <3>2
    <2>2. ASSUME NEW s \in Slots, ownerSize'[s] > 0
          PROVE  \E f \in corpus'[owner'[s]].uniq : Slot(f) = s
      <3>1. CASE s \in slots
        <4>1. corpus'[owner'[s]].uniq = Taken(u) BY <1>7, <1>8, <3>1
        <4> QED BY <3>1, <4>1 DEF SlotsOf
      <3>2. CASE s \notin slots
        <4>1. owner'[s] = owner[s] /\ ownerSize[s] > 0 BY <1>8, <2>2, <3>2
        <4>2. owner[s] \in 1 .. n BY <1>2, <4>1 DEF CorpusInv, CorpusTypes
        <4>3. corpus'[owner[s]].uniq = corpus[owner[s]].uniq
          BY <1>a, <4>2
        <4>4. \E f \in corpus[owner[s]].uniq : Slot(f) = s BY <4>1 DEF CorpusInv, Shown
        <4> QED BY <4>1, <4>3, <4>4
      <3> QED BY <3>1, <3>2
    <2> QED BY <1>7, <2>1, <2>2 DEF Shown, Evicted
  <1> QED BY <1>11, <1>12, <1>13 DEF CorpusInv

-----------------------------------------------------------------------------
(* Replace and RunOne *)

LEMMA OtherUnit ==
    ASSUME NEW e \in Elements, NEW u \in Inputs
    PROVE  /\ [e EXCEPT !.unit = u] \in Elements
           /\ [e EXCEPT !.unit = u].unit = u
           /\ [e EXCEPT !.unit = u].features = e.features
           /\ [e EXCEPT !.unit = u].uniq = e.uniq
  BY DEF Elements

(* The new unit shows everything the element was added for, so every slot  *)
(* of the element is still shown.                                          *)
LEMMA ReplaceKeeps ==
    ASSUME CorpusInv, NEW i \in DOMAIN corpus, ~Evicted(i), NEW u \in Inputs,
           MayReplace(i, u), Replace(i, u)
    PROVE  CorpusInv'
  <1>1. /\ corpus' = [corpus EXCEPT ![i] = [corpus[i] EXCEPT !.unit = u]]
        /\ UNCHANGED <<owner, ownerSize>> /\ disk' \subseteq disk
    BY DEF Replace
  <1>2. corpus \in Seq(Elements) /\ corpus[i] \in Elements BY DEF CorpusInv, CorpusTypes
  <1>3. /\ corpus' \in Seq(Elements) /\ DOMAIN corpus' = DOMAIN corpus /\ Len(corpus') = Len(corpus)
        /\ corpus'[i] = [corpus[i] EXCEPT !.unit = u]
        /\ \A j \in DOMAIN corpus : j # i => corpus'[j] = corpus[j]
    <2>1. [corpus[i] EXCEPT !.unit = u] \in Elements BY <1>2, OtherUnit
    <2> QED BY <1>1, <1>2, <2>1
  <1>4. corpus'[i].unit = u /\ \A j \in DOMAIN corpus :
          corpus'[j].features = corpus[j].features /\ corpus'[j].uniq = corpus[j].uniq
    <2>1. /\ corpus'[i].unit = u /\ corpus'[i].features = corpus[i].features
          /\ corpus'[i].uniq = corpus[i].uniq
      BY <1>2, <1>3, OtherUnit
    <2> QED BY <1>3, <2>1
  <1>5. u # Empty BY FuzzAssumption
  <1>6. CorpusTypes' BY <1>1, <1>3 DEF CorpusInv, CorpusTypes
  <1>7. \A j : Owned(j)' = Owned(j) BY <1>1 DEF Owned
  <1>8. Accounts'
    <2>1. \A j \in DOMAIN corpus : corpus'[j].unit = Empty <=> corpus[j].unit = Empty
      BY <1>3, <1>4, <1>5 DEF Evicted
    <2> QED BY <1>3, <1>4, <1>7, <2>1 DEF CorpusInv, Accounts, Evicted
  <1>9. Shown'
    <2>1. corpus[i].uniq \subseteq FeaturesOf[u] BY DEF MayReplace
    <2>2. \A j \in DOMAIN corpus : corpus'[j].unit # Empty => corpus'[j].uniq \subseteq FeaturesOf[corpus'[j].unit]
      BY <1>3, <1>4, <2>1 DEF CorpusInv, Shown, Evicted
    <2>3. \A s \in Slots : ownerSize[s] > 0 => corpus'[owner[s]].uniq = corpus[owner[s]].uniq
      BY <1>4 DEF CorpusInv, CorpusTypes
    <2> QED BY <1>1, <1>3, <2>2, <2>3 DEF CorpusInv, Shown, Evicted
  <1> QED BY <1>6, <1>8, <1>9 DEF CorpusInv

LEMMA RunOneKeeps ==
    ASSUME CorpusInv, NEW i \in Nat, i > 0 => i \in DOMAIN corpus /\ ~Evicted(i),
           NEW u \in Inputs, NEW mayDelete \in BOOLEAN, RunOne(i, u, mayDelete)
    PROVE  CorpusInv' /\ (~NewCoverage(i, u) => UNCHANGED <<corpusVars, disk>>)
  <1>1. CASE Taken(u) # {}
    <2>1. AddToCorpus(u, mayDelete) BY <1>1 DEF RunOne
    <2> QED BY <1>1, <2>1, AddKeeps DEF NewCoverage
  <1>2. CASE Taken(u) = {} /\ MayReplace(i, u)
    <2>1. Replace(i, u) /\ i > 0 BY <1>2 DEF RunOne, MayReplace
    <2> QED BY <1>2, <2>1, ReplaceKeeps DEF NewCoverage
  <1>3. CASE Taken(u) = {} /\ ~MayReplace(i, u)
    <2>1. UNCHANGED <<corpusVars, disk>> BY <1>3 DEF RunOne
    <2>2. UNCHANGED <<corpus, owner, ownerSize, disk>> BY <2>1 DEF corpusVars
    <2>3. CorpusInv'
      BY <2>2 DEF CorpusInv, CorpusTypes, Accounts, Shown, Owned, Evicted
    <2> QED BY <2>1, <2>3
  <1> QED BY <1>1, <1>2, <1>3

(* A seed, or a file that another process wrote, replaces no element.      *)
LEMMA RunFileKeeps ==
    ASSUME CorpusInv, NEW u \in Inputs, RunOne(0, u, FALSE)
    PROVE  CorpusInv'
  <1>1. 0 \in Nat /\ ~(0 > 0) OBVIOUS
  <1>2. FALSE \in BOOLEAN OBVIOUS
  <1> HIDE DEF RunOne, CorpusInv
  <1> QED BY <1>1, <1>2, RunOneKeeps

-----------------------------------------------------------------------------
(* The steps of the loop *)

LEMMA CorpusUntouched ==
    ASSUME CorpusInv, UNCHANGED corpusVars, disk' \subseteq Inputs
    PROVE  CorpusInv' /\ \A i : Evicted(i)' = Evicted(i)
  <1>1. UNCHANGED <<corpus, owner, ownerSize>> BY DEF corpusVars
  <1> QED BY <1>1 DEF CorpusInv, CorpusTypes, Accounts, Shown, Owned, Evicted

LEMMA RunSeedKeeps == FuzzInv /\ RunSeed => FuzzInv'
  <1> SUFFICES ASSUME FuzzInv, RunSeed PROVE FuzzInv'
    OBVIOUS
  <1>1. seeds \in Seq(Inputs) /\ seeds # <<>> /\ fpc = "seeds" BY DEF FuzzInv, RunSeed
  <1>2. Head(seeds) \in Inputs /\ Tail(seeds) \in Seq(Inputs) BY <1>1
  <1>3. CASE CrashOn(Head(seeds)) /\ UNCHANGED seeds
    <2>1. UNCHANGED <<corpusVars, disk>> /\ fpc' = "dead" BY <1>3 DEF CrashOn
    <2>2. CorpusInv' BY <2>1, CorpusUntouched DEF FuzzInv, CorpusInv, CorpusTypes
    <2> QED BY <1>1, <1>3, <2>1, <2>2 DEF FuzzInv
  <1>4. CASE RunOne(0, Head(seeds), FALSE) /\ seeds' = Tail(seeds) /\ fpc' \in {fpc, "dead"}
    <2>1. PICK u \in Inputs : u = Head(seeds) BY <1>2
    <2>2. CorpusInv' BY <1>4, <2>1, RunFileKeeps DEF FuzzInv
    <2> QED BY <1>1, <1>2, <1>4, <2>2 DEF FuzzInv
  <1> QED BY <1>3, <1>4 DEF RunSeed

LEMMA RereadKeeps == FuzzInv /\ RereadOutputCorpus => FuzzInv'
  <1> SUFFICES ASSUME FuzzInv, RereadOutputCorpus PROVE FuzzInv'
    OBVIOUS
  <1>1. PICK u \in disk : CrashOn(u) \/ (RunOne(0, u, FALSE) /\ fpc' = fpc)
    BY DEF RereadOutputCorpus
  <1>2. u \in Inputs /\ fpc = "head" /\ seeds' = seeds
    BY DEF RereadOutputCorpus, FuzzInv, CorpusInv, CorpusTypes
  <1>3. CASE CrashOn(u)
    <2>1. UNCHANGED <<corpusVars, disk>> /\ fpc' = "dead" BY <1>3 DEF CrashOn
    <2>2. CorpusInv' BY <2>1, CorpusUntouched DEF FuzzInv, CorpusInv, CorpusTypes
    <2> QED BY <1>2, <2>1, <2>2 DEF FuzzInv
  <1>4. CASE RunOne(0, u, FALSE) /\ fpc' = fpc
    <2>1. CorpusInv' BY <1>2, <1>4, RunFileKeeps DEF FuzzInv
    <2> QED BY <1>2, <1>4, <2>1 DEF FuzzInv
  <1> QED BY <1>1, <1>3, <1>4

LEMMA ChooseKeeps == FuzzInv /\ ChooseUnitToMutate => FuzzInv'
  <1> SUFFICES ASSUME FuzzInv, ChooseUnitToMutate PROVE FuzzInv'
    OBVIOUS
  <1>1. /\ UNCHANGED <<corpusVars, disk, seeds>> /\ fpc' = "mutate" /\ base' \in Active
    BY DEF ChooseUnitToMutate
  <1>2. CorpusInv' /\ corpus' = corpus
    BY <1>1, CorpusUntouched DEF FuzzInv, CorpusInv, CorpusTypes, corpusVars
  <1>3. base' \in DOMAIN corpus /\ corpus[base'].unit # Empty
    <2>1. PICK i \in Active : i = base' BY <1>1
    <2>2. i \in DOMAIN corpus /\ corpus[i].features > 0 BY DEF Active
    <2>3. corpus[i].features # 0 BY <2>2
    <2>4. ~Evicted(i) BY <2>2, <2>3 DEF FuzzInv, CorpusInv, Accounts
    <2> QED BY <2>1, <2>2, <2>4 DEF Evicted
  <1> QED BY <1>1, <1>2, <1>3 DEF FuzzInv, Evicted

(* A unit that evicts the element it was mutated from has new coverage, so *)
(* the round does not go on.                                               *)
LEMMA MutateKeeps == FuzzInv /\ MutateAndRun => FuzzInv'
  <1> SUFFICES ASSUME FuzzInv, MutateAndRun PROVE FuzzInv'
    OBVIOUS
  <1>1. /\ unit' \in Inputs /\ UNCHANGED <<seeds, base>> /\ fpc = "mutate"
        /\ base \in DOMAIN corpus /\ ~Evicted(base)
    BY DEF MutateAndRun, FuzzInv
  <1>2. CASE CrashOn(unit')
    <2>1. UNCHANGED <<corpusVars, disk>> /\ fpc' = "dead" BY <1>2 DEF CrashOn
    <2>2. CorpusInv' BY <2>1, CorpusUntouched DEF FuzzInv, CorpusInv, CorpusTypes
    <2> QED BY <1>1, <2>1, <2>2 DEF FuzzInv
  <1>3. CASE /\ RunOne(base, unit', TRUE)
             /\ fpc' = IF NewCoverage(base, unit') THEN "ran new" ELSE "ran"
    <2>1. PICK u \in Inputs : u = unit' BY <1>1
    <2>2. base \in Nat BY <1>1 DEF FuzzInv, CorpusInv, CorpusTypes
    <2>3. PICK i \in Nat : i = base BY <2>2
    <2>4. i \in DOMAIN corpus /\ ~Evicted(i) /\ RunOne(i, u, TRUE) /\ CorpusInv
      BY <1>1, <1>3, <2>1, <2>3 DEF FuzzInv
    <2>5. CorpusInv' /\ (~NewCoverage(i, u) => UNCHANGED <<corpusVars, disk>>)
      BY <2>4, RunOneKeeps
    <2>6. CASE NewCoverage(i, u)
      <3>1. fpc' = "ran new" BY <1>3, <2>1, <2>3, <2>6
      <3> QED BY <1>1, <2>5, <3>1 DEF FuzzInv
    <2>7. CASE ~NewCoverage(i, u)
      <3>1. fpc' = "ran" BY <1>3, <2>1, <2>3, <2>7
      <3>2. corpus' = corpus BY <2>5, <2>7 DEF corpusVars
      <3> QED BY <1>1, <2>5, <3>1, <3>2 DEF FuzzInv, Evicted
    <2> QED BY <2>6, <2>7
  <1> QED BY <1>2, <1>3 DEF MutateAndRun

LEMMA FuzzInvStep == FuzzInv /\ [FuzzNext]_fuzzVars => FuzzInv'
  <1> SUFFICES ASSUME FuzzInv, [FuzzNext]_fuzzVars PROVE FuzzInv'
    OBVIOUS
  <1>1. ASSUME UNCHANGED <<seeds, corpusVars>>, disk' \subseteq disk \cup {unit} \cup Inputs,
               fpc = "ran new" => unit \in Inputs,
               disk' \subseteq Inputs,
               \/ UNCHANGED <<fpc, base, unit>>
               \/ fpc' \in {"head", "done", "dead"}
               \/ fpc = "ran" /\ fpc' = "mutate" /\ UNCHANGED <<base, unit>>
        PROVE  FuzzInv'
    <2>1. CorpusInv' /\ \A i : Evicted(i)' = Evicted(i) BY <1>1, CorpusUntouched DEF FuzzInv
    <2>2. corpus' = corpus BY <1>1 DEF corpusVars
    <2> QED BY <1>1, <2>1, <2>2 DEF FuzzInv, Evicted
  <1>2. disk \subseteq Inputs BY DEF FuzzInv, CorpusInv, CorpusTypes
  <1>3. CASE SeedsDone BY <1>1, <1>2, <1>3 DEF SeedsDone, FuzzInv
  <1>4. CASE OtherProcessWrites BY <1>1, <1>2, <1>4 DEF OtherProcessWrites, roundVars, FuzzInv
  <1>5. CASE EndLoop BY <1>1, <1>2, <1>5 DEF EndLoop, FuzzInv
  <1>6. CASE EndRound BY <1>1, <1>2, <1>6 DEF EndRound, FuzzInv
  <1>7. CASE LeakFound BY <1>1, <1>2, <1>7 DEF LeakFound, FuzzInv
  <1>8. CASE NothingNew BY <1>1, <1>2, <1>8 DEF NothingNew, roundVars, FuzzInv
  <1>9. CASE ReportNewCoverage BY <1>1, <1>2, <1>9 DEF ReportNewCoverage, FuzzInv
  <1>10. CASE UNCHANGED fuzzVars BY <1>1, <1>2, <1>10 DEF fuzzVars, roundVars, FuzzInv
  <1> QED
    BY <1>3, <1>4, <1>5, <1>6, <1>7, <1>8, <1>9, <1>10,
       RunSeedKeeps, RereadKeeps, ChooseKeeps, MutateKeeps DEF FuzzNext, FuzzStep

LEMMA FuzzInvInit == FuzzInit => FuzzInv
  <1> SUFFICES ASSUME FuzzInit PROVE FuzzInv
    OBVIOUS
  <1>1. seeds \in Seq(Inputs) BY FuzzAssumption DEF FuzzInit
  <1>2. /\ corpus = <<>> /\ fpc = "seeds" /\ disk \subseteq Inputs
        /\ owner = [s \in Slots |-> 0] /\ ownerSize = [s \in Slots |-> 0]
    BY FuzzAssumption DEF FuzzInit
  <1>3. corpus \in Seq(Elements) /\ DOMAIN corpus = {} /\ Len(corpus) = 0 BY <1>2
  <1>4. CorpusInv BY <1>2, <1>3 DEF CorpusInv, CorpusTypes, Accounts, Shown
  <1> QED BY <1>1, <1>2, <1>4 DEF FuzzInv

THEOREM LoopInvariance == FuzzSpec => []FuzzInv
  <1>1. FuzzInit => FuzzInv BY FuzzInvInit
  <1>2. FuzzInv /\ [FuzzNext]_fuzzVars => FuzzInv' BY FuzzInvStep
  <1> QED BY <1>1, <1>2, PTL DEF FuzzSpec

(* The corpus of libFuzzer, for any target, sizes, features, seeds, flags  *)
(* and interleaving with other processes: the bookkeeping that             *)
(* ValidateFeatureSet checks in debug builds is right at every moment, and *)
(* a feature seen once is never lost from memory.                          *)
THEOREM FeaturesAccounted == FuzzSpec => []FeatureAccounting
  <1>1. FuzzInv => FeatureAccounting
    <2> SUFFICES ASSUME FuzzInv PROVE FeatureAccounting
      OBVIOUS
    <2>1. \A i \in DOMAIN corpus :
            /\ corpus[i].features = Cardinality({s \in Slots : ownerSize[s] > 0 /\ owner[s] = i})
            /\ Evicted(i) <=> corpus[i].features = 0
      BY DEF FuzzInv, CorpusInv, Accounts, Owned
    <2>2. ASSUME NEW s \in Slots, ownerSize[s] > 0
          PROVE  \E f \in FeaturesOf[corpus[owner[s]].unit] : Slot(f) = s
      <3>1. PICK i : i = owner[s] OBVIOUS
      <3>2. i \in DOMAIN corpus /\ s \in Owned(i)
        BY <2>2, <3>1 DEF FuzzInv, CorpusInv, CorpusTypes, Owned
      <3>3. Cardinality(Owned(i)) # 0 BY <3>2, OwnedIsFinite, EmptyCount
      <3>4. ~Evicted(i) BY <3>2, <3>3 DEF FuzzInv, CorpusInv, Accounts
      <3>5. corpus[i].uniq \subseteq FeaturesOf[corpus[i].unit]
        BY <3>2, <3>4 DEF FuzzInv, CorpusInv, Shown
      <3>6. \E f \in corpus[i].uniq : Slot(f) = s BY <2>2, <3>1 DEF FuzzInv, CorpusInv, Shown
      <3> QED BY <3>1, <3>5, <3>6
    <2> QED BY <2>1, <2>2 DEF FeatureAccounting
  <1> QED BY <1>1, LoopInvariance, PTL

(* The element being mutated is in the corpus as long as the round goes on *)
(* with it, though its own mutants may take all its features.              *)
THEOREM BaseStaysAlive == FuzzSpec => []BaseAlive
  <1>1. FuzzInv => BaseAlive BY DEF FuzzInv, BaseAlive
  <1> QED BY <1>1, LoopInvariance, PTL

-----------------------------------------------------------------------------
(* The types of the loop *)

FuzzBounds ==
    /\ fpc \in {"seeds", "head", "mutate", "ran", "ran new", "done", "dead"}
    /\ ownerSize \in [Slots -> 0 .. MaxInputLen]
    /\ hashes \cup artifacts \subseteq Inputs
    /\ base \in 0 .. Len(corpus) /\ depth \in 0 .. MutateDepth
    /\ maxLen \in 0 .. MaxInputLen
    /\ fpc \notin {"seeds", "dead"} => maxLen > 0
    /\ flags \in FlagSettings

(* What a run of u leaves in the corpus.                                   *)
Grown ==
    /\ ownerSize' \in [Slots -> 0 .. MaxInputLen]
    /\ hashes' \subseteq Inputs
    /\ Len(corpus) <= Len(corpus')

LEMMA CorpusIsSequence ==
    FuzzInv => corpus \in Seq(Elements) /\ Len(corpus) \in Nat /\ DOMAIN corpus = 1 .. Len(corpus)
  <1> SUFFICES ASSUME FuzzInv
               PROVE  corpus \in Seq(Elements) /\ Len(corpus) \in Nat /\ DOMAIN corpus = 1 .. Len(corpus)
    OBVIOUS
  <1>1. corpus \in Seq(Elements) BY DEF FuzzInv, CorpusInv, CorpusTypes
  <1> QED BY <1>1

LEMMA CorpusStays == FuzzInv /\ FuzzBounds /\ UNCHANGED corpusVars => Grown
  <1> SUFFICES ASSUME FuzzInv, FuzzBounds, UNCHANGED corpusVars PROVE Grown
    OBVIOUS
  <1>1. Len(corpus) \in Nat BY CorpusIsSequence
  <1>2. corpus' = corpus /\ ownerSize' = ownerSize /\ hashes' = hashes BY DEF corpusVars
  <1>3. Len(corpus) <= Len(corpus') BY <1>1, <1>2
  <1> QED BY <1>2, <1>3 DEF FuzzBounds, Grown

LEMMA RunOneGrows ==
    ASSUME FuzzInv, FuzzBounds, NEW i, NEW u \in Inputs, NEW mayDelete, RunOne(i, u, mayDelete)
    PROVE  Grown
  <1>1. SizeOf[u] \in 0 .. MaxInputLen
    <2>1. SizeOf[u] \in 1 .. MaxInputLen BY FuzzAssumption
    <2> QED BY <2>1
  <1>2. Len(corpus) \in Nat /\ DOMAIN corpus = 1 .. Len(corpus) BY CorpusIsSequence
  <1>3. CASE AddToCorpus(u, mayDelete)
    <2> DEFINE new == [unit |-> u, features |-> Cardinality(Taken(u)), mayDelete |-> mayDelete, uniq |-> Taken(u)]
               left == AfterLosses(u)
    <2>1. corpus' = Append(left, new) BY <1>3 DEF AddToCorpus
    <2>2. left \in Seq(Elements) /\ Len(left) = Len(corpus)
      <3>1. DOMAIN left = 1 .. Len(corpus) BY <1>2 DEF AfterLosses
      <3>2. \A j \in 1 .. Len(corpus) : left[j] \in Elements
        BY <1>2, AfterLossesOf DEF FuzzInv
      <3>3. left = [j \in 1 .. Len(corpus) |-> left[j]] BY <3>1 DEF AfterLosses
      <3> HIDE DEF left
      <3>4. left \in [1 .. Len(corpus) -> Elements] BY <3>2, <3>3
      <3> QED BY <1>2, <3>4
    <2> HIDE DEF new, left
    <2>3. Len(corpus') = Len(corpus) + 1 BY <1>2, <2>1, <2>2
    <2>4. ownerSize' \in [Slots -> 0 .. MaxInputLen]
      <3> DEFINE slots == {Slot(f) : f \in Taken(u)}
      <3>1. ownerSize' = [s \in Slots |-> IF s \in slots THEN SizeOf[u] ELSE ownerSize[s]]
        BY <1>3 DEF AddToCorpus
      <3> HIDE DEF slots
      <3> QED BY <1>1, <3>1 DEF FuzzBounds
    <2>5. hashes' \subseteq Inputs BY <1>3 DEF AddToCorpus, FuzzBounds
    <2> QED BY <1>2, <2>3, <2>4, <2>5 DEF Grown
  <1>4. CASE Replace(i, u)
    <2>1. DOMAIN corpus' = DOMAIN corpus BY <1>4 DEF Replace
    <2>2. corpus' = [j \in 1 .. Len(corpus) |-> corpus'[j]] BY <1>2, <1>4 DEF Replace
    <2>3. Len(corpus') = Len(corpus) BY <1>2, <2>2
    <2>4. ownerSize' = ownerSize /\ hashes' \subseteq hashes \cup {u} BY <1>4 DEF Replace
    <2>5. Len(corpus) <= Len(corpus') BY <1>2, <2>3
    <2> QED BY <2>4, <2>5 DEF FuzzBounds, Grown
  <1>5. CASE UNCHANGED <<corpusVars, disk>> BY <1>5, CorpusStays
  <1> QED BY <1>3, <1>4, <1>5 DEF RunOne

LEMMA LargestNumber ==
    ASSUME NEW n \in Nat, NEW S \in SUBSET (0 .. n), S # {}
    PROVE  \E m \in S : \A k \in S : m >= k
  <1> DEFINE T == {n - k : k \in S}
  <1>1. T \in SUBSET Nat /\ T # {}
    <2>1. \A k \in S : n - k \in Nat OBVIOUS
    <2> QED BY <2>1
  <1>2. PICK d \in T : \A j \in T : d <= j
    <2> HIDE DEF T
    <2> QED BY <1>1, LeastNumber
  <1>3. PICK m \in S : d = n - m OBVIOUS
  <1>4. \A k \in S : n - m <= n - k BY <1>2, <1>3
  <1> QED BY <1>4

LEMMA LogIsNat == \A n \in Nat \ {0} : Log(n) \in Nat
  <1> SUFFICES ASSUME NEW n \in Nat \ {0} PROVE Log(n) \in Nat
    OBVIOUS
  <1> DEFINE S == {k \in 0 .. n : 2 ^ k <= n}
  <1>1. 0 \in S
    <2>1. 2 ^ 0 = 1 OBVIOUS
    <2> QED BY <2>1
  <1>2. S \in SUBSET (0 .. n) OBVIOUS
  <1>3. \A k \in S : k \in Nat OBVIOUS
  <1>4. Log(n) = Max(S) BY DEF Log
  <1> HIDE DEF S
  <1>5. \E m \in S : \A k \in S : m >= k BY <1>1, <1>2, LargestNumber
  <1> QED BY <1>3, <1>4, <1>5 DEF Max

LEMMA LimitIsBounded ==
    ASSUME NEW x \in Nat \ {0}
    PROVE  MinOf(MaxInputLen, x) \in 1 .. MaxInputLen
  BY FuzzAssumption DEF MinOf

LEMMA CorpusSizeIsNat == FuzzInv => MaxCorpusSize \in Nat
  <1> SUFFICES ASSUME FuzzInv PROVE MaxCorpusSize \in Nat
    OBVIOUS
  <1> DEFINE D == {i \in DOMAIN corpus : ~Evicted(i)}
             S == {0} \cup {SizeOf[corpus[i].unit] : i \in D}
  <1>1. corpus \in Seq(Elements) BY CorpusIsSequence
  <1>2. \A i \in D : corpus[i].unit \in Inputs
    <2> SUFFICES ASSUME NEW i \in DOMAIN corpus, ~Evicted(i) PROVE corpus[i].unit \in Inputs
      OBVIOUS
    <2>1. corpus[i] \in Elements BY <1>1
    <2>2. corpus[i].unit \in Inputs \cup {Empty} BY <2>1 DEF Elements
    <2> QED BY <2>2 DEF Evicted
  <1>3. S \subseteq 0 .. MaxInputLen
    <2>1. \A v \in Inputs : SizeOf[v] \in 1 .. MaxInputLen BY FuzzAssumption
    <2>2. \A i \in D : SizeOf[corpus[i].unit] \in 0 .. MaxInputLen BY <1>2, <2>1
    <2>3. 0 \in 0 .. MaxInputLen BY FuzzAssumption
    <2> QED BY <2>2, <2>3
  <1>4. \E m \in S : \A k \in S : m >= k
    <2>1. MaxInputLen \in Nat /\ 0 \in S BY FuzzAssumption
    <2> HIDE DEF S
    <2> QED BY <1>3, <2>1, LargestNumber
  <1>5. \A k \in S : k \in Nat BY <1>3
  <1>6. MaxCorpusSize = Max(S) BY DEF MaxCorpusSize
  <1> HIDE DEF S
  <1> QED BY <1>4, <1>5, <1>6 DEF Max

LEMMA FuzzBoundsStep == FuzzInv /\ FuzzInv' /\ FuzzBounds /\ [FuzzNext]_fuzzVars => FuzzBounds'
  <1> SUFFICES ASSUME FuzzInv, FuzzInv', FuzzBounds, [FuzzNext]_fuzzVars PROVE FuzzBounds'
    OBVIOUS
  <1>1. Len(corpus) \in Nat /\ Len(corpus') \in Nat /\ disk \subseteq Inputs
    <2>1. CorpusTypes /\ CorpusTypes' BY DEF FuzzInv, CorpusInv
    <2>2. corpus \in Seq(Elements) /\ disk \subseteq Inputs BY <2>1 DEF CorpusTypes
    <2>3. corpus' \in Seq(Elements) BY <2>1 DEF CorpusTypes, Elements
    <2> QED BY <2>2, <2>3
  <1>2. ASSUME Grown, base' \in {base, 0}, depth' \in 0 .. MutateDepth, flags' = flags,
               artifacts' \subseteq Inputs, fpc' \in {"seeds", "head", "mutate", "ran", "ran new", "done", "dead"},
               maxLen' \in 0 .. MaxInputLen, fpc' \notin {"seeds", "dead"} => maxLen' > 0
        PROVE  FuzzBounds'
    <2>1. base' \in 0 .. Len(corpus')
      <3>1. base \in 0 .. Len(corpus) BY DEF FuzzBounds
      <3>2. Len(corpus) <= Len(corpus') BY <1>2 DEF Grown
      <3>3. PICK m \in Nat, n \in Nat : m = Len(corpus) /\ n = Len(corpus') BY <1>1
      <3>4. base' \in {base, 0} BY <1>2
      <3> QED BY <3>1, <3>2, <3>3, <3>4
    <2> QED BY <1>2, <2>1 DEF Grown, FuzzBounds
  <1>3. ASSUME NEW u \in Inputs, CrashOn(u)
        PROVE  Grown /\ artifacts' \subseteq Inputs /\ fpc' = "dead"
    BY <1>3, CorpusStays DEF CrashOn, FuzzBounds
  <1>4. CASE RunSeed
    <2>1. PICK u \in Inputs : u = Head(seeds)
      <3>1. seeds \in Seq(Inputs) /\ seeds # <<>> BY <1>4 DEF RunSeed, FuzzInv
      <3> QED BY <3>1
    <2>2. UNCHANGED <<flags, base, depth, maxLen>> /\ fpc = "seeds" BY <1>4 DEF RunSeed, roundVars
    <2>3. CASE CrashOn(u) BY <1>2, <1>3, <2>2, <2>3 DEF FuzzBounds
    <2>4. CASE RunOne(0, u, FALSE) /\ artifacts' \in {artifacts, artifacts \cup {u}} /\ fpc' \in {fpc, "dead"}
      BY <1>2, <2>2, <2>4, RunOneGrows DEF FuzzBounds
    <2> QED BY <1>4, <2>1, <2>3, <2>4 DEF RunSeed
  <1>5. CASE SeedsDone
    <2>1. UNCHANGED <<corpusVars, flags, base, depth, artifacts>> /\ fpc' \in {"dead", "head"}
      BY <1>5 DEF SeedsDone, roundVars
    <2>2. maxLen' \in 1 .. MaxInputLen
      <3>1. MaxOf(4, MaxCorpusSize) \in Nat \ {0} BY CorpusSizeIsNat DEF MaxOf
      <3> QED BY <1>5, <3>1, LimitIsBounded DEF SeedsDone
    <2>3. Grown BY <2>1, CorpusStays
    <2>4. maxLen' \in 0 .. MaxInputLen /\ maxLen' > 0 BY <2>2
    <2> QED BY <1>2, <2>1, <2>3, <2>4 DEF FuzzBounds
  <1>6. CASE RereadOutputCorpus
    <2>1. UNCHANGED <<flags, base, depth, maxLen>> /\ fpc = "head" BY <1>6 DEF RereadOutputCorpus, roundVars
    <2>2. PICK u \in Inputs : CrashOn(u) \/ (RunOne(0, u, FALSE) /\ UNCHANGED <<fpc, artifacts>>)
      BY <1>1, <1>6 DEF RereadOutputCorpus
    <2>3. CASE CrashOn(u) BY <1>2, <1>3, <2>1, <2>3 DEF FuzzBounds
    <2>4. CASE RunOne(0, u, FALSE) /\ UNCHANGED <<fpc, artifacts>>
      BY <1>2, <2>1, <2>4, RunOneGrows DEF FuzzBounds
    <2> QED BY <2>2, <2>3, <2>4
  <1>7. CASE EndLoop \/ OtherProcessWrites
    <2>1. UNCHANGED <<corpusVars, flags, base, depth, artifacts, maxLen>>
      BY <1>7 DEF EndLoop, OtherProcessWrites, roundVars
    <2>2. fpc' = fpc \/ (fpc = "head" /\ fpc' = "done") BY <1>7 DEF EndLoop, OtherProcessWrites
    <2> QED BY <1>2, <2>1, <2>2, CorpusStays DEF FuzzBounds
  <1>8. CASE ChooseUnitToMutate
    <2>1. /\ UNCHANGED <<corpusVars, flags, artifacts>> /\ fpc = "head" /\ fpc' = "mutate"
          /\ depth' = MutateDepth /\ base' \in DOMAIN corpus
      BY <1>8 DEF ChooseUnitToMutate, Active
    <2>2. maxLen \in Nat \ {0} BY <2>1 DEF FuzzBounds
    <2>3. maxLen' \in 1 .. MaxInputLen
      <3>1. PICK g \in Nat : g = Log(maxLen) BY <2>2, LogIsNat
      <3>2. MinOf(MaxInputLen, maxLen + g) \in 1 .. MaxInputLen
        <4>1. maxLen + g \in Nat \ {0} BY <2>2
        <4> QED BY <4>1, LimitIsBounded
      <3>3. maxLen \in 1 .. MaxInputLen /\ MaxInputLen \in 1 .. MaxInputLen
        <4>1. maxLen \in 0 .. MaxInputLen BY DEF FuzzBounds
        <4>2. MaxInputLen \in Nat \ {0} BY FuzzAssumption
        <4> QED BY <2>2, <4>1, <4>2
      <3> QED BY <1>8, <3>1, <3>2, <3>3 DEF ChooseUnitToMutate
    <2>4. corpus' = corpus /\ base' \in 0 .. Len(corpus)
      BY <2>1 DEF corpusVars, FuzzInv, CorpusInv, CorpusTypes
    <2>5. Grown BY <2>1, CorpusStays
    <2>6. MutateDepth \in 0 .. MutateDepth BY FuzzAssumption
    <2>7. maxLen' \in 0 .. MaxInputLen /\ maxLen' > 0 BY <2>3
    <2>8. base' \in 0 .. Len(corpus') BY <2>4
    <2> QED BY <2>1, <2>5, <2>6, <2>7, <2>8 DEF FuzzBounds, Grown
  <1>9. CASE EndRound \/ ReportNewCoverage
    <2>1. /\ UNCHANGED <<corpusVars, flags, artifacts, maxLen>> /\ fpc \in {"mutate", "ran new"} /\ fpc' = "head"
          /\ depth' = 0 /\ base' = 0
      BY <1>9 DEF EndRound, ReportNewCoverage
    <2>2. Grown BY <2>1, CorpusStays
    <2>3. 0 \in 0 .. MutateDepth BY FuzzAssumption
    <2> QED BY <1>2, <2>1, <2>2, <2>3 DEF FuzzBounds
  <1>10. CASE MutateAndRun
    <2>1. /\ UNCHANGED <<flags, base, maxLen>> /\ fpc = "mutate" /\ depth # 0 /\ depth' = depth - 1
          /\ unit' \in Inputs
      BY <1>10 DEF MutateAndRun, RoundOver
    <2>2. depth' \in 0 .. MutateDepth
      <3>1. depth \in 0 .. MutateDepth BY DEF FuzzBounds
      <3> QED BY <2>1, <3>1, FuzzAssumption
    <2>3. PICK u \in Inputs : u = unit' BY <2>1
    <2>4. CASE CrashOn(u) BY <1>2, <1>3, <2>1, <2>2, <2>4 DEF FuzzBounds
    <2>5. CASE RunOne(base, u, TRUE) /\ UNCHANGED artifacts /\ fpc' \in {"ran new", "ran"}
      BY <1>2, <2>1, <2>2, <2>5, RunOneGrows DEF FuzzBounds
    <2> QED BY <1>10, <2>3, <2>4, <2>5 DEF MutateAndRun
  <1>11. CASE LeakFound
    <2>1. /\ UNCHANGED <<corpusVars, flags, base, depth, maxLen>> /\ fpc' = "dead" /\ unit \in Inputs
          /\ artifacts' = artifacts \cup {unit}
      BY <1>11 DEF LeakFound, roundVars, FuzzInv
    <2> QED BY <1>2, <2>1, CorpusStays DEF FuzzBounds
  <1>12. CASE NothingNew
    <2>1. /\ UNCHANGED <<corpusVars, flags, base, depth, maxLen, artifacts>> /\ fpc = "ran" /\ fpc' = "mutate"
      BY <1>12 DEF NothingNew, roundVars
    <2> QED BY <1>2, <2>1, CorpusStays DEF FuzzBounds
  <1>13. CASE UNCHANGED fuzzVars
    <2>1. UNCHANGED <<corpusVars, flags, fpc, base, depth, maxLen, artifacts>>
      BY <1>13 DEF fuzzVars, roundVars
    <2> QED BY <1>2, <2>1, CorpusStays DEF FuzzBounds
  <1> QED
    BY <1>4, <1>5, <1>6, <1>7, <1>8, <1>9, <1>10, <1>11, <1>12, <1>13 DEF FuzzNext, FuzzStep

(* The loop and its corpus: sizes and limits stay in their bounds, and     *)
(* only inputs are hashed, written or kept as artifacts.                   *)
THEOREM LoopStaysTyped == FuzzSpec => []FuzzTypeOK
  <1>1. FuzzInit => FuzzBounds
    <2> SUFFICES ASSUME FuzzInit PROVE FuzzBounds
      OBVIOUS
    <2>1. ownerSize \in [Slots -> 0 .. MaxInputLen] BY FuzzAssumption DEF FuzzInit
    <2>2. base = 0 /\ depth = 0 /\ maxLen = 0 /\ corpus = <<>> BY DEF FuzzInit
    <2>3. base \in 0 .. Len(corpus) /\ depth \in 0 .. MutateDepth /\ maxLen \in 0 .. MaxInputLen
      BY <2>2, FuzzAssumption
    <2> QED BY <2>1, <2>3 DEF FuzzInit, FuzzBounds
  <1>2. FuzzInv /\ FuzzBounds => FuzzTypeOK
    <2> SUFFICES ASSUME FuzzInv, FuzzBounds PROVE FuzzTypeOK
      OBVIOUS
    <2>1. \A q \in Seq(Elements) : Range(q) \subseteq Elements BY DEF Range
    <2> QED BY <2>1 DEF FuzzTypeOK, FuzzBounds, FuzzInv, CorpusInv, CorpusTypes
  <1> QED BY <1>1, <1>2, FuzzBoundsStep, LoopInvariance, PTL DEF FuzzSpec

-----------------------------------------------------------------------------
(* The callbacks *)

(* The copy of the current unit is complete, and so is its size.           *)
UnitSettled == unitData = current /\ unitSize = SizeOf[current]

CallbackTypes ==
    /\ epc \in {"between", "copied", "sized", "running", "returned"}
    /\ running = (epc = "running")
    /\ handler \in [Threads -> [name : {"none", "crash", "exit", "alarm", "rss", "malloc", "death", "overwritten", "leak"},
                                stage : {"none", "size", "data", "exit"}, size : Nat]]
    /\ \A t \in Threads : handler[t].name = "none" => handler[t] = NoHandler

(* What ExecuteCallback has got to, and what a callback has read: there is *)
(* no size but that of the unit whose contents are there.                  *)
WholeOrEmpty(r) ==
    /\ r.size # 0 => r.data = r.of /\ r.size = SizeOf[r.of]
    /\ r.at \in {"sized", "running", "returned"} \/ r.by = "leak" => r.size # 0

UnitInv ==
    /\ current # NoUnit => current \in Inputs /\ unitData = current
    /\ epc # "between" => current # NoUnit
    /\ epc \in {"sized", "running", "returned"} => unitSize = SizeOf[current]
    /\ epc \in {"between", "copied"} /\ handler["fuzzing"] = NoHandler => unitSize = 0
    /\ unitSize \in Nat
    /\ unitSize # 0 => UnitSettled
    /\ handler["fuzzing"].name = "leak" => unitSize # 0
    /\ handler["fuzzing"].stage = "data" => handler["fuzzing"].size = unitSize
    /\ \A r \in reports : r.on = "fuzzing" => WholeOrEmpty(r)

(* The crash state is taken by the one callback that may report under it,  *)
(* and the thread that took it does nothing else any more.                 *)
CrashStateInv ==
    SanitizerCrashState =>
        /\ \A t \in Threads : handler[t].name \in Guarded => taken
        /\ \A t, u \in Threads : handler[t].name \in Guarded /\ handler[u].name \in Guarded => t = u
        /\ \A r \in reports : r.by \in Guarded => r.on \in Threads /\ handler[r.on].name = r.by

CallbackInv == CallbackTypes /\ UnitInv /\ CrashStateInv

LEMMA SizesAreNumbers == \A u \in Inputs : SizeOf[u] \in Nat /\ SizeOf[u] # 0
  BY TargetAssumption

LEMMA CallbackInvInit == CallbackInit => CallbackInv
  <1> SUFFICES ASSUME CallbackInit PROVE CallbackInv
    OBVIOUS
  <1> USE DEF CallbackInit
  <1>1. \A t \in Threads : handler[t] = NoHandler OBVIOUS
  <1>2. CallbackTypes BY <1>1 DEF CallbackTypes, NoHandler, Threads
  <1>3. UnitInv BY <1>1 DEF UnitInv, NoHandler, Threads
  <1>4. CrashStateInv BY <1>1 DEF CrashStateInv, NoHandler, Guarded
  <1> QED BY <1>2, <1>3, <1>4 DEF CallbackInv

-----------------------------------------------------------------------------
(* Steps of ExecuteCallback, which leave the callbacks alone.              *)
LEMMA ExecuteKeeps ==
    ASSUME CallbackInv, (\E u \in UnitsRun : CopyUnit(u)) \/ SetUnitSize \/ EnterTarget \/ TargetReturns
    PROVE  CallbackInv'
  <1> USE DEF CallbackInv, HandlerState, Fuzzing
  <1>1. UNCHANGED <<taken, handler, reports>>
    BY DEF CopyUnit, SetUnitSize, EnterTarget, TargetReturns
  <1>2. handler["fuzzing"] = NoHandler
    BY DEF CopyUnit, SetUnitSize, EnterTarget, TargetReturns
  <1>3. CallbackTypes'
    BY <1>1 DEF CallbackTypes, CopyUnit, SetUnitSize, EnterTarget, TargetReturns
  <1>4. CrashStateInv' BY <1>1 DEF CrashStateInv
  <1>5. UnitInv'
    <2>1. /\ (handler["fuzzing"] = NoHandler)' /\ (handler["fuzzing"].stage # "data")'
          /\ (handler["fuzzing"].name # "leak")'
      BY <1>1, <1>2 DEF NoHandler
    <2>7. handler["fuzzing"] = NoHandler BY <1>2
    <2>2. (\A r \in reports : r.on = "fuzzing" => WholeOrEmpty(r))'
      BY <1>1 DEF UnitInv, WholeOrEmpty
    <2>3. CASE \E u \in UnitsRun : CopyUnit(u)
      BY <2>1, <2>2, <2>3, <2>7, CallbackAssumption DEF UnitInv, UnitSettled, CopyUnit
    <2>4. CASE SetUnitSize
      BY <2>1, <2>2, <2>4, <2>7, SizesAreNumbers DEF UnitInv, UnitSettled, SetUnitSize
    <2>5. CASE EnterTarget BY <2>1, <2>2, <2>5 DEF UnitInv, UnitSettled, EnterTarget
    <2>6. CASE TargetReturns BY <2>1, <2>2, <2>6 DEF UnitInv, UnitSettled, TargetReturns
    <2> QED BY <2>3, <2>4, <2>5, <2>6
  <1> QED BY <1>3, <1>4, <1>5

(* A thread enters a callback: what has to hold at that moment.            *)
LEMMA EnterKeeps ==
    ASSUME CallbackInv, NEW t \in Threads,
           NEW name \in {"crash", "exit", "alarm", "rss", "malloc", "death", "overwritten", "leak"},
           Enter(t, name), handler[t].name \notin Guarded,
           UNCHANGED <<epc, current, unitData, running, reports>>,
           unitSize' \in Nat,
           epc \in {"sized", "running", "returned"} => unitSize' = SizeOf[current],
           unitSize' # 0 => UnitSettled',
           t = "fuzzing" /\ name = "leak" => unitSize' # 0,
           t # "fuzzing" => unitSize' = unitSize,
           name \in Guarded => (SanitizerCrashState => ~taken) /\ taken',
           name \notin Guarded => UNCHANGED taken
    PROVE  CallbackInv'
  <1>1. /\ handler'[t] = [name |-> name, stage |-> "size", size |-> 0]
        /\ \A u \in Threads \ {t} : handler'[u] = handler[u]
        /\ handler' \in [Threads -> [name : {"none", "crash", "exit", "alarm", "rss", "malloc", "death", "overwritten", "leak"},
                                     stage : {"none", "size", "data", "exit"}, size : Nat]]
    BY DEF Enter, CallbackInv, CallbackTypes
  <1>2. CallbackTypes'
    <2>1. handler'[t].name # "none" BY <1>1
    <2>2. \A u \in Threads : handler'[u].name = "none" => handler'[u] = NoHandler
      BY <1>1, <2>1 DEF CallbackInv, CallbackTypes
    <2> QED BY <1>1, <2>2 DEF CallbackInv, CallbackTypes
  <1>3. UnitInv'
    <2>1. \A r \in reports' : r.on = "fuzzing" => WholeOrEmpty(r) BY DEF CallbackInv, UnitInv
    <2>2. CASE t = "fuzzing"
      <3>1. /\ handler'["fuzzing"].stage = "size" /\ handler'["fuzzing"].name = name
            /\ handler'["fuzzing"] # NoHandler
        BY <1>1, <2>2 DEF NoHandler
      <3>2. name = "leak" => unitSize' # 0 BY <2>2
      <3> QED BY <2>1, <3>1, <3>2 DEF CallbackInv, UnitInv, WholeOrEmpty
    <2>3. CASE t # "fuzzing"
      <3>1. handler'["fuzzing"] = handler["fuzzing"] BY <1>1, <2>3 DEF Threads
      <3>2. unitSize' = unitSize BY <2>3
      <3> QED BY <2>1, <3>1, <3>2 DEF CallbackInv, UnitInv, WholeOrEmpty
    <2> QED BY <2>2, <2>3
  <1>4. CrashStateInv'
    <2> SUFFICES ASSUME SanitizerCrashState
                 PROVE  /\ \A u \in Threads : handler'[u].name \in Guarded => taken'
                        /\ \A u, v \in Threads : handler'[u].name \in Guarded /\ handler'[v].name \in Guarded => u = v
                        /\ \A r \in reports' : r.by \in Guarded => r.on \in Threads /\ handler'[r.on].name = r.by
      BY DEF CrashStateInv
    <2>1. CASE name \in Guarded
      <3>1. \A u \in Threads : handler[u].name \notin Guarded
        BY <2>1 DEF CallbackInv, CrashStateInv
      <3>2. \A r \in reports : r.by \notin Guarded BY <3>1 DEF CallbackInv, CrashStateInv
      <3> QED BY <1>1, <2>1, <3>1, <3>2
    <2>2. CASE name \notin Guarded
      <3>1. \A u \in Threads : handler'[u].name \in Guarded => u # t /\ handler[u].name \in Guarded
        BY <1>1, <2>2
      <3>2. \A r \in reports : r.by \in Guarded => r.on \in Threads \ {t} /\ handler[r.on].name = r.by
        BY DEF CallbackInv, CrashStateInv
      <3> QED BY <1>1, <2>2, <3>1, <3>2 DEF CallbackInv, CrashStateInv
    <2> QED BY <2>1, <2>2
  <1> QED BY <1>2, <1>3, <1>4 DEF CallbackInv

-----------------------------------------------------------------------------
LEMMA CheckUnitKeeps == CallbackInv /\ CheckUnit => CallbackInv'
  <1> SUFFICES ASSUME CallbackInv, CheckUnit PROVE CallbackInv'
    OBVIOUS
  <1>1. handler["fuzzing"] = NoHandler /\ epc = "returned"
    BY DEF CheckUnit, Fuzzing
  <1>2. UNCHANGED <<current, unitData, running, taken, reports>> BY DEF CheckUnit
  <1>3. CASE tampered
    <2>1. Enter("fuzzing", "overwritten") /\ UNCHANGED <<unitSize, epc>> BY <1>3 DEF CheckUnit
    <2>2. unitSize' # 0 => UnitSettled' BY <1>2, <2>1 DEF CallbackInv, UnitInv, UnitSettled
    <2>3. handler["fuzzing"].name \notin Guarded BY <1>1 DEF NoHandler, Guarded
    <2>4. "fuzzing" \in Threads /\ "overwritten" \notin Guarded /\ "overwritten" # "leak" BY DEF Threads, Guarded
    <2>5. unitSize' \in Nat /\ unitSize' = SizeOf[current]
      BY <1>1, <2>1 DEF CallbackInv, UnitInv
    <2> QED BY <1>2, <2>1, <2>2, <2>3, <2>4, <2>5, EnterKeeps
  <1>4. CASE ~tampered
    <2>1. unitSize' = 0 /\ epc' = "between" /\ handler' = handler BY <1>4 DEF CheckUnit
    <2>2. CallbackTypes' BY <1>1, <1>2, <2>1 DEF CallbackInv, CallbackTypes
    <2>3. UnitInv' BY <1>1, <1>2, <2>1 DEF CallbackInv, UnitInv, UnitSettled, WholeOrEmpty, NoHandler
    <2>4. CrashStateInv' BY <1>2, <2>1 DEF CallbackInv, CrashStateInv
    <2> QED BY <2>2, <2>3, <2>4 DEF CallbackInv
  <1> QED BY <1>3, <1>4

LEMMA ReportLeakKeeps == CallbackInv /\ ReportLeak => CallbackInv'
  <1> SUFFICES ASSUME CallbackInv, ReportLeak PROVE CallbackInv'
    OBVIOUS
  <1> USE DEF ReportLeak, Fuzzing
  <1>1. unitSize' = SizeOf[current] /\ unitSize' \in Nat /\ unitSize' # 0
    BY SizesAreNumbers DEF CallbackInv, UnitInv
  <1>2. UnitSettled' BY <1>1 DEF CallbackInv, UnitInv, UnitSettled
  <1>3. handler["fuzzing"].name \notin Guarded BY DEF NoHandler, Guarded
  <1>4. "fuzzing" \in Threads /\ "leak" \notin Guarded BY DEF Threads, Guarded
  <1> QED BY <1>1, <1>2, <1>3, <1>4, EnterKeeps

(* A callback that starts, on any thread and anywhere.                     *)
LEMMA CallbackStartKeeps ==
    ASSUME CallbackInv, NEW t \in Threads,
           NEW name \in {"crash", "exit", "alarm", "rss", "malloc", "death"},
           Enter(t, name), handler[t].name \notin Guarded,
           UNCHANGED <<UnitState, reports>>,
           IF name \in Guarded THEN AcquireCrashState ELSE UNCHANGED taken
    PROVE  CallbackInv'
  <1>1. UNCHANGED <<epc, current, unitData, unitSize, running>> BY DEF UnitState
  <1>2. unitSize' # 0 => UnitSettled' BY <1>1 DEF CallbackInv, UnitInv, UnitSettled
  <1>13. ~(t = "fuzzing" /\ name = "leak") OBVIOUS
  <1>3. unitSize' \in Nat /\ (epc \in {"sized", "running", "returned"} => unitSize' = SizeOf[current])
    BY <1>1 DEF CallbackInv, UnitInv
  <1>4. name \in Guarded => (SanitizerCrashState => ~taken) /\ taken' BY Zenon DEF AcquireCrashState
  <1>5. name \notin Guarded => UNCHANGED taken BY Zenon
  <1>6. UNCHANGED <<epc, current, unitData, running, reports>> BY <1>1
  <1>7. t # "fuzzing" => unitSize' = unitSize BY <1>1
  <1>8. name \in {"crash", "exit", "alarm", "rss", "malloc", "death", "overwritten", "leak"} OBVIOUS
  <1>9. epc \in {"sized", "running", "returned"} => unitSize' = SizeOf[current] BY <1>3
  <1>10. unitSize' \in Nat BY <1>3
  <1>11. handler[t].name \notin Guarded OBVIOUS
  <1>12. CallbackInv /\ Enter(t, name) OBVIOUS
  <1> HIDE DEF CallbackInv, Enter, UnitSettled
  <1> QED BY ZenonT(60), <1>2, <1>4, <1>5, <1>6, <1>7, <1>8, <1>9, <1>10, <1>11, <1>12, <1>13, EnterKeeps

LEMMA CallbacksKeep ==
    ASSUME CallbackInv, NEW t \in {"fuzzing", "target"},
           CrashCallback(t) \/ ExitCallback(t) \/ HandleMalloc(t) \/ DeathCallback(t)
    PROVE  CallbackInv'
  <1>a. Free(t) \/ Interruptible(t) BY Zenon DEF CrashCallback, ExitCallback, HandleMalloc, DeathCallback
  <1>b. t \in Threads BY DEF Threads
  <1>c. handler[t].name \notin Guarded BY <1>a DEF Free, Interruptible, NoHandler, Guarded
  <1>1. t \in Threads /\ handler[t].name \notin Guarded BY <1>b, <1>c
  <1>2. UNCHANGED <<UnitState, reports>>
    BY DEF CrashCallback, ExitCallback, HandleMalloc, DeathCallback
  <1>3. CASE CrashCallback(t)
    BY <1>1, <1>2, <1>3, CallbackStartKeeps DEF CrashCallback, Guarded
  <1>4. CASE ExitCallback(t)
    <2>1. CASE running
      <3>1. AcquireCrashState /\ Enter(t, "exit") BY Zenon, <1>4, <2>1 DEF ExitCallback
      <3>2. "exit" \in Guarded BY DEF Guarded
      <3> QED BY <1>1, <1>2, <3>1, <3>2, CallbackStartKeeps
    <2>2. CASE ~running
      <3>1. UNCHANGED <<UnitState, taken, handler, reports>> BY <1>4, <2>2 DEF ExitCallback
      <3> QED BY <3>1 DEF UnitState, CallbackInv, CallbackTypes, UnitInv, UnitSettled, WholeOrEmpty, CrashStateInv
    <2> QED BY <2>1, <2>2
  <1>5. CASE HandleMalloc(t)
    BY <1>1, <1>2, <1>5, CallbackStartKeeps DEF HandleMalloc, Guarded
  <1>6. CASE DeathCallback(t)
    BY <1>1, <1>2, <1>6, CallbackStartKeeps DEF DeathCallback, Guarded
  <1> QED BY <1>3, <1>4, <1>5, <1>6

LEMMA AlarmKeeps == CallbackInv /\ AlarmCallback => CallbackInv'
  <1> SUFFICES ASSUME CallbackInv, AlarmCallback PROVE CallbackInv'
    OBVIOUS
  <1>1. "fuzzing" \in Threads /\ handler["fuzzing"].name \notin Guarded
    BY DEF Threads, AlarmCallback, Interruptible
  <1> QED BY <1>1, CallbackStartKeeps DEF AlarmCallback, Guarded

LEMMA RssKeeps == CallbackInv /\ RssLimitCallback => CallbackInv'
  <1> SUFFICES ASSUME CallbackInv, RssLimitCallback PROVE CallbackInv'
    OBVIOUS
  <1>1. "memory" \in Threads /\ handler["memory"].name \notin Guarded
    BY DEF Threads, RssLimitCallback, Free, NoHandler, Guarded
  <1> QED BY <1>1, CallbackStartKeeps DEF RssLimitCallback, Guarded

-----------------------------------------------------------------------------
LEMMA ReadSizeKeeps ==
    ASSUME CallbackInv, NEW t \in Threads, ReadSize(t) PROVE CallbackInv'
  <1>1. UNCHANGED <<epc, current, unitData, unitSize, running, taken, reports>>
    BY DEF ReadSize, UnitState
  <1>0. PICK n : n = IF t = "fuzzing" THEN unitSize ELSE 0 OBVIOUS
  <1>2. /\ handler' = [handler EXCEPT ![t] = [handler[t] EXCEPT !.stage = "data", !.size = n]]
        /\ handler[t].stage = "size" /\ n \in Nat
    BY <1>0 DEF ReadSize, CallbackInv, CallbackTypes, UnitInv
  <1>3. /\ handler'[t].name = handler[t].name /\ handler'[t].stage = "data" /\ handler'[t].size = n
        /\ \A u \in Threads \ {t} : handler'[u] = handler[u]
        /\ handler' \in [Threads -> [name : {"none", "crash", "exit", "alarm", "rss", "malloc", "death", "overwritten", "leak"},
                                     stage : {"none", "size", "data", "exit"}, size : Nat]]
    BY <1>2 DEF CallbackInv, CallbackTypes, UnitInv
  <1>4. handler[t] # NoHandler /\ handler[t].name # "none"
    BY <1>2 DEF NoHandler, CallbackInv, CallbackTypes
  <1>5. CallbackTypes' BY <1>1, <1>3, <1>4 DEF CallbackInv, CallbackTypes
  <1>6. UnitInv'
    <2>1. handler'["fuzzing"].name = handler["fuzzing"].name BY <1>3 DEF Threads
    <2>2. handler'["fuzzing"] = NoHandler => handler["fuzzing"] = NoHandler
      BY <2>1, <1>5 DEF CallbackInv, CallbackTypes, NoHandler, Threads
    <2>3. handler'["fuzzing"].stage = "data" => handler'["fuzzing"].size = unitSize
      <3>1. CASE t = "fuzzing" BY <1>0, <1>3, <3>1
      <3>2. CASE t # "fuzzing" BY <1>3, <3>2 DEF CallbackInv, UnitInv, Threads
      <3> QED BY <3>1, <3>2
    <2>4. \A r \in reports' : r.on = "fuzzing" => WholeOrEmpty(r) BY <1>1 DEF CallbackInv, UnitInv
    <2> QED BY <1>1, <2>1, <2>2, <2>3, <2>4 DEF CallbackInv, UnitInv, UnitSettled, WholeOrEmpty
  <1>7. CrashStateInv'
    <2>1. \A u \in Threads : handler'[u].name = handler[u].name BY <1>3
    <2> QED BY <1>1, <2>1 DEF CallbackInv, CrashStateInv
  <1> QED BY <1>5, <1>6, <1>7 DEF CallbackInv

LEMMA WriteArtifactKeeps ==
    ASSUME CallbackInv, NEW t \in Threads, WriteArtifact(t) PROVE CallbackInv'
  <1>0. PICK report : report = IF t = "fuzzing" THEN Artifact(t, current, epc, unitData)
                                                ELSE Artifact(t, NoUnit, "any", NoUnit)
    OBVIOUS
  <1>8. report.on = t /\ report.by = handler[t].name BY <1>0 DEF Artifact
  <1>9. t = "fuzzing" => /\ report.of = current /\ report.at = epc /\ report.data = unitData
                         /\ report.size = handler["fuzzing"].size
    BY <1>0 DEF Artifact
  <1>1. UNCHANGED <<epc, current, unitData, unitSize, running, taken>> /\ reports' = reports \cup {report}
    BY <1>0 DEF WriteArtifact, UnitState
  <1>2. /\ handler' = [handler EXCEPT ![t] = [handler[t] EXCEPT !.stage = "exit"]]
        /\ handler[t].stage = "data"
    BY DEF WriteArtifact, CallbackInv, CallbackTypes
  <1>3. /\ handler'[t].name = handler[t].name /\ handler'[t].stage = "exit"
        /\ \A u \in Threads \ {t} : handler'[u] = handler[u]
        /\ handler' \in [Threads -> [name : {"none", "crash", "exit", "alarm", "rss", "malloc", "death", "overwritten", "leak"},
                                     stage : {"none", "size", "data", "exit"}, size : Nat]]
    BY <1>2 DEF CallbackInv, CallbackTypes
  <1>4. handler[t] # NoHandler /\ handler[t].name # "none"
    BY <1>2 DEF NoHandler, CallbackInv, CallbackTypes
  <1>5. CallbackTypes' BY <1>1, <1>3, <1>4 DEF CallbackInv, CallbackTypes
  <1>6. UnitInv'
    <2>1. handler'["fuzzing"].name = handler["fuzzing"].name BY <1>3 DEF Threads
    <2>2. handler'["fuzzing"] = NoHandler => handler["fuzzing"] = NoHandler
      BY <2>1, <1>5 DEF CallbackInv, CallbackTypes, NoHandler, Threads
    <2>3. handler'["fuzzing"].stage = "data" => handler'["fuzzing"].size = unitSize
      BY <1>3 DEF CallbackInv, UnitInv, Threads
    <2>4. t = "fuzzing" => WholeOrEmpty(report)
      <3> SUFFICES ASSUME t = "fuzzing" PROVE WholeOrEmpty(report)
        OBVIOUS
      <3>1. report.size = unitSize /\ report.of = current /\ report.at = epc /\ report.data = unitData
        BY <1>2, <1>9 DEF CallbackInv, UnitInv
      <3>2. report.by = handler["fuzzing"].name BY <1>8
      <3>3. unitSize # 0 => report.data = report.of /\ report.size = SizeOf[report.of]
        BY <3>1 DEF CallbackInv, UnitInv, UnitSettled
      <3>4. report.at \in {"sized", "running", "returned"} => unitSize # 0
        BY <3>1, SizesAreNumbers DEF CallbackInv, UnitInv
      <3>5. report.by = "leak" => unitSize # 0 BY <3>2 DEF CallbackInv, UnitInv
      <3> QED BY <3>1, <3>3, <3>4, <3>5 DEF WholeOrEmpty
    <2>5. \A r \in reports' : r.on = "fuzzing" => WholeOrEmpty(r)
      BY <1>1, <1>8, <2>4 DEF CallbackInv, UnitInv
    <2> QED BY <1>1, <2>1, <2>2, <2>3, <2>5 DEF CallbackInv, UnitInv, UnitSettled, WholeOrEmpty
  <1>7. CrashStateInv'
    <2>1. \A u \in Threads : handler'[u].name = handler[u].name BY <1>3
    <2> QED BY <1>1, <1>8, <2>1 DEF CallbackInv, CrashStateInv
  <1> QED BY <1>5, <1>6, <1>7 DEF CallbackInv

-----------------------------------------------------------------------------
LEMMA CallbackInvStep == CallbackInv /\ [CallbackNext]_callbackVars => CallbackInv'
  <1> SUFFICES ASSUME CallbackInv, [CallbackNext]_callbackVars PROVE CallbackInv'
    OBVIOUS
  <1>1. CASE (\E u \in UnitsRun : CopyUnit(u)) \/ SetUnitSize \/ EnterTarget \/ TargetReturns
    BY <1>1, ExecuteKeeps
  <1>2. CASE CheckUnit BY <1>2, CheckUnitKeeps
  <1>3. CASE ReportLeak BY <1>3, ReportLeakKeeps
  <1>4. CASE \E t \in {"fuzzing", "target"} :
               CrashCallback(t) \/ ExitCallback(t) \/ HandleMalloc(t) \/ DeathCallback(t)
    BY <1>4, CallbacksKeep
  <1>5. CASE AlarmCallback BY <1>5, AlarmKeeps
  <1>6. CASE RssLimitCallback BY <1>6, RssKeeps
  <1>7. CASE \E t \in Threads : ReadSize(t) BY <1>7, ReadSizeKeeps
  <1>8. CASE \E t \in Threads : WriteArtifact(t) BY <1>8, WriteArtifactKeeps
  <1>9. ASSUME UNCHANGED <<UnitState, taken, handler, reports>> PROVE CallbackInv'
    BY <1>9 DEF UnitState, CallbackInv, CallbackTypes, UnitInv, UnitSettled, WholeOrEmpty, CrashStateInv
  <1>10. CASE \/ \E t \in Threads : ExitNow(t)
              \/ InterruptCallback \/ GracefulExitCallback \/ MaybeExitGracefully
              \/ UNCHANGED callbackVars
    BY <1>9, <1>10 DEF ExitNow, InterruptCallback, GracefulExitCallback, MaybeExitGracefully, callbackVars, UnitState
  <1> QED
    BY <1>1, <1>2, <1>3, <1>4, <1>5, <1>6, <1>7, <1>8, <1>10 DEF CallbackNext

LEMMA CallbackInvReports == CallbackInv => ReportsNameTheUnit
  <1> SUFFICES ASSUME CallbackInv PROVE ReportsNameTheUnit
    OBVIOUS
  <1>1. \A r \in reports : r.on = "fuzzing" =>
          /\ r.size # 0 => r.data = r.of /\ r.size = SizeOf[r.of]
          /\ r.at \in {"sized", "running", "returned"} \/ r.by = "leak" => r.size # 0
    BY DEF CallbackInv, UnitInv, WholeOrEmpty
  <1>2. ASSUME SanitizerCrashState, NEW r \in reports, NEW s \in reports, r.by \in Guarded, s.by \in Guarded
        PROVE  r.by = s.by /\ r.on = s.on
    BY <1>2 DEF CallbackInv, CrashStateInv
  <1> QED BY <1>1, <1>2 DEF ReportsNameTheUnit

(* The callbacks of FuzzerLoop.cpp, for any set of units and in any order  *)
(* and interleaving, also between the copy of a unit and of its size: what *)
(* the fuzzing thread reports is the unit it was given, whole or, when its *)
(* size is not set yet or not any more, empty; and only one callback       *)
(* reports under the crash state.                                          *)
THEOREM ReportsAreWhole == CallbackSpec => []ReportsNameTheUnit
  <1>1. CallbackInit => CallbackInv BY CallbackInvInit
  <1>2. CallbackInv /\ [CallbackNext]_callbackVars => CallbackInv' BY CallbackInvStep
  <1>3. CallbackInv => ReportsNameTheUnit BY CallbackInvReports
  <1> QED BY <1>1, <1>2, <1>3, PTL DEF CallbackSpec

-----------------------------------------------------------------------------
(* Mutations and the words they use *)

DictionaryWords == Range(ManualDictionary) \cup CmpWords \cup {<<>>}
RingPlaces == 0 .. kCmpDictionaryEntriesDequeSize - 1
Pointers == {"manual", "persistent", "cmp"} \X (DOMAIN ManualDictionary \cup Nat)

DispatcherTypes ==
    /\ persistent \in Seq(DictionaryWords)
    /\ ring \in [RingPlaces -> DictionaryWords] /\ ringIdx \in RingPlaces
    /\ entries \in Seq(Pointers) /\ applied \in Seq(DictionaryWords)
    /\ Len(applied) = Len(entries)

(* The place n steps on in the ring, for n up to its size.                 *)
StepsOn(at, n) ==
    IF at + n < kCmpDictionaryEntriesDequeSize THEN at + n ELSE at + n - kCmpDictionaryEntriesDequeSize

(* The pointer i leads to its word.  For a place of the ring: it will be   *)
(* the next to be overwritten when as many words have been put in as the   *)
(* ring has places, so until then the next place is another one.           *)
Leads(i) ==
    LET e == entries[i]
        n == Cardinality(CmpAfter(i))
    IN  /\ e[1] = "manual" => e[2] \in DOMAIN ManualDictionary /\ ManualDictionary[e[2]] = applied[i]
        /\ e[1] = "persistent" => e[2] \in DOMAIN persistent /\ persistent[e[2]] = applied[i]
        /\ e[1] = "cmp" =>
              /\ e[2] \in RingPlaces
              /\ n < kCmpDictionaryEntriesDequeSize => ring[e[2]] = applied[i] /\ ringIdx = StepsOn(e[2], n + 1)

WordsInv ==
    /\ DispatcherTypes
    /\ \A i \in DOMAIN entries : Leads(i)
    /\ IsInjective(persistent) /\ Len(persistent) <= kMaxDictSize

(* The word an outcome says it used is the one its pointer leads to, or is *)
(* about to be put in the ring.                                            *)
UsesWord(o) ==
    \/ o.from = "none"
    \/ o.from = "manual" /\ o.at \in DOMAIN ManualDictionary /\ o.word = ManualDictionary[o.at]
    \/ o.from = "persistent" /\ o.at \in DOMAIN persistent /\ o.word = persistent[o.at]
    \/ o.from = "cmp" /\ o.at = ringIdx /\ o.word \in CmpWords

LEMMA PlainUsesNoWord == \A S : \A o \in Plain(S) : o.from = "none"
  BY DEF Plain, Outcome

LEMMA WordsOfAttempts == \A d, max : \A o \in Attempts(d, max) : UsesWord(o)
  <1> SUFFICES ASSUME NEW d, NEW max, NEW o \in Attempts(d, max) PROVE UsesWord(o)
    OBVIOUS
  <1>1. \A u \in AddWordFromTORC(d, max) : UsesWord(u)
    BY DEF AddWordFromTORC, Outcome, UsesWord
  <1>2. \A u \in AddWordFrom("manual", ManualDictionary, d, max) : UsesWord(u)
    BY DEF AddWordFrom, Outcome, UsesWord
  <1>3. \A u \in AddWordFrom("persistent", persistent, d, max) : UsesWord(u)
    BY DEF AddWordFrom, Outcome, UsesWord
  <1>4. \A u \in CopyPart(d, max) : UsesWord(u)
    BY PlainUsesNoWord DEF CopyPart, Outcome, UsesWord
  <1>5. \A u \in MutateCrossOver(d, max) : UsesWord(u)
    BY DEF MutateCrossOver, Outcome, UsesWord
  <1>6. \A S : \A u \in Plain(S) : UsesWord(u) BY PlainUsesNoWord DEF UsesWord
  <1> QED BY <1>1, <1>2, <1>3, <1>4, <1>5, <1>6 DEF Attempts

LEMMA WordsOfMutations == \A d, max : \A o \in Mutated(d, max) : UsesWord(o)
  BY WordsOfAttempts, PlainUsesNoWord DEF Mutated, UsesWord

LEMMA NextPlace ==
    ASSUME NEW r \in RingPlaces
    PROVE  /\ (r + 1) % kCmpDictionaryEntriesDequeSize = StepsOn(r, 1)
           /\ StepsOn(r, 1) \in RingPlaces
  <1>1. \A K \in Nat \ {0} : \A x \in 0 .. K - 1 : (x + 1) % K = IF x + 1 < K THEN x + 1 ELSE x + 1 - K
    OBVIOUS
  <1>2. kCmpDictionaryEntriesDequeSize \in Nat \ {0} BY MutationsAssumption
  <1> QED BY <1>1, <1>2 DEF StepsOn, RingPlaces

LEMMA MovedOn ==
    ASSUME NEW e \in RingPlaces, NEW n \in Nat, n + 1 < kCmpDictionaryEntriesDequeSize
    PROVE  /\ e # StepsOn(e, n + 1)
           /\ StepsOn(StepsOn(e, n + 1), 1) = StepsOn(e, n + 2)
           /\ StepsOn(e, n + 1) \in RingPlaces
  <1>1. kCmpDictionaryEntriesDequeSize \in Nat \ {0} BY MutationsAssumption
  <1> QED BY <1>1 DEF StepsOn, RingPlaces

LEMMA LaterWords ==
    ASSUME DispatcherTypes, NEW e \in Pointers, entries' = Append(entries, e)
    PROVE  /\ \A i \in DOMAIN entries :
                 /\ Cardinality(CmpAfter(i)) \in Nat
                 /\ Cardinality(CmpAfter(i)') = Cardinality(CmpAfter(i)) + (IF e[1] = "cmp" THEN 1 ELSE 0)
           /\ \A k \in Nat : k = Len(entries) + 1 => Cardinality(CmpAfter(k)') = 0
  <1> DEFINE n == Len(entries)
  <1>1. /\ n \in Nat /\ DOMAIN entries = 1 .. n /\ Len(entries') = n + 1
        /\ \A j \in 1 .. n : entries'[j] = entries[j]
        /\ entries'[n + 1] = e
    BY DEF DispatcherTypes
  <1> HIDE DEF n
  <1>2. ASSUME NEW i \in DOMAIN entries
        PROVE  /\ Cardinality(CmpAfter(i)) \in Nat
               /\ Cardinality(CmpAfter(i)') = Cardinality(CmpAfter(i)) + (IF e[1] = "cmp" THEN 1 ELSE 0)
    <2>1. i \in Nat /\ i <= n /\ Len(entries) = n BY <1>1 DEF n
    <2>2. IsFiniteSet(CmpAfter(i)) /\ n + 1 \notin CmpAfter(i)
      <3>1. CmpAfter(i) \subseteq i + 1 .. n BY <2>1 DEF CmpAfter
      <3>2. IsFiniteSet(i + 1 .. n) BY <1>1, <2>1, FS_Interval
      <3>3. n + 1 \notin i + 1 .. n BY <1>1, <2>1
      <3> QED BY <3>1, <3>2, <3>3, FS_Subset
    <2>3. CmpAfter(i)' = IF e[1] = "cmp" THEN CmpAfter(i) \cup {n + 1} ELSE CmpAfter(i)
      <3>1. CmpAfter(i)' = {j \in i + 1 .. n + 1 : entries'[j][1] = "cmp"} BY <1>1 DEF CmpAfter
      <3>2. i + 1 .. n + 1 = (i + 1 .. n) \cup {n + 1} BY <1>1, <2>1
      <3>3. \A j \in i + 1 .. n : entries'[j] = entries[j] BY <1>1, <2>1
      <3> QED BY <1>1, <2>1, <3>1, <3>2, <3>3 DEF CmpAfter
    <2>4. Cardinality(CmpAfter(i)) \in Nat BY <2>2, FS_CardinalityType
    <2>5. Cardinality(CmpAfter(i) \cup {n + 1}) = Cardinality(CmpAfter(i)) + 1
      BY <2>2, FS_AddElement
    <2> QED BY <2>3, <2>4, <2>5
  <1>3. ASSUME NEW k \in Nat, k = n + 1 PROVE Cardinality(CmpAfter(k)') = 0
    <2>1. k + 1 .. n + 1 = {} BY <1>1, <1>3
    <2>2. CmpAfter(k)' = {} BY <1>1, <2>1 DEF CmpAfter
    <2> QED BY <2>2, FS_EmptySet
  <1> QED BY <1>2, <1>3 DEF n

(* What NoteWord makes of the pointers and the ring.                       *)
LEMMA NoteKeepsWords ==
    ASSUME WordsInv, NEW o, UsesWord(o), NoteWord(o), UNCHANGED persistent
    PROVE  WordsInv'
  <1> DEFINE e == <<o.from, o.at>>
  <1>1. CASE o.from = "none"
    <2>1. entries' = entries /\ applied' = applied /\ ring' = ring /\ ringIdx' = ringIdx
      BY <1>1 DEF NoteWord
    <2>2. \A i : CmpAfter(i)' = CmpAfter(i) BY <2>1 DEF CmpAfter
    <2>3. \A i : Leads(i)' <=> Leads(i) BY <2>1, <2>2 DEF Leads
    <2> QED BY <2>1, <2>3 DEF WordsInv, DispatcherTypes
  <1>2. CASE o.from # "none"
    <2> DEFINE n == Len(entries)
    <2>1. /\ entries' = Append(entries, e) /\ applied' = Append(applied, o.word)
          /\ e[1] = o.from /\ e[2] = o.at /\ e \in Pointers
          /\ o.word \in DictionaryWords
      <3>1. entries' = Append(entries, e) /\ applied' = Append(applied, o.word)
        BY <1>2 DEF NoteWord
      <3>2. DOMAIN persistent \subseteq Nat /\ \A i \in DOMAIN persistent : persistent[i] \in DictionaryWords
        BY DEF WordsInv, DispatcherTypes
      <3>3. ringIdx \in Nat BY MutationsAssumption DEF WordsInv, DispatcherTypes, RingPlaces
      <3>4. o.from \in {"manual", "persistent", "cmp"} /\ o.at \in DOMAIN ManualDictionary \cup Nat
        BY <1>2, <3>2, <3>3 DEF UsesWord
      <3>5. o.word \in DictionaryWords BY <1>2, <3>2 DEF UsesWord, DictionaryWords, Range
      <3> QED BY <3>1, <3>4, <3>5 DEF Pointers
    <2>2. /\ n \in Nat /\ DOMAIN entries = 1 .. n /\ DOMAIN entries' = 1 .. n + 1
          /\ \A j \in 1 .. n : entries'[j] = entries[j] /\ applied'[j] = applied[j]
          /\ entries'[n + 1] = e /\ applied'[n + 1] = o.word
          /\ entries' \in Seq(Pointers) /\ applied' \in Seq(DictionaryWords)
          /\ Len(applied') = Len(entries')
      BY <2>1 DEF WordsInv, DispatcherTypes
    <2>3. /\ \A i \in 1 .. n : /\ Cardinality(CmpAfter(i)) \in Nat
                              /\ Cardinality(CmpAfter(i)') = Cardinality(CmpAfter(i)) + (IF e[1] = "cmp" THEN 1 ELSE 0)
          /\ \A k \in Nat : k = n + 1 => Cardinality(CmpAfter(k)') = 0
      BY <2>1, <2>2, LaterWords DEF WordsInv
    <2> HIDE DEF n, e
    <2>4. DispatcherTypes'
      <3>1. CASE o.from = "cmp"
        <4>1. /\ ring' = [ring EXCEPT ![ringIdx] = o.word]
              /\ ringIdx' = (ringIdx + 1) % kCmpDictionaryEntriesDequeSize
          BY <3>1 DEF NoteWord
        <4>2. ringIdx' \in RingPlaces BY <4>1, NextPlace DEF WordsInv, DispatcherTypes
        <4>3. ring' \in [RingPlaces -> DictionaryWords] BY <2>1, <4>1 DEF WordsInv, DispatcherTypes
        <4> QED BY <2>2, <4>2, <4>3 DEF WordsInv, DispatcherTypes
      <3>2. CASE o.from # "cmp" BY <2>2, <3>2 DEF NoteWord, WordsInv, DispatcherTypes
      <3> QED BY <3>1, <3>2
    <2>5. ASSUME NEW i \in 1 .. n PROVE Leads(i)'
      <3>1. Leads(i) /\ entries'[i] = entries[i] /\ applied'[i] = applied[i] BY <2>2 DEF WordsInv
      <3>2. CASE o.from # "cmp"
        <4>1. ring' = ring /\ ringIdx' = ringIdx BY <3>2 DEF NoteWord
        <4>2. Cardinality(CmpAfter(i)') = Cardinality(CmpAfter(i)) BY <2>1, <2>3, <3>2
        <4> QED BY <3>1, <4>1, <4>2 DEF Leads
      <3>3. CASE o.from = "cmp"
        <4>1. /\ ring' = [ring EXCEPT ![ringIdx] = o.word] /\ ringIdx' = StepsOn(ringIdx, 1)
          BY <3>3, NextPlace DEF NoteWord, WordsInv, DispatcherTypes
        <4>2. PICK c \in Nat : c = Cardinality(CmpAfter(i)) BY <2>3
        <4>3. Cardinality(CmpAfter(i)') = c + 1 BY <2>1, <2>3, <3>3, <4>2
        <4>4. ASSUME entries[i][1] = "cmp", c + 1 < kCmpDictionaryEntriesDequeSize
              PROVE  ring'[entries[i][2]] = applied[i] /\ ringIdx' = StepsOn(entries[i][2], c + 2)
          <5>1. PICK r \in RingPlaces : r = entries[i][2] BY <3>1, <4>4 DEF Leads
          <5>2. c < kCmpDictionaryEntriesDequeSize BY <4>4, MutationsAssumption
          <5>3. ring[r] = applied[i] /\ ringIdx = StepsOn(r, c + 1) BY <3>1, <4>2, <4>4, <5>1, <5>2 DEF Leads
          <5>4. ring'[r] = ring[r] BY <4>1, <4>4, <5>3, MovedOn DEF WordsInv, DispatcherTypes
          <5>5. ringIdx' = StepsOn(r, c + 2) BY <4>1, <4>4, <5>3, MovedOn
          <5> QED BY <5>1, <5>3, <5>4, <5>5
        <4>5. c + 1 + 1 = c + 2 OBVIOUS
        <4> QED BY <3>1, <4>3, <4>4, <4>5 DEF Leads
      <3> QED BY <3>2, <3>3
    <2>6. ASSUME NEW k \in Nat, k = n + 1 PROVE Leads(k)'
      <3>1. entries'[k] = e /\ applied'[k] = o.word /\ Cardinality(CmpAfter(k)') = 0 BY <2>2, <2>3, <2>6
      <3>2. CASE o.from = "manual" BY <2>1, <3>1, <3>2 DEF Leads, UsesWord
      <3>3. CASE o.from = "persistent" BY <2>1, <3>1, <3>3 DEF Leads, UsesWord
      <3>4. CASE o.from = "cmp"
        <4>1. /\ ring' = [ring EXCEPT ![ringIdx] = o.word] /\ ringIdx' = StepsOn(ringIdx, 1)
              /\ e[2] = ringIdx /\ ringIdx \in RingPlaces
          BY <2>1, <3>4, NextPlace DEF NoteWord, UsesWord, WordsInv, DispatcherTypes
        <4>2. ring'[ringIdx] = o.word BY <4>1 DEF WordsInv, DispatcherTypes
        <4> QED BY <2>1, <3>1, <3>4, <4>1, <4>2 DEF Leads
      <3> QED BY <1>2, <3>2, <3>3, <3>4 DEF UsesWord
    <2>7. ASSUME NEW i \in DOMAIN entries' PROVE Leads(i)'
      <3>1. i \in 1 .. n \/ (i \in Nat /\ i = n + 1) BY <2>2
      <3> QED BY <2>5, <2>6, <3>1
    <2> QED BY <2>4, <2>7 DEF WordsInv
  <1> QED BY <1>1, <1>2

LEMMA InOrderPlace ==
    ASSUME NEW m \in Nat, NEW S \in SUBSET (1 .. m), NEW i \in 1 .. Cardinality(S)
    PROVE  InOrder(S, i) \in S /\ Cardinality(S \cap 1 .. InOrder(S, i)) = i
  <1> DEFINE UpTo(k) == S \cap 1 .. k
             T == {k \in Nat : Cardinality(UpTo(k)) >= i}
  <1>1. IsFiniteSet(S) /\ i \in Nat /\ i > 0
    <2>0. IsFiniteSet(1 .. m) BY FS_Interval
    <2>1. IsFiniteSet(S) BY <2>0, FS_Subset
    <2>2. Cardinality(S) \in Nat BY <2>1, FS_CardinalityType
    <2> QED BY <2>1, <2>2
  <1>2. \A k \in Nat : IsFiniteSet(UpTo(k)) /\ Cardinality(UpTo(k)) \in Nat
    <2>1. \A k \in Nat : UpTo(k) \in SUBSET S OBVIOUS
    <2> HIDE DEF UpTo
    <2> QED BY <1>1, <2>1, FS_Subset, FS_CardinalityType
  <1>3. UpTo(m) = S /\ UpTo(0) = {}
    <2>1. 1 .. 0 = {} OBVIOUS
    <2>2. S \cap 1 .. 0 = {} BY <2>1
    <2>3. S \cap 1 .. m = S OBVIOUS
    <2> QED BY <2>2, <2>3
  <1>4. m \in T
    <2>1. Cardinality(S) \in Nat BY <1>1, FS_CardinalityType
    <2>2. Cardinality(S) >= i BY <1>1, <2>1
    <2> QED BY <1>3, <2>2
  <1>5. PICK k \in T : \A j \in T : k <= j BY <1>4, LeastNumber
  <1>6. k \in Nat /\ k # 0 /\ k - 1 \in Nat /\ ~(Cardinality(UpTo(k - 1)) >= i) /\ Cardinality(UpTo(k)) >= i
    <2>1. k # 0
      <3>1. Cardinality(UpTo(0)) = 0 BY <1>3, FS_EmptySet
      <3> QED BY <1>1, <1>5, <3>1
    <2> HIDE DEF UpTo
    <2>2. k \in Nat /\ k - 1 \in Nat /\ ~(k <= k - 1) BY <1>5, <2>1
    <2> QED BY <1>5, <2>1, <2>2
  <1>7. UpTo(k) = IF k \in S THEN UpTo(k - 1) \cup {k} ELSE UpTo(k - 1)
    <2>1. 1 .. k = (1 .. k - 1) \cup {k} BY <1>6
    <2> QED BY <2>1
  <1>8. k \in S BY <1>6, <1>7
  <1>9. k \notin UpTo(k - 1) BY <1>6
  <1>10. Cardinality(UpTo(k)) = Cardinality(UpTo(k - 1)) + 1
    BY <1>2, <1>6, <1>7, <1>8, <1>9, FS_AddElement
  <1>11. Cardinality(S \cap 1 .. k) = i
    <2> HIDE DEF UpTo
    <2>1. Cardinality(UpTo(k)) = i BY <1>1, <1>2, <1>6, <1>10
    <2> QED BY <2>1 DEF UpTo
  <1> QED BY <1>8, <1>11 DEF InOrder

(* The words appended to the persistent dictionary are new and differ.     *)
LEMMA RecordKeepsWords ==
    ASSUME WordsInv, RecordSuccessfulMutationSequence
    PROVE  persistent' \in Seq(DictionaryWords) /\ IsInjective(persistent') /\ Len(persistent') <= kMaxDictSize
  <1> DEFINE new == NewWords
             p == persistent
             room == kMaxDictSize - Len(p)
             n == AtMost(Cardinality(new), room)
             w == [i \in 1 .. n |-> Word(entries[InOrder(new, i)])]
  <1>1. /\ Len(entries) \in Nat /\ DOMAIN entries = 1 .. Len(entries)
        /\ Len(p) \in Nat /\ DOMAIN p = 1 .. Len(p) /\ room \in Nat /\ p \in Seq(DictionaryWords)
    BY MutationsAssumption DEF WordsInv, DispatcherTypes
  <1>2. \A i \in DOMAIN entries : Word(entries[i]) \in DictionaryWords
    <2> SUFFICES ASSUME NEW i \in DOMAIN entries PROVE Word(entries[i]) \in DictionaryWords
      OBVIOUS
    <2>1. entries[i][1] \in {"manual", "persistent", "cmp"} /\ Leads(i)
      BY DEF WordsInv, DispatcherTypes, Pointers
    <2>2. CASE entries[i][1] = "manual" BY <2>1, <2>2 DEF Leads, Word, DictionaryWords, Range
    <2>3. CASE entries[i][1] = "persistent" BY <1>1, <2>1, <2>3 DEF Leads, Word
    <2>4. CASE entries[i][1] = "cmp" BY <2>1, <2>4 DEF Leads, Word, WordsInv, DispatcherTypes
    <2> QED BY <2>1, <2>2, <2>3, <2>4
  <1>3. new \in SUBSET (1 .. Len(entries)) BY <1>1 DEF NewWords
  <1>4. Cardinality(new) \in Nat
    <2>1. IsFiniteSet(1 .. Len(entries)) BY <1>1, FS_Interval
    <2> HIDE DEF new
    <2>2. IsFiniteSet(new) BY <1>3, <2>1, FS_Subset
    <2> QED BY <2>2, FS_CardinalityType
  <1>5. n \in Nat /\ n <= room /\ 1 .. n \subseteq 1 .. Cardinality(new) BY <1>1, <1>4 DEF AtMost
  <1>6. persistent' = p \o w BY DEF RecordSuccessfulMutationSequence
  <1> HIDE DEF n, room, new
  <1>7. \A i \in 1 .. n : /\ InOrder(new, i) \in new /\ InOrder(new, i) \in DOMAIN entries
                          /\ Cardinality(new \cap 1 .. InOrder(new, i)) = i
    BY <1>1, <1>3, <1>5, InOrderPlace
  <1>8. \A i, j \in 1 .. n : i # j => w[i] # w[j]
    <2> SUFFICES ASSUME NEW i \in 1 .. n, NEW j \in 1 .. n, i # j PROVE w[i] # w[j]
      OBVIOUS
    <2>1. PICK k \in new : k = InOrder(new, i) BY <1>7
    <2>2. PICK l \in new : l = InOrder(new, j) BY <1>7
    <2>3. k # l BY <1>7, <2>1, <2>2
    <2>4. k \in Nat /\ l \in Nat /\ k > 0 /\ l > 0 BY <1>3
    <2>5. k \in 1 .. l - 1 \/ l \in 1 .. k - 1 BY <2>3, <2>4
    <2>6. Word(entries[k]) # Word(entries[l]) BY <2>5 DEF new, NewWords
    <2> QED BY <2>1, <2>2, <2>6
  <1>9. \A i \in 1 .. n, j \in 1 .. Len(p) : w[i] # p[j]
    <2> SUFFICES ASSUME NEW i \in 1 .. n, NEW j \in 1 .. Len(p) PROVE w[i] # p[j]
      OBVIOUS
    <2>1. PICK k \in new : k = InOrder(new, i) BY <1>7
    <2>2. ~Contains(p, Word(entries[k])) BY DEF new, NewWords
    <2> QED BY <2>1, <2>2 DEF Contains
  <1>10. w \in Seq(DictionaryWords) /\ Len(w) = n
    <2>1. w \in [1 .. n -> DictionaryWords] BY <1>2, <1>7
    <2> HIDE DEF w
    <2> QED BY <1>5, <2>1
  <1> HIDE DEF w
  <1>11. /\ p \o w \in Seq(DictionaryWords) /\ Len(p \o w) = Len(p) + n
         /\ \A i \in 1 .. Len(p) : (p \o w)[i] = p[i]
         /\ \A i \in 1 .. n : (p \o w)[Len(p) + i] = w[i]
    <2> HIDE DEF p
    <2>1. p \o w \in Seq(DictionaryWords) /\ Len(p \o w) = Len(p) + n BY <1>1, <1>10
    <2>2. \A i \in 1 .. Len(p) : (p \o w)[i] = p[i] BY <1>1, <1>5, <1>10
    <2>3. ASSUME NEW i \in 1 .. n PROVE (p \o w)[Len(p) + i] = w[i]
      <3>1. Len(p) + i \in 1 .. Len(p) + Len(w) /\ Len(p) + i > Len(p) /\ Len(p) + i - Len(p) = i
        BY <1>1, <1>5, <1>10
      <3> QED BY <1>1, <1>10, <3>1
    <2> QED BY <2>1, <2>2, <2>3
  <1>12. Len(p) + n <= kMaxDictSize BY <1>1, <1>5, MutationsAssumption DEF room
  <1>13. IsInjective(p) BY DEF WordsInv
  <1> DEFINE q == p \o w
  <1>14. DOMAIN q = 1 .. Len(p) + n BY <1>11
  <1> HIDE DEF q, p
  <1>15. IsInjective(q)
    <2> SUFFICES ASSUME NEW i \in 1 .. Len(p) + n, NEW j \in 1 .. Len(p) + n, i < j PROVE q[i] # q[j]
      <3>1. \A i, j \in 1 .. Len(p) + n : i < j \/ j < i \/ i = j BY <1>1, <1>5
      <3> QED BY <1>14, <3>1 DEF IsInjective
    <2>1. CASE j <= Len(p)
      <3>1. i \in 1 .. Len(p) /\ j \in 1 .. Len(p) /\ i # j BY <1>1, <1>5, <2>1
      <3> QED BY <1>1, <1>11, <1>13, <3>1 DEF IsInjective, q
    <2>2. CASE j > Len(p)
      <3>1. PICK l \in 1 .. n : j = Len(p) + l
        <4>1. j - Len(p) \in 1 .. n /\ j = Len(p) + (j - Len(p)) BY <1>1, <1>5, <2>2
        <4> QED BY <4>1
      <3>2. q[j] = w[l] BY <1>11, <3>1 DEF q
      <3>3. CASE i <= Len(p)
        <4>1. i \in 1 .. Len(p) BY <1>1, <1>5, <3>3
        <4> QED BY <1>9, <1>11, <3>2, <4>1 DEF q
      <3>4. CASE i > Len(p)
        <4>1. PICK k \in 1 .. n : i = Len(p) + k
          <5>1. i - Len(p) \in 1 .. n /\ i = Len(p) + (i - Len(p)) BY <1>1, <1>5, <3>4
          <5> QED BY <5>1
        <4>2. q[i] = w[k] /\ k # l BY <1>1, <1>5, <1>11, <3>1, <4>1 DEF q
        <4> QED BY <1>8, <3>2, <4>2
      <3> QED BY <1>1, <3>3, <3>4
    <2> QED BY <1>1, <1>5, <2>1, <2>2
  <1> QED BY <1>6, <1>11, <1>12, <1>15 DEF q, p

LEMMA WordsInvStep == WordsInv /\ [MutationsNext]_dispatcherVars => WordsInv'
  <1> SUFFICES ASSUME WordsInv, [MutationsNext]_dispatcherVars PROVE WordsInv'
    OBVIOUS
  <1>1. ASSUME NEW e \in {<<>>}, entries' = e, applied' = e, UNCHANGED <<ring, ringIdx>>,
               persistent' \in Seq(DictionaryWords), IsInjective(persistent'), Len(persistent') <= kMaxDictSize
        PROVE  WordsInv'
    BY <1>1 DEF WordsInv, DispatcherTypes
  <1>2. CASE StartMutationSequence BY <1>1, <1>2 DEF StartMutationSequence, WordsInv, DispatcherTypes
  <1>3. CASE MutateImpl BY <1>3, WordsOfMutations, NoteKeepsWords DEF MutateImpl
  <1>4. CASE FailedAttempt
    <2>1. \A o \in AddWordFromTORC(data, limit) : UsesWord(o)
      BY DEF AddWordFromTORC, Outcome, UsesWord
    <2> QED BY <1>4, <2>1, NoteKeepsWords DEF FailedAttempt
  <1>5. CASE MutateWithMask BY <1>5, WordsOfMutations, NoteKeepsWords DEF MutateWithMask
  <1>6. CASE RecordSuccessfulMutationSequence
    BY <1>1, <1>6, RecordKeepsWords DEF RecordSuccessfulMutationSequence
  <1>7. CASE UNCHANGED dispatcherVars
    <2>1. /\ entries' = entries /\ applied' = applied /\ ring' = ring /\ ringIdx' = ringIdx
          /\ persistent' = persistent
      BY <1>7 DEF dispatcherVars
    <2>2. \A i : CmpAfter(i)' = CmpAfter(i) BY <2>1 DEF CmpAfter
    <2>3. \A i : Leads(i)' <=> Leads(i) BY <2>1, <2>2 DEF Leads
    <2> QED BY <2>1, <2>3 DEF WordsInv, DispatcherTypes
  <1> QED BY <1>2, <1>3, <1>4, <1>5, <1>6, <1>7 DEF MutationsNext

LEMMA WordsInvInit == MutationsInit => WordsInv
  <1> SUFFICES ASSUME MutationsInit PROVE WordsInv
    OBVIOUS
  <1>1. 0 \in RingPlaces BY MutationsAssumption DEF RingPlaces
  <1>2. ring \in [RingPlaces -> DictionaryWords] BY DEF MutationsInit, RingPlaces, DictionaryWords
  <1>3. persistent = <<>> /\ entries = <<>> /\ applied = <<>> /\ ringIdx = 0 BY DEF MutationsInit
  <1>4. IsInjective(persistent) /\ Len(persistent) <= kMaxDictSize
    BY <1>3, MutationsAssumption DEF IsInjective
  <1>5. DispatcherTypes BY <1>1, <1>2, <1>3 DEF DispatcherTypes
  <1>6. DOMAIN entries = {} BY <1>3
  <1> QED BY <1>4, <1>5, <1>6 DEF WordsInv

LEMMA WordsInvKeeps == WordsInv => PointersKeepTheirWords
  <1> SUFFICES ASSUME WordsInv, NEW i \in DOMAIN entries,
                      Cardinality(CmpAfter(i)) < kCmpDictionaryEntriesDequeSize
               PROVE  Word(entries[i]) = applied[i]
    BY DEF WordsInv, PointersKeepTheirWords
  <1>1. entries[i][1] \in {"manual", "persistent", "cmp"} /\ Leads(i)
    BY DEF WordsInv, DispatcherTypes, Pointers
  <1> QED BY <1>1 DEF Leads, Word

(* MutationDispatcher of FuzzerMutate.cpp, for any dictionaries, words of  *)
(* comparisons and size of the ring: a pointer of the current sequence     *)
(* leads to the word that was applied until the ring has come round to its *)
(* place, and no word is twice in the persistent dictionary.               *)
THEOREM WordsStayInPlace == MutationsSpec => []PointersKeepTheirWords
  <1> QED BY WordsInvInit, WordsInvStep, WordsInvKeeps, PTL DEF MutationsSpec

-----------------------------------------------------------------------------
(* Counters and features *)

(* A sequence of regions that follow on each other from `from` to `to`.    *)
Chain(q, from, to) ==
    /\ q \in Seq(Nat \X Nat) /\ from <= to
    /\ IF q = <<>> THEN from = to ELSE q[1][1] = from /\ q[Len(q)][2] = to
    /\ \A i \in 1 .. Len(q) - 1 : q[i][2] = q[i + 1][1]
    /\ \A i \in DOMAIN q : from <= q[i][1] /\ q[i][1] <= q[i][2] /\ q[i][2] <= to

LEMMA ChainOfNone == \A from \in Nat : Chain(<<>>, from, from)
  BY DEF Chain

LEMMA ChainOfOne ==
    ASSUME NEW from \in Nat, NEW to \in Nat, from <= to
    PROVE  Chain(<< <<from, to>> >>, from, to)
  BY DEF Chain

LEMMA SecondPart ==
    ASSUME NEW S, NEW q \in Seq(S), NEW t \in Seq(S),
           NEW k \in 1 .. Len(q) + Len(t), k > Len(q)
    PROVE  (q \o t)[k] = t[k - Len(q)]
  OBVIOUS

LEMMA ChainOnChain ==
    ASSUME NEW from \in Nat, NEW mid \in Nat, NEW to \in Nat,
           NEW q, NEW t, Chain(q, from, mid), Chain(t, mid, to)
    PROVE  Chain(q \o t, from, to)
  <1> DEFINE m == Len(q)
             n == Len(t)
             qt == q \o t
  <1>1. q \in Seq(Nat \X Nat) /\ t \in Seq(Nat \X Nat) /\ from <= mid /\ mid <= to BY DEF Chain
  <1>2. CASE q = <<>> BY <1>1, <1>2 DEF Chain
  <1>3. CASE t = <<>> BY <1>1, <1>3 DEF Chain
  <1>4. CASE q # <<>> /\ t # <<>>
    <2>1. /\ m \in Nat \ {0} /\ n \in Nat \ {0} /\ DOMAIN q = 1 .. m /\ DOMAIN t = 1 .. n
          /\ qt \in Seq(Nat \X Nat) /\ Len(qt) = m + n /\ DOMAIN qt = 1 .. m + n /\ qt # <<>>
      BY <1>1, <1>4
    <2>2. \A i \in 1 .. m : qt[i] = q[i] BY <1>1
    <2>3. ASSUME NEW i \in 1 .. n PROVE qt[m + i] = t[i]
      <3>1. PICK a \in Nat \ {0}, b \in Nat \ {0} : a = m /\ b = n BY <2>1
      <3>2. a + i \in 1 .. a + b /\ a + i > a /\ a + i - a = i BY <3>1
      <3>3. m + i \in 1 .. m + n /\ m + i > m /\ m + i - m = i BY <3>1, <3>2
      <3>4. \A k \in 1 .. m + n : k > m => qt[k] = t[k - m]
        <4> SUFFICES ASSUME NEW k \in 1 .. m + n, k > m PROVE qt[k] = t[k - m]
          OBVIOUS
        <4> QED BY <1>1, SecondPart
      <3>5. PICK k \in 1 .. m + n : k = m + i /\ k > m /\ k - m = i BY <3>3
      <3>6. qt[k] = t[k - m] BY <3>4, <3>5
      <3> HIDE DEF m, n, qt
      <3> QED BY <3>5, <3>6
    <2>4. /\ q[1][1] = from /\ q[m][2] = mid /\ t[1][1] = mid /\ t[n][2] = to
          /\ \A i \in 1 .. m - 1 : q[i][2] = q[i + 1][1]
          /\ \A i \in 1 .. n - 1 : t[i][2] = t[i + 1][1]
          /\ \A i \in 1 .. m : from <= q[i][1] /\ q[i][1] <= q[i][2] /\ q[i][2] <= mid
          /\ \A i \in 1 .. n : mid <= t[i][1] /\ t[i][1] <= t[i][2] /\ t[i][2] <= to
      BY <1>4, <2>1 DEF Chain
    <2>5. /\ \A i \in 1 .. m : q[i][1] \in Nat /\ q[i][2] \in Nat
          /\ \A i \in 1 .. n : t[i][1] \in Nat /\ t[i][2] \in Nat
      <3>1. \A i \in 1 .. m : q[i] \in Nat \X Nat BY <1>1, <2>1
      <3>2. \A i \in 1 .. n : t[i] \in Nat \X Nat BY <1>1, <2>1
      <3>3. \A p \in Nat \X Nat : p[1] \in Nat /\ p[2] \in Nat OBVIOUS
      <3> QED BY <3>1, <3>2, <3>3
    <2> HIDE DEF m, n, qt
    <2>6. \A i \in 1 .. m + n : i \in 1 .. m \/ \E j \in 1 .. n : i = m + j
      <3> SUFFICES ASSUME NEW i \in 1 .. m + n, i \notin 1 .. m PROVE \E j \in 1 .. n : i = m + j
        OBVIOUS
      <3>1. i - m \in 1 .. n /\ i = m + (i - m) BY <2>1
      <3> QED BY <3>1
    <2>7. qt[1][1] = from /\ qt[m + n][2] = to
      <3>1. 1 \in 1 .. m /\ n \in 1 .. n BY <2>1
      <3> QED BY <2>2, <2>3, <2>4, <3>1
    <2>8. ASSUME NEW i \in 1 .. m + n - 1 PROVE qt[i][2] = qt[i + 1][1]
      <3>1. CASE i < m
        <4>1. i \in 1 .. m - 1 /\ i \in 1 .. m /\ i + 1 \in 1 .. m BY <2>1, <3>1
        <4> QED BY <2>2, <2>4, <4>1
      <3>2. CASE i = m
        <4>1. i \in 1 .. m /\ 1 \in 1 .. n BY <2>1, <3>2
        <4> QED BY <2>2, <2>3, <2>4, <3>2, <4>1
      <3>3. CASE i > m
        <4>1. PICK j \in 1 .. n - 1 : i = m + j
          <5>1. i - m \in 1 .. n - 1 /\ i = m + (i - m) BY <2>1, <3>3
          <5> QED BY <5>1
        <4>2. j \in 1 .. n /\ j + 1 \in 1 .. n /\ i + 1 = m + (j + 1) BY <2>1, <4>1
        <4> QED BY <2>3, <2>4, <4>1, <4>2
      <3> QED BY <2>1, <3>1, <3>2, <3>3
    <2>9. ASSUME NEW i \in 1 .. m + n PROVE from <= qt[i][1] /\ qt[i][1] <= qt[i][2] /\ qt[i][2] <= to
      <3>0. /\ \A x \in Nat : x <= mid => x <= to
            /\ \A x \in Nat : mid <= x => from <= x
        BY <1>1
      <3>1. CASE i \in 1 .. m
        <4>1. qt[i] = q[i] BY <2>2, <3>1
        <4> QED BY <2>4, <2>5, <3>0, <3>1, <4>1
      <3>2. CASE \E j \in 1 .. n : i = m + j
        <4>1. PICK j \in 1 .. n : i = m + j BY <3>2
        <4>2. qt[i] = t[j] BY <2>3, <4>1
        <4> QED BY <2>4, <2>5, <3>0, <4>2
      <3> QED BY <2>6, <3>1, <3>2
    <2>10. from <= to BY <1>1
    <2>11. Chain(qt, from, to)
      <3>1. qt[Len(qt)][2] = to BY <2>1, <2>7
      <3>2. \A i \in 1 .. Len(qt) - 1 : qt[i][2] = qt[i + 1][1] BY <2>1, <2>8
      <3>3. \A i \in DOMAIN qt : from <= qt[i][1] /\ qt[i][1] <= qt[i][2] /\ qt[i][2] <= to BY <2>1, <2>9
      <3> QED BY <2>1, <2>7, <2>10, <3>1, <3>2, <3>3 DEF Chain
    <2> QED BY <2>11 DEF qt
  <1> QED BY <1>2, <1>3, <1>4

(* The full pages between two multiples of the page size.                  *)
Pages(from, k) == [i \in 1 .. k |-> <<from + (i - 1) * PageSize, from + i * PageSize>>]

LEMMA ChainOfPages ==
    ASSUME NEW from \in Nat, NEW k \in Nat
    PROVE  Chain(Pages(from, k), from, from + k * PageSize)
  <1> DEFINE q == Pages(from, k)
  <1>1. PageSize \in Nat \ {0} BY TraceAssumption
  <1>2. \A x \in Nat, P \in Nat : x * P \in Nat OBVIOUS
  <1>3. \A i, j \in Nat, P \in Nat : i <= j => i * P <= j * P OBVIOUS
  <1>4. \A i \in Nat, P \in Nat : (i + 1 - 1) * P = i * P OBVIOUS
  <1>5. DOMAIN q = 1 .. k /\ \A i \in 1 .. k : q[i][1] = from + (i - 1) * PageSize /\ q[i][2] = from + i * PageSize
    BY DEF Pages
  <1>6. \A i \in 1 .. k : i \in Nat /\ i - 1 \in Nat /\ i - 1 <= i /\ i <= k OBVIOUS
  <1>7. \A i \in 0 .. k : i * PageSize \in Nat /\ i * PageSize <= k * PageSize BY <1>1, <1>2, <1>3
  <1>8. q \in Seq(Nat \X Nat) /\ Len(q) = k
    <2>1. q \in [1 .. k -> Nat \X Nat]
      <3> SUFFICES ASSUME NEW i \in 1 .. k
                   PROVE  from + (i - 1) * PageSize \in Nat /\ from + i * PageSize \in Nat
        BY DEF Pages
      <3>1. i - 1 \in 0 .. k /\ i \in 0 .. k OBVIOUS
      <3> QED BY <1>7, <3>1
    <2> HIDE DEF q
    <2> QED BY <2>1
  <1> HIDE DEF q
  <1>9. ASSUME NEW i \in 1 .. k PROVE from <= q[i][1] /\ q[i][1] <= q[i][2] /\ q[i][2] <= from + k * PageSize
    <2>1. i - 1 \in 0 .. k /\ i \in 0 .. k OBVIOUS
    <2>2. (i - 1) * PageSize <= i * PageSize BY <1>1, <1>3, <1>6
    <2>3. (i - 1) * PageSize \in Nat /\ i * PageSize \in Nat /\ i * PageSize <= k * PageSize /\ k * PageSize \in Nat
      BY <1>1, <1>2, <1>7, <2>1
    <2> QED BY <1>5, <2>2, <2>3
  <1>10. ASSUME NEW i \in 1 .. k - 1 PROVE q[i][2] = q[i + 1][1]
    <2>1. i \in 1 .. k /\ i + 1 \in 1 .. k /\ i \in Nat OBVIOUS
    <2>2. (i + 1 - 1) * PageSize = i * PageSize BY <1>1, <1>4, <2>1
    <2> QED BY <1>5, <2>1, <2>2
  <1>11. IF q = <<>> THEN from = from + k * PageSize ELSE q[1][1] = from /\ q[Len(q)][2] = from + k * PageSize
    <2>1. CASE k = 0
      <3>1. q = <<>> BY <1>8, <2>1
      <3>2. 0 * PageSize = 0 BY <1>1
      <3> QED BY <2>1, <3>1, <3>2
    <2>2. CASE k # 0
      <3>1. q # <<>> /\ 1 \in 1 .. k /\ k \in 1 .. k BY <1>8, <2>2
      <3>2. (1 - 1) * PageSize = 0 BY <1>1
      <3> QED BY <1>5, <1>8, <3>1, <3>2
    <2> QED BY <2>1, <2>2
  <1>12. from <= from + k * PageSize BY <1>1, <1>2
  <1> QED BY <1>5, <1>8, <1>9, <1>10, <1>11, <1>12 DEF Chain, q

LEMMA Rounding ==
    ASSUME NEW n \in Nat \ {0}, NEW x \in Nat
    PROVE  /\ RoundUp(x, n) \in Nat /\ RoundDown(x, n) \in Nat
           /\ RoundDown(x, n) <= x /\ x < RoundDown(x, n) + n
           /\ x <= RoundUp(x, n) /\ RoundUp(x, n) < x + n
           /\ \E i, j \in Nat : RoundDown(x, n) = i * n /\ RoundUp(x, n) = j * n
  <1>1. \A y \in Nat : /\ y \div n \in Nat /\ (y \div n) * n <= y
                       /\ y < (y \div n) * n + n /\ (y \div n) * n \in Nat
    OBVIOUS
  <1>2. PICK y \in Nat : y = x + n - 1
    <2>1. x + n - 1 \in Nat OBVIOUS
    <2> QED BY <2>1
  <1>3. RoundUp(x, n) = (y \div n) * n /\ RoundDown(x, n) = (x \div n) * n
    BY <1>2 DEF RoundUp, RoundDown
  <1>4. PICK u \in Nat, d \in Nat : u = y \div n /\ d = x \div n BY <1>1
  <1>5. u * n \in Nat /\ u * n <= y /\ y < u * n + n BY <1>1, <1>4
  <1>6. d * n \in Nat /\ d * n <= x /\ x < d * n + n BY <1>1, <1>4
  <1>7. x <= u * n /\ u * n < x + n
    <2>1. \A z \in Nat : z <= y /\ y < z + n => x <= z /\ z < x + n BY <1>2
    <2> QED BY <1>5, <2>1
  <1> QED BY <1>3, <1>4, <1>5, <1>6, <1>7

(* HandleInline8bitCountersInit cuts a section into regions that follow on *)
(* each other.                                                             *)
LEMMA RegionsAreChain ==
    ASSUME NEW start \in Nat, NEW stop \in Nat, start <= stop
    PROVE  Chain(Regions(start, stop), start, stop)
  <1> DEFINE up == RoundUp(start, PageSize)
             down == RoundDown(stop, PageSize)
             full == IF down > up THEN (down - up) \div PageSize ELSE 0
             first == IF start < up \/ full = 0 THEN << <<start, Below(stop, up)>> >> ELSE <<>>
             last == IF stop > down /\ down >= up THEN << <<down, stop>> >> ELSE <<>>
  <1>1. PageSize \in Nat \ {0} BY TraceAssumption
  <1>2. /\ up \in Nat /\ down \in Nat /\ start <= up /\ up < start + PageSize
        /\ down <= stop /\ stop < down + PageSize
        /\ \E i, j \in Nat : down = i * PageSize /\ up = j * PageSize
    <2>1. /\ up \in Nat /\ start <= up /\ up < start + PageSize
          /\ \E j \in Nat : up = j * PageSize
      BY <1>1, Rounding
    <2>2. /\ down \in Nat /\ down <= stop /\ stop < down + PageSize
          /\ \E i \in Nat : down = i * PageSize
      BY <1>1, Rounding
    <2> HIDE DEF up, down
    <2> QED BY <2>1, <2>2
  <1>3. Regions(start, stop) = (first \o Pages(up, full)) \o last BY DEF Regions, Pages
  <1> HIDE DEF up, down
  <1>4. CASE down > up
    <2>1. full \in Nat \ {0} /\ up + full * PageSize = down
      <3>1. PICK i \in Nat, j \in Nat : down = i * PageSize /\ up = j * PageSize BY <1>2
      <3>2. \A a, b \in Nat, P \in Nat \ {0} : a * P > b * P => /\ a > b /\ (a * P - b * P) \div P = a - b
                                                            /\ b * P + (a - b) * P = a * P
        OBVIOUS
      <3>3. full = i - j /\ i > j BY <1>1, <1>4, <3>1, <3>2
      <3> QED BY <1>1, <1>4, <3>1, <3>2, <3>3
    <2>2. Chain(first, start, up)
      <3>1. CASE start < up
        <4>1. first = << <<start, up>> >> BY <1>2, <1>4, <3>1 DEF Below
        <4> QED BY <1>2, <4>1, ChainOfOne
      <3>2. CASE start = up
        <4>1. first = <<>> BY <2>1, <3>2
        <4> QED BY <3>2, <4>1, ChainOfNone
      <3> QED BY <1>2, <3>1, <3>2
    <2>3. Chain(Pages(up, full), up, down) BY <1>2, <2>1, ChainOfPages
    <2>4. Chain(last, down, stop)
      <3>1. CASE stop > down
        <4>1. last = << <<down, stop>> >> BY <1>2, <1>4, <3>1
        <4> QED BY <1>2, <3>1, <4>1, ChainOfOne
      <3>2. CASE stop = down
        <4>1. last = <<>> BY <1>2, <3>2
        <4> QED BY <3>2, <4>1, ChainOfNone
      <3> QED BY <1>2, <3>1, <3>2
    <2> HIDE DEF first, full, last
    <2>5. Chain(first \o Pages(up, full), start, down) BY <1>2, <2>2, <2>3, ChainOnChain
    <2> QED BY <1>2, <1>3, <2>4, <2>5, ChainOnChain
  <1>5. CASE ~(down > up)
    <2>1. full = 0 /\ first = << <<start, Below(stop, up)>> >> BY <1>5
    <2>2. Chain(Pages(up, full), Below(stop, up), Below(stop, up))
      <3>1. Pages(up, full) = <<>> BY <2>1 DEF Pages
      <3> QED BY <1>2, <3>1, ChainOfNone DEF Below
    <2>3. Chain(first, start, Below(stop, up))
      <3>1. Below(stop, up) \in Nat /\ start <= Below(stop, up) BY <1>2 DEF Below
      <3> QED BY <2>1, <3>1, ChainOfOne
    <2>4. Chain(last, Below(stop, up), stop)
      <3>1. CASE stop > down /\ down = up
        <4>1. last = << <<down, stop>> >> /\ Below(stop, up) = down BY <1>2, <3>1 DEF Below
        <4> QED BY <1>2, <3>1, <4>1, ChainOfOne
      <3>2. CASE ~(stop > down /\ down = up)
        <4>1. last = <<>> BY <1>2, <1>5, <3>2
        <4>2. stop <= up
          <5>1. PICK i \in Nat, j \in Nat : down = i * PageSize /\ up = j * PageSize BY <1>2
          <5>2. \A a, b \in Nat, P \in Nat \ {0} : a * P < b * P => a * P + P <= b * P
            OBVIOUS
          <5>3. down < up => down + PageSize <= up BY <1>1, <5>1, <5>2
          <5> QED BY <1>1, <1>2, <1>5, <3>2, <5>3
        <4>3. Below(stop, up) = stop BY <1>2, <4>2 DEF Below
        <4> QED BY <4>1, <4>3, ChainOfNone
      <3> QED BY <3>1, <3>2
    <2> HIDE DEF first, full, last
    <2>5. Below(stop, up) \in Nat BY <1>2 DEF Below
    <2>6. Chain(first \o Pages(up, full), start, Below(stop, up)) BY <2>2, <2>3, <2>5, ChainOnChain
    <2> QED BY <1>3, <2>4, <2>5, <2>6, ChainOnChain
  <1> QED BY <1>4, <1>5

(* Every module has regions that cover its section.                        *)
RegionsFit ==
    /\ regions \in Seq(Seq(Nat \X Nat))
    /\ \A m \in DOMAIN regions : \E s \in Sections : s[1] # s[2] /\ Chain(regions[m], s[1], s[2])

LEMMA RegionsFitStep == RegionsFit /\ [TraceNext]_traceVars => RegionsFit'
  <1> SUFFICES ASSUME RegionsFit, [TraceNext]_traceVars PROVE RegionsFit'
    OBVIOUS
  <1>1. ASSUME NEW s \in Sections, HandleInline8bitCountersInit(s) PROVE RegionsFit'
    <2> DEFINE q == Regions(s[1], s[2])
    <2>1. regions' = Append(regions, q) /\ s[1] # s[2] BY <1>1 DEF HandleInline8bitCountersInit
    <2>2. Chain(q, s[1], s[2])
      <3>1. s[1] \in Nat /\ s[2] \in Nat /\ s[1] <= s[2]
        <4>1. s[2] \in Nat /\ s[1] \in 0 .. s[2] BY TraceAssumption
        <4> QED BY <4>1
      <3> QED BY <3>1, RegionsAreChain
    <2>3. q \in Seq(Nat \X Nat) BY <2>2 DEF Chain
    <2> HIDE DEF q
    <2>4. /\ Len(regions) \in Nat /\ DOMAIN regions = 1 .. Len(regions)
          /\ regions' \in Seq(Seq(Nat \X Nat)) /\ DOMAIN regions' = 1 .. Len(regions) + 1
          /\ \A m \in 1 .. Len(regions) : regions'[m] = regions[m]
          /\ regions'[Len(regions) + 1] = q
      BY <2>1, <2>3 DEF RegionsFit
    <2>5. ASSUME NEW m \in DOMAIN regions' PROVE \E u \in Sections : u[1] # u[2] /\ Chain(regions'[m], u[1], u[2])
      <3>1. m \in 1 .. Len(regions) \/ m = Len(regions) + 1 BY <2>4
      <3>2. CASE m \in 1 .. Len(regions)
        <4>1. PICK u \in Sections : u[1] # u[2] /\ Chain(regions[m], u[1], u[2]) BY <2>4, <3>2 DEF RegionsFit
        <4> QED BY <2>4, <3>2, <4>1
      <3>3. CASE m = Len(regions) + 1 BY <2>1, <2>2, <2>4, <3>3
      <3> QED BY <3>1, <3>2, <3>3
    <2> QED BY <2>4, <2>5 DEF RegionsFit
  <1>2. CASE regions' = regions BY <1>2 DEF RegionsFit
  <1>3. CASE ResetMaps BY <1>2, <1>3 DEF ResetMaps
  <1>4. CASE \E a \in DOMAIN mem : WriteElsewhere(a) \/ \E n \in Executions : Execute(a, n)
    BY <1>2, <1>4 DEF WriteElsewhere, Execute
  <1>5. CASE \E c \in Compares : HandleCmp(c) BY <1>2, <1>5 DEF HandleCmp
  <1>6. CASE \E d \in StackOffsets : GrowStack(d) BY <1>2, <1>6 DEF GrowStack
  <1>7. CASE UNCHANGED traceVars BY <1>2, <1>7 DEF traceVars
  <1> QED BY <1>1, <1>3, <1>4, <1>5, <1>6, <1>7 DEF TraceNext

(* What CollectFeatures goes through are intervals of memory.              *)
LEMMA PlacesAreInMemory ==
    ASSUME RegionsFit, NEW p \in Places
    PROVE  /\ RegionAt(p)[1] \in Nat /\ RegionAt(p)[2] \in Nat
           /\ RegionAt(p)[1] <= RegionAt(p)[2] /\ RegionAt(p)[2] < Memory
  <1> DEFINE n == Len(regions)
  <1>1. /\ n \in Nat /\ DOMAIN Collected = 1 .. n + 1
        /\ \A m \in 1 .. n : Collected[m] = regions[m]
        /\ Collected[n + 1] = <<ExtraCounters>>
        /\ DOMAIN regions = 1 .. n
    <2>1. regions \in Seq(Seq(Nat \X Nat)) BY DEF RegionsFit
    <2>2. n \in Nat /\ DOMAIN regions = 1 .. n BY <2>1
    <2>3. DOMAIN Collected = 1 .. n + 1 /\ Collected[n + 1] = <<ExtraCounters>>
      BY <2>1, <2>2 DEF Collected
    <2>4. \A m \in 1 .. n : Collected[m] = regions[m] BY <2>1, <2>2 DEF Collected
    <2> QED BY <2>2, <2>3, <2>4
  <1>2. PICK m \in DOMAIN Collected : \E r \in DOMAIN Collected[m] : p = <<m, r>> BY DEF Places
  <1>3. PICK r \in DOMAIN Collected[m] : p = <<m, r>> BY <1>2
  <1>4. RegionAt(p) = Collected[m][r] BY <1>3 DEF RegionAt
  <1> HIDE DEF n
  <1>5. CASE m = n + 1
    <2>1. RegionAt(p) = ExtraCounters BY <1>1, <1>3, <1>4, <1>5
    <2>2. ExtraCounters[2] \in Nat /\ ExtraCounters[1] \in 0 .. ExtraCounters[2] /\ ExtraCounters[2] < Memory
      BY TraceAssumption
    <2> QED BY <2>1, <2>2
  <1>6. CASE m \in 1 .. n
    <2>1. r \in DOMAIN regions[m] /\ RegionAt(p) = regions[m][r] BY <1>1, <1>3, <1>4, <1>6
    <2>2. PICK s \in Sections : Chain(regions[m], s[1], s[2]) BY <1>1, <1>6 DEF RegionsFit
    <2>3. s[2] \in Nat /\ s[2] < Memory /\ Memory \in Nat BY TraceAssumption
    <2>4. regions[m][r] \in Nat \X Nat BY <2>1, <2>2 DEF Chain
    <2>5. \A x \in Nat \X Nat : x[1] \in Nat /\ x[2] \in Nat OBVIOUS
    <2>6. regions[m][r][1] <= regions[m][r][2] /\ regions[m][r][2] <= s[2] BY <2>1, <2>2 DEF Chain
    <2> QED BY <2>1, <2>3, <2>4, <2>5, <2>6
  <1> QED BY <1>1, <1>5, <1>6

(* Stepping through a region in whole steps reads all its bytes, and at    *)
(* most those of one step too many, still in memory.                       *)
LEMMA ReadInSteps ==
    ASSUME NEW r, r[1] \in Nat, r[2] \in Nat, r[1] <= r[2], r[2] < Memory
    PROVE  /\ Bytes8(r) \subseteq BytesRead(r)
           /\ \A a \in BytesRead(r) \ Bytes8(r) : a \in r[2] .. r[2] + Step - 2 /\ a < Memory
  <1> DEFINE up == RoundUp(r[2], Step)
  <1>1. Step \in Nat \ {0} /\ Memory \in Nat /\ Memory % Step = 0 BY TraceAssumption
  <1>2. /\ up \in Nat /\ r[2] <= up /\ up < r[2] + Step
        /\ \E j \in Nat : up = j * Step
    BY <1>1, Rounding
  <1>3. up <= Memory
    <2>1. PICK j \in Nat : up = j * Step BY <1>2
    <2>2. \A y \in Nat, P \in Nat \ {0} : y % P = 0 => y \div P \in Nat /\ y = (y \div P) * P
      OBVIOUS
    <2>3. PICK k \in Nat : Memory = k * Step BY <1>1, <2>2
    <2>4. \A x, y \in Nat, P \in Nat \ {0} : x * P > y * P => x * P >= y * P + P OBVIOUS
    <2>5. up > Memory => up >= Memory + Step BY <1>1, <2>1, <2>3, <2>4
    <2> QED BY <1>1, <1>2, <2>5
  <1> HIDE DEF up
  <1>4. CASE BytesRead(r) = Bytes8(r) BY <1>4
  <1>5. CASE BytesRead(r) = r[1] .. up - 1
    <2>1. Bytes8(r) \subseteq r[1] .. up - 1 BY <1>2 DEF Bytes8
    <2>2. ASSUME NEW a \in r[1] .. up - 1, a \notin Bytes8(r) PROVE a \in r[2] .. r[2] + Step - 2 /\ a < Memory
      <3>1. a >= r[2] BY <2>2 DEF Bytes8
      <3> QED BY <1>1, <1>2, <1>3, <3>1
    <2> QED BY <1>5, <2>1, <2>2
  <1>6. BytesRead(r) = Bytes8(r) \/ BytesRead(r) = r[1] .. up - 1 BY DEF BytesRead, up
  <1> QED BY <1>4, <1>5, <1>6

LEMMA RegionsFitCounters == RegionsFit => CountersBecomeFeatures
  <1> SUFFICES ASSUME RegionsFit PROVE CountersBecomeFeatures
    OBVIOUS
  <1>1. ASSUME NEW m \in DOMAIN regions
        PROVE  \E s \in Sections :
                  /\ regions[m][1][1] = s[1] /\ Last(regions[m])[2] = s[2]
                  /\ \A r \in 1 .. Len(regions[m]) - 1 : regions[m][r][2] = regions[m][r + 1][1]
    <2>1. PICK s \in Sections : s[1] # s[2] /\ Chain(regions[m], s[1], s[2]) BY DEF RegionsFit
    <2> QED BY <2>1 DEF Chain, Last
  <1>2. ASSUME NEW p \in Places
        PROVE  /\ \A a \in Bytes8(RegionAt(p)) : a \in BytesRead(RegionAt(p))
               /\ \A a \in BytesRead(RegionAt(p)) \ Bytes8(RegionAt(p)) :
                    a \in RegionAt(p)[2] .. RegionAt(p)[2] + Step - 2 /\ a < Memory
    <2> DEFINE r == RegionAt(p)
    <2>1. r[1] \in Nat /\ r[2] \in Nat /\ r[1] <= r[2] /\ r[2] < Memory BY PlacesAreInMemory
    <2> HIDE DEF r
    <2>2. /\ Bytes8(r) \subseteq BytesRead(r)
          /\ \A a \in BytesRead(r) \ Bytes8(r) : a \in r[2] .. r[2] + Step - 2 /\ a < Memory
      BY <2>1, ReadInSteps
    <2> QED BY <2>2 DEF r
  <1>3. OwnFeatures \subseteq CounterFeatures
    <2> SUFFICES ASSUME NEW p \in Places, NEW a \in Bytes8(RegionAt(p)), mem[a] # 0
                 PROVE  Feature(FirstFeature(p), RegionAt(p), a) \in CounterFeatures
      BY DEF OwnFeatures
    <2>1. a \in BytesRead(RegionAt(p)) BY <1>2
    <2> QED BY <2>1 DEF CounterFeatures, RegionFeatures
  <1>4. CounterFeatures \subseteq OwnFeatures \cup Strays
    <2> SUFFICES ASSUME NEW p \in Places, NEW a \in BytesRead(RegionAt(p)), mem[a] # 0
                 PROVE  Feature(FirstFeature(p), RegionAt(p), a) \in OwnFeatures \cup Strays
      BY DEF CounterFeatures, RegionFeatures
    <2>1. CASE a \in Bytes8(RegionAt(p)) BY <2>1 DEF OwnFeatures
    <2>2. CASE a \notin Bytes8(RegionAt(p)) BY <1>2, <2>2 DEF Strays
    <2> QED BY <2>1, <2>2
  <1> QED BY <1>1, <1>3, <1>4 DEF CountersBecomeFeatures

(* TracePC, for any sections, page size, step and memory: the regions of a *)
(* module cover its section without gap or overlap, every counted byte     *)
(* shows its feature, and only bytes less than a step behind a region may  *)
(* show one of their own.                                                  *)
THEOREM CountedBytesShow == TraceSpec => []CountersBecomeFeatures
  <1>1. TraceInit => RegionsFit BY DEF TraceInit, RegionsFit
  <1> QED BY <1>1, RegionsFitStep, RegionsFitCounters, PTL DEF TraceSpec

-----------------------------------------------------------------------------
(* The driver: the command lines of the processes it launches *)

(* What a list of places keeps of a sequence: g goes through the places in *)
(* their order.                                                            *)
Picks(S, n, g) ==
    /\ n = Cardinality(S) /\ g \in [1 .. n -> S]
    /\ \A i, j \in 1 .. n : i < j => g[i] < g[j]
    /\ \A k \in S : \E i \in 1 .. n : g[i] = k

LEMMA CountGrows ==
    ASSUME NEW m \in Nat, NEW S \in SUBSET (1 .. m), NEW k \in S, NEW l \in S, l < k
    PROVE  /\ Cardinality(S \cap 1 .. l) \in Nat /\ Cardinality(S \cap 1 .. k) \in Nat
           /\ Cardinality(S \cap 1 .. l) < Cardinality(S \cap 1 .. k)
  <1> DEFINE A == S \cap 1 .. l
             B == S \cap 1 .. k
  <1>1. IsFiniteSet(S)
    <2>1. IsFiniteSet(1 .. m) BY FS_Interval
    <2> QED BY <2>1, FS_Subset
  <1>2. B \in SUBSET S /\ A \in SUBSET (B \ {k}) /\ k \in B OBVIOUS
  <1> HIDE DEF A, B
  <1>3. IsFiniteSet(B) /\ IsFiniteSet(B \ {k}) /\ Cardinality(B) \in Nat
        /\ Cardinality(B \ {k}) = Cardinality(B) - 1
    BY <1>1, <1>2, FS_Subset, FS_RemoveElement, FS_CardinalityType
  <1>4. Cardinality(A) \in Nat /\ Cardinality(A) <= Cardinality(B \ {k})
    BY <1>2, <1>3, FS_Subset, FS_CardinalityType
  <1>5. Cardinality(A) < Cardinality(B) BY <1>3, <1>4
  <1> QED BY <1>3, <1>4, <1>5 DEF A, B

LEMMA KeptInOrder ==
    ASSUME NEW m \in Nat, NEW S \in SUBSET (1 .. m)
    PROVE  \E n \in Nat : \E g : Picks(S, n, g) /\ \A s : Kept(s, S) = [i \in 1 .. n |-> s[g[i]]]
  <1> DEFINE g == [i \in 1 .. Cardinality(S) |-> InOrder(S, i)]
             Count(k) == Cardinality(S \cap 1 .. k)
  <1>1. IsFiniteSet(S)
    <2>1. IsFiniteSet(1 .. m) BY FS_Interval
    <2> QED BY <2>1, FS_Subset
  <1>2. PICK n \in Nat : n = Cardinality(S) BY <1>1, FS_CardinalityType
  <1>3. \A i \in 1 .. n : g[i] \in S /\ Count(g[i]) = i
    BY <1>2, InOrderPlace
  <1>4. g \in [1 .. n -> S] BY <1>2, <1>3
  <1>5. \A s : Kept(s, S) = [i \in 1 .. n |-> s[g[i]]] BY <1>2 DEF Kept
  <1>9. \A k, l \in S : l < k => Count(l) < Count(k) BY CountGrows
  <1> HIDE DEF g, Count
  <1>6. ASSUME NEW i \in 1 .. n, NEW j \in 1 .. n, i < j PROVE g[i] < g[j]
    <2>1. PICK k \in S, l \in S : k = g[i] /\ l = g[j] BY <1>3
    <2>2. k \in Nat /\ l \in Nat OBVIOUS
    <2>3. CASE l < k
      <3>1. Count(l) < Count(k) BY <1>9, <2>3
      <3>2. j < i BY <1>3, <2>1, <3>1
      <3> QED BY <1>6, <3>2
    <2>4. l # k
      <3>1. Count(k) = i /\ Count(l) = j BY <1>3, <2>1
      <3>2. i # j BY <1>6
      <3> QED BY <3>1, <3>2
    <2> QED BY <2>1, <2>2, <2>3, <2>4
  <1>7. ASSUME NEW k \in S PROVE \E i \in 1 .. n : g[i] = k
    <2>1. PICK i : i = Count(k) OBVIOUS
    <2>2. i \in 1 .. n
      <3>1. S \cap 1 .. k \in SUBSET S /\ k \in S \cap 1 .. k OBVIOUS
      <3>2. IsFiniteSet(S \cap 1 .. k) /\ i \in Nat /\ i <= n
        BY <1>1, <1>2, <2>1, <3>1, FS_Subset, FS_CardinalityType DEF Count
      <3>3. i # 0 BY <2>1, <3>1, <3>2, FS_EmptySet DEF Count
      <3> QED BY <3>2, <3>3
    <2>3. PICK l \in S : l = g[i] /\ Count(l) = i BY <1>3, <2>2
    <2>4. ~(l < k) /\ ~(k < l) BY <1>9, <2>1, <2>2, <2>3
    <2> QED BY <2>2, <2>3, <2>4
  <1>8. Picks(S, n, g) BY <1>2, <1>4, <1>6, <1>7 DEF Picks
  <1> QED BY <1>5, <1>8

(* The arguments that count, and the flags they turn on, are those of the  *)
(* command line that was edited, without the flags removed.                *)

LEMMA RemoveLeaves ==
    ASSUME NEW args \in Seq(Arguments), NEW F
    PROVE  /\ removeFlags(args, F) \in Seq(Arguments)
           /\ \A f : On(removeFlags(args, F), f) <=> f \notin F /\ On(args, f)
           /\ AllInputsAreFiles(removeFlags(args, F)) <=> Path \notin F /\ AllInputsAreFiles(args)
           /\ Path \in F => Given(removeFlags(args, F), Path) = {}
  <1> DEFINE M == MutableArgs(args)
             S == DOMAIN args \ {i \in M : args[i].flag \in F}
             r == removeFlags(args, F)
  <1>1. PICK m \in Nat : m = Len(args) /\ DOMAIN args = 1 .. m OBVIOUS
  <1>2. S \in SUBSET (1 .. m) /\ M \in SUBSET (1 .. m) BY <1>1 DEF MutableArgs
  <1>3. PICK n \in Nat : \E g : Picks(S, n, g) /\ r = [i \in 1 .. n |-> args[g[i]]]
    <2>1. r = Kept(args, S) BY DEF removeFlags
    <2> HIDE DEF S, r
    <2>2. PICK n \in Nat : \E g : Picks(S, n, g) /\ \A s : Kept(s, S) = [i \in 1 .. n |-> s[g[i]]]
      BY <1>2, KeptInOrder
    <2>3. PICK g : Picks(S, n, g) /\ \A s : Kept(s, S) = [i \in 1 .. n |-> s[g[i]]] BY <2>2
    <2>4. r = [i \in 1 .. n |-> args[g[i]]] BY <2>1, <2>3
    <2> QED BY <2>3, <2>4
  <1>4. PICK g : Picks(S, n, g) /\ r = [i \in 1 .. n |-> args[g[i]]] BY <1>3
  <1>5. /\ \A i \in 1 .. n : g[i] \in S /\ g[i] \in 1 .. m
        /\ \A i, j \in 1 .. n : i < j => g[i] < g[j]
        /\ \A k \in S : \E i \in 1 .. n : g[i] = k
    BY <1>2, <1>4 DEF Picks
  <1>6. \A i, j \in 1 .. n : i <= j <=> g[i] <= g[j]
    <2>1. \A i \in 1 .. n : g[i] \in Nat BY <1>5
    <2>2. ASSUME NEW i \in 1 .. n, NEW j \in 1 .. n PROVE i <= j <=> g[i] <= g[j]
      <3>1. i < j \/ i = j \/ j < i OBVIOUS
      <3> QED BY <1>5, <2>1, <3>1
    <2> QED BY <2>2
  <1>7. DOMAIN r = 1 .. n /\ \A i \in 1 .. n : r[i] = args[g[i]] BY <1>4
  <1>8. r \in Seq(Arguments)
    <2>1. \A i \in 1 .. n : args[g[i]] \in Arguments BY <1>1, <1>5
    <2> QED BY <1>4, <2>1
  <1> HIDE DEF r
  <1>9. \A i \in 1 .. n : i \in MutableArgs(r) <=> g[i] \in M
    <2>1. ASSUME NEW i \in 1 .. n, g[i] \in M PROVE i \in MutableArgs(r)
      <3>1. ASSUME NEW j \in 1 .. i PROVE r[j] # IgnoreRemaining
        <4>1. j \in 1 .. n /\ j <= i OBVIOUS
        <4>2. g[j] \in 1 .. g[i] BY <1>5, <1>6, <4>1
        <4> QED BY <1>7, <2>1, <4>1, <4>2 DEF MutableArgs
      <3> QED BY <1>7, <3>1 DEF MutableArgs
    <2>2. ASSUME NEW i \in 1 .. n, g[i] \notin M PROVE i \notin MutableArgs(r)
      <3>1. PICK q \in 1 .. g[i] : args[q] = IgnoreRemaining
        BY <1>1, <1>5, <2>2 DEF MutableArgs
      <3>2. q \in 1 .. m /\ q <= g[i]
        <4>1. g[i] \in 1 .. m BY <1>5
        <4> QED BY <3>1, <4>1
      <3>3. q \notin M BY <3>1, <3>2 DEF MutableArgs
      <3>4. q \in S BY <1>1, <3>2, <3>3
      <3>5. PICK j \in 1 .. n : g[j] = q BY <1>5, <3>4
      <3>6. j \in 1 .. i BY <1>6, <3>2, <3>5
      <3> QED BY <1>7, <3>1, <3>5, <3>6 DEF MutableArgs
    <2> QED BY <2>1, <2>2
  <1>10. \A f : \A i \in 1 .. n : i \in Given(r, f) <=> g[i] \in Given(args, f)
    BY <1>7, <1>9 DEF Given
  <1>11. \A f : f \in F => Given(r, f) = {}
    <2>1. \A f : \A i \in Given(r, f) : i \in 1 .. n /\ g[i] \in M /\ args[g[i]].flag = f
      BY <1>7, <1>9 DEF Given, MutableArgs
    <2> QED BY <1>5, <2>1
  <1>12. \A f : f \notin F => \A k \in Given(args, f) : \E i \in Given(r, f) : g[i] = k
    <2> SUFFICES ASSUME NEW f, f \notin F, NEW k \in Given(args, f) PROVE \E i \in Given(r, f) : g[i] = k
      OBVIOUS
    <2>1. k \in S BY DEF Given, MutableArgs
    <2>2. PICK i \in 1 .. n : g[i] = k BY <1>5, <2>1
    <2> QED BY <1>10, <2>2
  <1>13. \A f : Given(r, f) \subseteq 1 .. n BY <1>7 DEF Given, MutableArgs
  <1>14. ASSUME NEW f, f \notin F PROVE On(r, f) <=> On(args, f)
    <2>1. ASSUME On(r, f) PROVE On(args, f)
      <3>1. PICK i \in Given(r, f) : r[i].value = "1" /\ \A j \in Given(r, f) : j <= i BY <2>1 DEF On
      <3>2. g[i] \in Given(args, f) /\ args[g[i]].value = "1" BY <1>7, <1>10, <1>13, <3>1
      <3>3. \A k \in Given(args, f) : k <= g[i]
        <4> SUFFICES ASSUME NEW k \in Given(args, f) PROVE k <= g[i]
          OBVIOUS
        <4>1. PICK j \in Given(r, f) : g[j] = k BY <1>12, <1>14
        <4> QED BY <1>6, <1>13, <3>1, <4>1
      <3> QED BY <3>2, <3>3 DEF On
    <2>2. ASSUME On(args, f) PROVE On(r, f)
      <3>1. PICK k \in Given(args, f) : args[k].value = "1" /\ \A j \in Given(args, f) : j <= k BY <2>2 DEF On
      <3>2. PICK i \in Given(r, f) : g[i] = k BY <1>12, <1>14, <3>1
      <3>3. r[i].value = "1" BY <1>7, <1>13, <3>1, <3>2
      <3>4. \A j \in Given(r, f) : j <= i
        <4> SUFFICES ASSUME NEW j \in Given(r, f) PROVE j <= i
          OBVIOUS
        <4>1. g[j] \in Given(args, f) BY <1>10, <1>13
        <4> QED BY <1>6, <1>13, <3>1, <3>2, <4>1
      <3> QED BY <3>2, <3>3, <3>4 DEF On
    <2> QED BY <2>1, <2>2
  <1>15. \A f : f \in F => ~On(r, f) BY <1>11 DEF On
  <1>16. Path \in F => ~AllInputsAreFiles(r) BY <1>11 DEF AllInputsAreFiles
  <1>17. ASSUME Path \notin F PROVE AllInputsAreFiles(r) <=> AllInputsAreFiles(args)
    <2>1. \A i \in Given(r, Path) : g[i] \in Given(args, Path) /\ r[i].value = args[g[i]].value
      BY <1>7, <1>10, <1>13
    <2>2. \A k \in Given(args, Path) : \E i \in Given(r, Path) : g[i] = k BY <1>12, <1>17
    <2> QED BY <2>1, <2>2 DEF AllInputsAreFiles
  <1> QED BY <1>8, <1>11, <1>14, <1>15, <1>16, <1>17 DEF r

LEMMA MutableFirst ==
    ASSUME NEW args \in Seq(Arguments)
    PROVE  \E c \in 0 .. Len(args) : MutableArgs(args) = 1 .. c /\ Cardinality(MutableArgs(args)) = c
  <1> DEFINE M == MutableArgs(args)
             T == {k \in Nat : k + 1 \notin M}
  <1>1. PICK m \in Nat : m = Len(args) /\ DOMAIN args = 1 .. m OBVIOUS
  <1>2. M \subseteq 1 .. m /\ \A i \in M : \A j \in 1 .. i : j \in M BY <1>1 DEF MutableArgs
  <1> HIDE DEF M
  <1>3. m \in T /\ T \in SUBSET Nat BY <1>2
  <1>4. PICK c \in T : \A j \in T : c <= j
    <2> HIDE DEF T
    <2> QED BY <1>3, LeastNumber
  <1>5. c \in 0 .. m BY <1>3, <1>4
  <1>6. \A i \in 1 .. c : i \in M
    <2> SUFFICES ASSUME NEW i \in 1 .. c PROVE i \in M
      OBVIOUS
    <2>1. i - 1 \in Nat /\ ~(c <= i - 1) /\ i - 1 + 1 = i BY <1>4
    <2>2. i - 1 \notin T BY <1>4, <2>1
    <2> QED BY <2>1, <2>2
  <1>7. \A i \in M : i \in 1 .. c
    <2> SUFFICES ASSUME NEW i \in M PROVE i \in 1 .. c
      OBVIOUS
    <2>1. i \in 1 .. m BY <1>2
    <2>2. c + 1 \notin M BY <1>4
    <2>3. c + 1 \notin 1 .. i BY <1>2, <2>2
    <2> QED BY <1>5, <2>1, <2>3
  <1>8. M = 1 .. c BY <1>6, <1>7
  <1>9. Cardinality(1 .. c) = c BY <1>5, FS_Interval
  <1> QED BY <1>1, <1>5, <1>8, <1>9 DEF M

LEMMA InsertedAt ==
    ASSUME NEW s, NEW i, NEW e
    PROVE  InsertAt(s, i, e) = SubSeq(s, 1, i - 1) \o <<e>> \o SubSeq(s, i, Len(s))
  BY Zenon DEF InsertAt

LEMMA AddArgument ==
    ASSUME NEW args \in Seq(Arguments), NEW a \in Arguments,
           NEW c \in 0 .. Len(args), MutableArgs(args) = 1 .. c, Cardinality(MutableArgs(args)) = c
    PROVE  /\ addArgument(args, a) \in Seq(Arguments)
           /\ DOMAIN addArgument(args, a) = 1 .. Len(args) + 1
           /\ \A i \in 1 .. c : addArgument(args, a)[i] = args[i]
           /\ addArgument(args, a)[c + 1] = a
           /\ c < Len(args) => addArgument(args, a)[c + 2] = args[c + 1]
  <1>1. PICK m \in Nat : m = Len(args) OBVIOUS
  <1>2. c \in Nat /\ c <= m /\ c + 1 - 1 = c BY <1>1
  <1> DEFINE p == SubSeq(args, 1, c)
             t == SubSeq(args, c + 1, m)
             q == p \o <<a>>
             r == q \o t
  <1>3. addArgument(args, a) = r
    <2>1. addArgument(args, a) = InsertAt(args, c + 1, a) BY DEF addArgument
    <2>2. PICK i : i = c + 1 OBVIOUS
    <2>3. InsertAt(args, i, a) = SubSeq(args, 1, i - 1) \o <<a>> \o SubSeq(args, i, Len(args))
      BY InsertedAt
    <2>4. i - 1 = c BY <1>2, <2>2
    <2>5. r = SubSeq(args, 1, i - 1) \o <<a>> \o SubSeq(args, i, Len(args)) BY <1>1, <2>2, <2>4
    <2> QED BY <2>1, <2>2, <2>3, <2>5
  <1>4. p \in Seq(Arguments) /\ Len(p) = c /\ \A i \in 1 .. c : p[i] = args[i] BY <1>1, <1>2
  <1>5. t \in Seq(Arguments) /\ Len(t) = m - c /\ (c < m => t[1] = args[c + 1])
    BY <1>1, <1>2
  <1> HIDE DEF p, t
  <1>6. q \in Seq(Arguments) /\ Len(q) = c + 1 /\ q[c + 1] = a /\ \A i \in 1 .. c : q[i] = args[i]
    BY <1>2, <1>4
  <1> HIDE DEF q
  <1>7. r \in Seq(Arguments) /\ Len(r) = m + 1 /\ DOMAIN r = 1 .. m + 1
    <2>1. r \in Seq(Arguments)
      <3>1. q \in Seq(Arguments) /\ t \in Seq(Arguments) BY <1>5, <1>6
      <3> QED BY <3>1
    <2>3. Len(r) = Len(q) + Len(t)
      <3>1. q \in Seq(Arguments) /\ t \in Seq(Arguments) BY <1>5, <1>6
      <3> QED BY <3>1
    <2>2. Len(q) + Len(t) = m + 1 BY <1>2, <1>5, <1>6
    <2> HIDE DEF r
    <2> QED BY <2>1, <2>2, <2>3
  <1>8. \A i \in 1 .. c + 1 : r[i] = q[i] BY <1>2, <1>5, <1>6
  <1>9. c < m => r[c + 2] = args[c + 1]
    <2> SUFFICES ASSUME c < m PROVE r[c + 2] = args[c + 1]
      OBVIOUS
    <2>1. c + 2 \in 1 .. Len(q) + Len(t) /\ c + 2 > Len(q) /\ c + 2 - Len(q) = 1 BY <1>2, <1>5, <1>6
    <2>2. r[c + 2] = t[c + 2 - Len(q)] BY <1>5, <1>6, <2>1, SecondPart
    <2> QED BY <1>5, <2>1, <2>2
  <1> HIDE DEF r
  <1>10. \A i \in 1 .. c : r[i] = args[i] BY <1>2, <1>6, <1>8
  <1>11. r[c + 1] = a BY <1>2, <1>6, <1>8
  <1> QED BY <1>1, <1>3, <1>7, <1>9, <1>10, <1>11

LEMMA AddLeaves ==
    ASSUME NEW args \in Seq(Arguments), NEW a \in Arguments, a # IgnoreRemaining
    PROVE  /\ addArgument(args, a) \in Seq(Arguments)
           /\ \A f : On(addArgument(args, a), f) <=> IF f = a.flag THEN a.value = "1" ELSE On(args, f)
           /\ a.flag # Path => (AllInputsAreFiles(addArgument(args, a)) <=> AllInputsAreFiles(args))
           /\ a.flag = Path /\ Given(args, Path) = {} =>
                  (AllInputsAreFiles(addArgument(args, a)) <=> a.value \in FilePaths)
  <1>1. PICK c \in 0 .. Len(args) : MutableArgs(args) = 1 .. c /\ Cardinality(MutableArgs(args)) = c
    BY MutableFirst
  <1>2. PICK m \in Nat : m = Len(args) /\ DOMAIN args = 1 .. m OBVIOUS
  <1> DEFINE r == addArgument(args, a)
  <1>3. /\ r \in Seq(Arguments) /\ DOMAIN r = 1 .. m + 1
        /\ \A i \in 1 .. c : r[i] = args[i]
        /\ r[c + 1] = a
        /\ c < m => r[c + 2] = args[c + 1]
    <2>1. /\ r \in Seq(Arguments) /\ DOMAIN r = 1 .. Len(args) + 1
          /\ \A i \in 1 .. c : r[i] = args[i]
          /\ r[c + 1] = a
          /\ c < Len(args) => r[c + 2] = args[c + 1]
      BY <1>1, AddArgument, SMTT(20)
    <2> QED BY <1>2, <2>1
  <1> HIDE DEF r
  <1>4. c \in Nat /\ c <= m BY <1>2
  <1>5. MutableArgs(r) = 1 .. c + 1
    <2>1. ASSUME NEW i \in 1 .. c + 1 PROVE i \in MutableArgs(r)
      <3>1. ASSUME NEW j \in 1 .. i PROVE r[j] # IgnoreRemaining
        <4>1. j \in 1 .. c \/ j = c + 1 BY <1>4
        <4>2. CASE j \in 1 .. c
          <5>1. j \in MutableArgs(args) /\ j \in 1 .. j BY <1>1, <4>2
          <5> QED BY <1>3, <4>2, <5>1 DEF MutableArgs
        <4> QED BY <1>3, <4>1, <4>2
      <3>2. i \in DOMAIN r BY <1>3, <1>4
      <3> QED BY <3>1, <3>2 DEF MutableArgs
    <2>2. ASSUME NEW i \in 1 .. m + 1, i > c + 1 PROVE i \notin MutableArgs(r)
      <3>1. c < m /\ c + 1 \in 1 .. m /\ c + 1 \notin 1 .. c BY <1>4, <2>2
      <3>2. PICK j \in 1 .. c + 1 : args[j] = IgnoreRemaining BY <1>1, <1>2, <3>1 DEF MutableArgs
      <3>3. j \notin MutableArgs(args)
        <4>1. j \in 1 .. j BY <1>4
        <4> QED BY <3>2, <4>1 DEF MutableArgs
      <3>4. j = c + 1 BY <1>1, <1>4, <3>3
      <3>5. r[c + 2] = IgnoreRemaining /\ c + 2 \in 1 .. i BY <1>3, <1>4, <2>2, <3>1, <3>2, <3>4
      <3> QED BY <3>5 DEF MutableArgs
    <2>3. MutableArgs(r) \subseteq 1 .. m + 1 BY <1>3 DEF MutableArgs
    <2>4. \A i \in 1 .. m + 1 : i \in 1 .. c + 1 \/ i > c + 1 BY <1>4
    <2> QED BY <2>1, <2>2, <2>3, <2>4
  <1>6. \A f : Given(args, f) = {i \in 1 .. c : args[i].flag = f} BY <1>1 DEF Given
  <1>7. \A f : Given(r, f) = {i \in 1 .. c + 1 : r[i].flag = f} BY <1>5 DEF Given
  <1>8. /\ \A i : i \in 1 .. c + 1 <=> i \in 1 .. c \/ i = c + 1
        /\ c + 1 \notin 1 .. c /\ \A i \in 1 .. c : i <= c + 1
    BY <1>4
  <1>9. ASSUME NEW f, f # a.flag PROVE Given(r, f) = Given(args, f)
    <2>1. \A i : i \in Given(r, f) <=> i \in Given(args, f) BY <1>3, <1>6, <1>7, <1>8, <1>9
    <2> QED BY <2>1
  <1>10. Given(r, a.flag) = Given(args, a.flag) \cup {c + 1}
    <2>1. \A i : i \in Given(r, a.flag) <=> i \in Given(args, a.flag) \/ i = c + 1
      BY <1>3, <1>6, <1>7, <1>8
    <2> QED BY <2>1
  <1>11. \A f : \A i \in Given(args, f) : i \in 1 .. c /\ r[i] = args[i] BY <1>3, <1>6
  <1>12. ASSUME NEW f, f # a.flag PROVE On(r, f) <=> On(args, f)
    BY <1>9, <1>11, <1>12 DEF On
  <1>13. On(r, a.flag) <=> a.value = "1"
    <2>1. c + 1 \in Given(r, a.flag) /\ r[c + 1] = a BY <1>3, <1>10
    <2>2. \A j \in Given(r, a.flag) : j <= c + 1 /\ (c + 1 <= j => j = c + 1)
      <3>1. \A j \in Given(r, a.flag) : j \in 1 .. c \/ j = c + 1 BY <1>10, <1>11
      <3> QED BY <1>4, <3>1
    <2> QED BY <2>1, <2>2 DEF On
  <1>14. a.flag # Path => (AllInputsAreFiles(r) <=> AllInputsAreFiles(args))
    BY <1>9, <1>11 DEF AllInputsAreFiles
  <1>15. a.flag = Path /\ Given(args, Path) = {} => (AllInputsAreFiles(r) <=> a.value \in FilePaths)
    BY <1>3, <1>10 DEF AllInputsAreFiles
  <1> QED BY <1>3, <1>12, <1>13, <1>14, <1>15 DEF r

(* What a process does, from the flags that are on.                        *)
LEMMA FirstTask ==
    ASSUME NEW args, NEW k \in 1 .. 12, Dispatch(args)[k][2],
           \A j \in 1 .. k - 1 : ~Dispatch(args)[j][2]
    PROVE  Role(args) = Dispatch(args)[k][1]
  <1> DEFINE D == Dispatch(args)
             I == {i \in 1 .. Len(D) : D[i][2]}
  <1>1. Len(D) = 12 BY DEF Dispatch
  <1> HIDE DEF D
  <1>2. k \in I /\ \A j \in I : k <= j
    <2>1. k \in I BY <1>1 DEF D
    <2>2. \A j \in I : j \in 1 .. 12 /\ j \notin 1 .. k - 1 BY <1>1 DEF D
    <2> QED BY <2>1, <2>2
  <1>3. I \subseteq Int OBVIOUS
  <1>4. SelectInSeq(D, LAMBDA d : d[2]) = IF I # {} THEN Min(I) ELSE 0 BY DEF SelectInSeq
  <1> HIDE DEF I
  <1>5. Min(I) = k
    <2>1. \A x \in I : (\A y \in I : x <= y) => x = k BY <1>2, <1>3
    <2> QED BY <1>2, <2>1 DEF Min
  <1>6. SelectInSeq(D, LAMBDA d : d[2]) = k BY <1>2, <1>4, <1>5
  <1> QED BY <1>6 DEF Role, D

LEMMA RoleIs ==
    ASSUME NEW args
    PROVE  Role(args) =
             IF On(args, "help") THEN "help"
             ELSE IF Workers(args) THEN "jobs"
             ELSE IF On(args, "collect_data_flow") /\ ~On(args, "fork") /\ ~On(args, "merge") THEN "collect data flow"
             ELSE IF On(args, "minimize_crash") THEN "minimize"
             ELSE IF On(args, "minimize_crash_internal_step") THEN "minimize step"
             ELSE IF On(args, "cleanse_crash") THEN "cleanse"
             ELSE IF AllInputsAreFiles(args) THEN "run files"
             ELSE IF On(args, "fork") THEN "fork"
             ELSE IF On(args, "merge") THEN "merge"
             ELSE IF On(args, "merge_inner") THEN "merge inner"
             ELSE IF On(args, "analyze_dict") THEN "analyze dictionary"
             ELSE "loop"
  <1> DEFINE D == Dispatch(args)
             None(k) == \A j \in 1 .. k : ~D[j][2]
  <1>1. /\ D[1][1] = "help"
        /\ D[2][1] = "jobs"
        /\ D[3][1] = "collect data flow"
        /\ D[4][1] = "minimize"
        /\ D[5][1] = "minimize step"
        /\ D[6][1] = "cleanse"
        /\ D[7][1] = "run files"
        /\ D[8][1] = "fork"
        /\ D[9][1] = "merge"
        /\ D[10][1] = "merge inner"
        /\ D[11][1] = "analyze dictionary"
        /\ D[12][1] = "loop"
    BY DEF Dispatch
  <1>2. /\ D[1][2] <=> On(args, "help")
        /\ D[2][2] <=> Workers(args)
        /\ D[3][2] <=> (On(args, "collect_data_flow") /\ ~On(args, "fork") /\ ~On(args, "merge"))
        /\ D[4][2] <=> On(args, "minimize_crash")
        /\ D[5][2] <=> On(args, "minimize_crash_internal_step")
        /\ D[6][2] <=> On(args, "cleanse_crash")
        /\ D[7][2] <=> AllInputsAreFiles(args)
        /\ D[8][2] <=> On(args, "fork")
        /\ D[9][2] <=> On(args, "merge")
        /\ D[10][2] <=> On(args, "merge_inner")
        /\ D[11][2] <=> On(args, "analyze_dict")
        /\ D[12][2] <=> TRUE
    BY DEF Dispatch
  <1>3. \A k \in 1 .. 12 : D[k][2] /\ None(k - 1) => Role(args) = D[k][1]
    BY FirstTask
  <1> HIDE DEF D
  <1>4. None(0) OBVIOUS
  <1>5. \A k \in Nat : None(k) /\ ~D[k + 1][2] => None(k + 1)
    <2>1. \A k \in Nat : \A j \in 1 .. k + 1 : j \in 1 .. k \/ j = k + 1 OBVIOUS
    <2> QED BY <2>1
  <1> HIDE DEF None
  <1>6. None(0) => IF D[1][2] THEN Role(args) = D[1][1] ELSE None(1) BY <1>3, <1>5
  <1>7. None(1) => IF D[2][2] THEN Role(args) = D[2][1] ELSE None(2) BY <1>3, <1>5
  <1>8. None(2) => IF D[3][2] THEN Role(args) = D[3][1] ELSE None(3) BY <1>3, <1>5
  <1>9. None(3) => IF D[4][2] THEN Role(args) = D[4][1] ELSE None(4) BY <1>3, <1>5
  <1>10. None(4) => IF D[5][2] THEN Role(args) = D[5][1] ELSE None(5) BY <1>3, <1>5
  <1>11. None(5) => IF D[6][2] THEN Role(args) = D[6][1] ELSE None(6) BY <1>3, <1>5
  <1>12. None(6) => IF D[7][2] THEN Role(args) = D[7][1] ELSE None(7) BY <1>3, <1>5
  <1>13. None(7) => IF D[8][2] THEN Role(args) = D[8][1] ELSE None(8) BY <1>3, <1>5
  <1>14. None(8) => IF D[9][2] THEN Role(args) = D[9][1] ELSE None(9) BY <1>3, <1>5
  <1>15. None(9) => IF D[10][2] THEN Role(args) = D[10][1] ELSE None(10) BY <1>3, <1>5
  <1>16. None(10) => IF D[11][2] THEN Role(args) = D[11][1] ELSE None(11) BY <1>3, <1>5
  <1>17. None(11) => Role(args) = D[12][1] BY <1>2, <1>3
  <1>18. IF D[1][2] THEN Role(args) = D[1][1]
        ELSE IF D[2][2] THEN Role(args) = D[2][1]
        ELSE IF D[3][2] THEN Role(args) = D[3][1]
        ELSE IF D[4][2] THEN Role(args) = D[4][1]
        ELSE IF D[5][2] THEN Role(args) = D[5][1]
        ELSE IF D[6][2] THEN Role(args) = D[6][1]
        ELSE None(6)
    BY <1>4, <1>6, <1>7, <1>8, <1>9, <1>10, <1>11
  <1>19. None(6) =>
        IF D[7][2] THEN Role(args) = D[7][1]
        ELSE IF D[8][2] THEN Role(args) = D[8][1]
        ELSE IF D[9][2] THEN Role(args) = D[9][1]
        ELSE IF D[10][2] THEN Role(args) = D[10][1]
        ELSE IF D[11][2] THEN Role(args) = D[11][1]
        ELSE Role(args) = D[12][1]
    BY <1>12, <1>13, <1>14, <1>15, <1>16, <1>17
  <1>20. IF On(args, "help") THEN Role(args) = "help"
        ELSE IF Workers(args) THEN Role(args) = "jobs"
        ELSE IF On(args, "collect_data_flow") /\ ~On(args, "fork") /\ ~On(args, "merge") THEN Role(args) = "collect data flow"
        ELSE IF On(args, "minimize_crash") THEN Role(args) = "minimize"
        ELSE IF On(args, "minimize_crash_internal_step") THEN Role(args) = "minimize step"
        ELSE IF On(args, "cleanse_crash") THEN Role(args) = "cleanse"
        ELSE None(6)
    BY <1>1, <1>2, <1>18
  <1>21. None(6) =>
        IF AllInputsAreFiles(args) THEN Role(args) = "run files"
        ELSE IF On(args, "fork") THEN Role(args) = "fork"
        ELSE IF On(args, "merge") THEN Role(args) = "merge"
        ELSE IF On(args, "merge_inner") THEN Role(args) = "merge inner"
        ELSE IF On(args, "analyze_dict") THEN Role(args) = "analyze dictionary"
        ELSE Role(args) = "loop"
    BY <1>1, <1>2, <1>19
  <1> QED BY <1>20, <1>21

(* Every child does what it is launched for.  Those that launch nobody are *)
(* the last of their chain.                                                *)
Tasks ==
    {"help", "jobs", "collect data flow", "minimize", "minimize step", "cleanse", "run files", "fork", "merge",
     "merge inner", "analyze dictionary", "loop"}

Processes == [args : Seq(Arguments), meant : SUBSET Tasks]

Leaves == {"run files", "minimize step", "merge inner", "loop"}

LEMMA AChild ==
    ASSUME NEW a \in Seq(Arguments), NEW roles \in SUBSET Tasks
    PROVE  Child(a, roles) \in Processes /\ Child(a, roles).args = a /\ Child(a, roles).meant = roles
  BY DEF Child, Processes

LEMMA AnArgument ==
    ASSUME NEW f \in FlagNames \cup {Path}, NEW v \in {"0", "1"} \cup FilePaths \cup Directories, f # "ignore_remaining_args"
    PROVE  /\ Arg(f, v) \in Arguments /\ Arg(f, v) # IgnoreRemaining
           /\ Arg(f, v).flag = f /\ Arg(f, v).value = v
  <1>1. Arg(f, v) \in Arguments BY DEF Arg, Arguments
  <1>2. Arg(f, v).flag = f /\ Arg(f, v).value = v BY DEF Arg
  <1>3. IgnoreRemaining.flag = "ignore_remaining_args" BY DEF Arg, IgnoreRemaining
  <1> QED BY <1>1, <1>2, <1>3

(* How many processes may follow one that plays role r.                    *)
Rank(r) ==
    IF r = "jobs" THEN 3
    ELSE IF r \in {"minimize", "fork"} THEN 2
    ELSE IF r \in {"cleanse", "merge"} THEN 1
    ELSE 0

(* A child has fewer to follow than its parent, whatever is set; it does   *)
(* what it is launched for if one task is set.                             *)
ChildFits(args, c) ==
    /\ c \in Processes
    /\ Rank(Role(c.args)) < Rank(Role(args))
    /\ OneTask(args) =>
          /\ Role(c.args) \in c.meant
          /\ IF Role(args) = "jobs" THEN OneTask(c.args) /\ Role(c.args) # "jobs" ELSE Role(c.args) \in Leaves

(* A child that is to be a leaf, from its command line.                    *)
LEMMA LeafFits ==
    ASSUME NEW args, Role(args) # "jobs", Rank(Role(args)) # 0,
           NEW a \in Seq(Arguments), NEW r \in Leaves, Role(a) = r,
           NEW c, c = Child(a, {r})
    PROVE  ChildFits(args, c)
  <1>0. r \in Tasks BY DEF Leaves, Tasks
  <1>1. {r} \in SUBSET Tasks BY <1>0
  <1>2. c \in Processes /\ c.args = a /\ c.meant = {r} BY <1>1, AChild
  <1>3. Rank(r) = 0 /\ Rank(Role(args)) \in {1, 2, 3} BY DEF Rank, Leaves
  <1>4. Rank(Role(c.args)) < Rank(Role(args)) BY <1>2, <1>3
  <1> QED BY <1>2, <1>3, <1>4 DEF ChildFits

LEMMA JobChildFits ==
    ASSUME NEW args \in Seq(Arguments), Role(args) = "jobs",
           NEW c \in JobChild(args)
    PROVE  ChildFits(args, c)
  <1> DEFINE edited == removeFlags(args, {"jobs", "workers"})
             D == Dispatch(args)
             roles == {D[i][1] : i \in DOMAIN D} \ {"help", "jobs"}
  <1>1. c = Child(edited, roles) BY DEF JobChild
  <1>2. /\ edited \in Seq(Arguments)
        /\ \A f : On(edited, f) <=> f \notin {"jobs", "workers"} /\ On(args, f)
    BY RemoveLeaves
  <1>3. roles = Tasks \ {"help", "jobs"}
    <2>1. DOMAIN D = 1 .. 12 BY DEF Dispatch
    <2>2. /\ D[1][1] = "help" /\ D[2][1] = "jobs" /\ D[3][1] = "collect data flow"
          /\ D[4][1] = "minimize" /\ D[5][1] = "minimize step" /\ D[6][1] = "cleanse"
          /\ D[7][1] = "run files" /\ D[8][1] = "fork" /\ D[9][1] = "merge"
          /\ D[10][1] = "merge inner" /\ D[11][1] = "analyze dictionary" /\ D[12][1] = "loop"
      BY DEF Dispatch
    <2> HIDE DEF D
    <2>3. 1 .. 12 = {1, 2, 3, 4, 5, 6, 7, 8, 9, 10, 11, 12} OBVIOUS
    <2>4. {D[i][1] : i \in 1 .. 12} =
            {D[1][1], D[2][1], D[3][1], D[4][1], D[5][1], D[6][1], D[7][1], D[8][1], D[9][1], D[10][1], D[11][1], D[12][1]}
      BY <2>3
    <2> QED BY <2>1, <2>2, <2>4 DEF Tasks
  <1> HIDE DEF edited, roles, D
  <1>4. ~On(edited, "help") /\ ~Workers(edited)
    <2>1. ~On(args, "help") BY RoleIs
    <2> QED BY <1>2, <2>1 DEF Workers
  <1>5. Role(edited) \in roles /\ Role(edited) # "jobs" BY <1>3, <1>4, RoleIs DEF Tasks
  <1>6. OneTask(args) => OneTask(edited)
    <2>1. \A f \in {"merge_inner", "minimize_crash_internal_step", "minimize_crash", "cleanse_crash",
                    "fork", "merge", "analyze_dict"} : On(edited, f) <=> On(args, f)
      BY <1>2
    <2> QED BY <2>1, Zenon DEF OneTask
  <1>7. roles \in SUBSET Tasks
    <2>1. \A x \in roles : x \in Tasks BY <1>3 DEF Tasks
    <2> QED BY <2>1
  <1>8. c \in Processes /\ c.args = edited /\ c.meant = roles BY <1>1, <1>2, <1>7, AChild
  <1>9. Rank(Role(args)) = 3 /\ Rank(Role(edited)) \in {0, 1, 2} BY <1>5 DEF Rank
  <1>10. Rank(Role(c.args)) < Rank(Role(args)) BY <1>8, <1>9
  <1> QED BY <1>5, <1>6, <1>8, <1>10 DEF ChildFits

LEMMA MergeInnerFits ==
    ASSUME NEW args \in Seq(Arguments), Role(args) \in {"fork", "merge"},
           NEW c \in MergeInnerChild(args)
    PROVE  ChildFits(args, c)
  <1> DEFINE F == {"merge", "fork", "collect_data_flow"}
             a == Arg("merge_inner", "1")
             less == removeFlags(args, F)
             edited == addArgument(less, a)
  <1>1. c = Child(edited, {"merge inner"}) BY DEF MergeInnerChild
  <1>2. /\ less \in Seq(Arguments)
        /\ \A f : On(less, f) <=> f \notin F /\ On(args, f)
        /\ AllInputsAreFiles(less) <=> AllInputsAreFiles(args)
    BY RemoveLeaves DEF Path
  <1>3. a \in Arguments /\ a # IgnoreRemaining /\ a.flag = "merge_inner" /\ a.value = "1" /\ a.flag # Path
    <2>1. /\ "merge_inner" \in FlagNames /\ "1" \in {"0", "1"}
          /\ "merge_inner" # "ignore_remaining_args" /\ "merge_inner" # Path
      BY DEF FlagNames, Path
    <2> QED BY <2>1, AnArgument
  <1> HIDE DEF a, less
  <1>4. /\ edited \in Seq(Arguments)
        /\ \A f : On(edited, f) <=> IF f = "merge_inner" THEN TRUE ELSE On(less, f)
        /\ AllInputsAreFiles(edited) <=> AllInputsAreFiles(args)
    BY <1>2, <1>3, AddLeaves
  <1> HIDE DEF edited
  <1>5. \A f : f \notin F \cup {"merge_inner"} => (On(edited, f) <=> On(args, f)) BY <1>2, <1>4
  <1>6. On(edited, "merge_inner") /\ \A f \in F : ~On(edited, f) BY <1>2, <1>4
  <1>7. Workers(edited) <=> Workers(args) BY <1>5 DEF Workers
  <1>8. /\ ~On(args, "help") /\ ~Workers(args) /\ ~On(args, "minimize_crash")
        /\ ~On(args, "minimize_crash_internal_step")
        /\ ~On(args, "cleanse_crash") /\ ~AllInputsAreFiles(args)
    BY RoleIs
  <1>9. /\ ~On(edited, "help") /\ ~Workers(edited) /\ ~On(edited, "collect_data_flow")
        /\ ~On(edited, "minimize_crash") /\ ~On(edited, "minimize_crash_internal_step")
        /\ ~On(edited, "cleanse_crash") /\ ~AllInputsAreFiles(edited)
        /\ ~On(edited, "fork") /\ ~On(edited, "merge")
    BY <1>4, <1>5, <1>6, <1>7, <1>8
  <1>10. Role(edited) = "merge inner" BY <1>6, <1>9, RoleIs
  <1>11. "merge inner" \in Leaves /\ Role(args) # "jobs" /\ Rank(Role(args)) # 0 BY DEF Leaves, Rank
  <1> QED BY <1>1, <1>4, <1>10, <1>11, LeafFits

LEMMA ForkJobFits ==
    ASSUME NEW args \in Seq(Arguments), Role(args) = "fork",
           NEW c \in ForkJobChild(args)
    PROVE  ChildFits(args, c)
  <1> DEFINE F == {"fork", "runs", "collect_data_flow"}
             dir == CHOOSE d \in Directories : TRUE
             a == Arg(Path, dir)
             less == removeFlags(args, F)
             bare == removePaths(less)
             edited == addArgument(bare, a)
  <1>1. c = Child(edited, {"loop"}) BY DEF ForkJobChild
  <1>2. less \in Seq(Arguments) /\ \A f : On(less, f) <=> f \notin F /\ On(args, f)
    BY RemoveLeaves
  <1> HIDE DEF less
  <1>3. /\ bare \in Seq(Arguments) /\ Given(bare, Path) = {}
        /\ \A f : On(bare, f) <=> f # Path /\ On(less, f)
    BY <1>2, RemoveLeaves DEF removePaths
  <1>0. dir \in Directories /\ dir \notin FilePaths BY DriverAssumption
  <1> HIDE DEF dir
  <1>4. a \in Arguments /\ a # IgnoreRemaining /\ a.flag = Path /\ a.value = dir
    <2>1. Path # "ignore_remaining_args" BY DEF Path
    <2> QED BY <1>0, <2>1, AnArgument
  <1> HIDE DEF a, bare
  <1>5. /\ edited \in Seq(Arguments)
        /\ \A f : On(edited, f) <=> IF f = Path THEN a.value = "1" ELSE On(bare, f)
        /\ AllInputsAreFiles(edited) <=> dir \in FilePaths
    BY <1>3, <1>4, AddLeaves
  <1> HIDE DEF edited
  <1>6. \A f : f \notin F \cup {Path} => (On(edited, f) <=> On(args, f)) BY <1>2, <1>3, <1>5
  <1>7. \A f \in F : ~On(edited, f) BY <1>2, <1>3, <1>5 DEF Path
  <1>8. Workers(edited) <=> Workers(args) BY <1>6 DEF Workers, Path
  <1>9. /\ ~On(args, "help") /\ ~Workers(args) /\ ~On(args, "minimize_crash")
        /\ ~On(args, "minimize_crash_internal_step") /\ ~On(args, "cleanse_crash")
        /\ On(args, "fork")
    BY RoleIs
  <1>10. /\ ~On(edited, "help") /\ ~Workers(edited) /\ ~On(edited, "collect_data_flow")
         /\ ~On(edited, "minimize_crash") /\ ~On(edited, "minimize_crash_internal_step")
         /\ ~On(edited, "cleanse_crash") /\ ~AllInputsAreFiles(edited)
         /\ ~On(edited, "fork")
    BY <1>0, <1>5, <1>6, <1>7, <1>8, <1>9 DEF Path
  <1>11. Role(edited) \in {"merge", "merge inner", "analyze dictionary", "loop"} BY <1>10, RoleIs
  <1>12. OneTask(args) => Role(edited) = "loop"
    <2> SUFFICES ASSUME OneTask(args) PROVE Role(edited) = "loop"
      OBVIOUS
    <2>1. ~On(args, "merge") /\ ~On(args, "merge_inner") /\ ~On(args, "analyze_dict")
      BY <1>9 DEF OneTask
    <2>2. ~On(edited, "merge") /\ ~On(edited, "merge_inner") /\ ~On(edited, "analyze_dict")
      BY <1>6, <2>1 DEF Path
    <2> QED BY <1>10, <2>2, RoleIs
  <1>13. "loop" \in Leaves /\ "loop" \in Tasks BY DEF Leaves, Tasks
  <1>14. {"loop"} \in SUBSET Tasks BY <1>13
  <1>15. c \in Processes /\ c.args = edited /\ c.meant = {"loop"} BY <1>1, <1>5, <1>14, AChild
  <1>16. Rank(Role(args)) = 2 /\ Rank(Role(edited)) \in {0, 1} BY <1>11 DEF Rank
  <1>17. Rank(Role(c.args)) < Rank(Role(args)) BY <1>15, <1>16
  <1> QED BY <1>12, <1>13, <1>15, <1>17 DEF ChildFits

LEMMA FileForPaths ==
    ASSUME NEW args \in Seq(Arguments), NEW F, NEW file \in FilePaths,
           NEW run, run = addArgument(removePaths(removeFlags(args, F)), Arg(Path, file))
    PROVE  /\ run \in Seq(Arguments) /\ AllInputsAreFiles(run)
           /\ \A f \in FlagNames : On(run, f) <=> f \notin F /\ On(args, f)
  <1> DEFINE a == Arg(Path, file)
             less == removeFlags(args, F)
             bare == removePaths(less)
  <1>1. run = addArgument(bare, a) OBVIOUS
  <1>2. less \in Seq(Arguments) /\ \A f : On(less, f) <=> f \notin F /\ On(args, f)
    BY RemoveLeaves
  <1> HIDE DEF less
  <1>3. /\ bare \in Seq(Arguments) /\ Given(bare, Path) = {}
        /\ \A f : On(bare, f) <=> f # Path /\ On(less, f)
    BY <1>2, RemoveLeaves DEF removePaths
  <1>4. a \in Arguments /\ a # IgnoreRemaining /\ a.flag = Path /\ a.value = file
    <2>1. Path # "ignore_remaining_args" BY DEF Path
    <2> QED BY <2>1, AnArgument
  <1> HIDE DEF a, bare
  <1>5. /\ run \in Seq(Arguments)
        /\ \A f : On(run, f) <=> IF f = Path THEN a.value = "1" ELSE On(bare, f)
        /\ AllInputsAreFiles(run)
    BY <1>1, <1>3, <1>4, AddLeaves
  <1>6. Path \notin FlagNames BY DEF Path, FlagNames
  <1> QED BY <1>2, <1>3, <1>5, <1>6

LEMMA MinimizeFits ==
    ASSUME NEW args \in Seq(Arguments), Role(args) = "minimize",
           NEW c \in MinimizeChildren(args)
    PROVE  ChildFits(args, c)
  <1> DEFINE F == {"minimize_crash", "exact_artifact_path"}
             file == CHOOSE p \in FilePaths : TRUE
             a == Arg("minimize_crash_internal_step", "1")
             run == addArgument(removePaths(removeFlags(args, F)), Arg(Path, file))
             step == addArgument(run, a)
  <1>1. c = Child(run, {"run files"}) \/ c = Child(step, {"minimize step"}) BY DEF MinimizeChildren
  <1>2. file \in FilePaths BY DriverAssumption
  <1> HIDE DEF file
  <1>3. /\ run \in Seq(Arguments) /\ AllInputsAreFiles(run)
        /\ \A f \in FlagNames : On(run, f) <=> f \notin F /\ On(args, f)
    BY <1>2, FileForPaths
  <1>4. /\ a \in Arguments /\ a # IgnoreRemaining
        /\ a.flag = "minimize_crash_internal_step" /\ a.value = "1" /\ a.flag # Path
    <2>1. /\ "minimize_crash_internal_step" \in FlagNames /\ "1" \in {"0", "1"}
          /\ "minimize_crash_internal_step" # "ignore_remaining_args" /\ "minimize_crash_internal_step" # Path
      BY DEF FlagNames, Path
    <2> QED BY <2>1, AnArgument
  <1> HIDE DEF a, run
  <1>5. /\ step \in Seq(Arguments)
        /\ \A f : On(step, f) <=> IF f = "minimize_crash_internal_step" THEN TRUE ELSE On(run, f)
    BY <1>3, <1>4, AddLeaves
  <1> HIDE DEF step
  <1>6. /\ ~On(args, "help") /\ ~Workers(args)
        /\ ~(On(args, "collect_data_flow") /\ ~On(args, "fork") /\ ~On(args, "merge"))
        /\ On(args, "minimize_crash")
    BY RoleIs
  <1>7. /\ ~On(run, "help") /\ ~Workers(run)
        /\ ~(On(run, "collect_data_flow") /\ ~On(run, "fork") /\ ~On(run, "merge"))
        /\ ~On(run, "minimize_crash")
    BY <1>3, <1>6 DEF FlagNames, Workers
  <1>8. Role(run) \in {"minimize step", "cleanse", "run files"} BY <1>3, <1>7, RoleIs
  <1>9. OneTask(args) => Role(run) = "run files"
    <2> SUFFICES ASSUME OneTask(args) PROVE Role(run) = "run files"
      OBVIOUS
    <2>1. ~On(args, "minimize_crash_internal_step") /\ ~On(args, "cleanse_crash")
      BY <1>6 DEF OneTask
    <2>2. ~On(run, "minimize_crash_internal_step") /\ ~On(run, "cleanse_crash")
      BY <1>3, <2>1 DEF FlagNames
    <2> QED BY <1>3, <1>7, <2>2, RoleIs
  <1>10. /\ ~On(step, "help") /\ ~Workers(step)
         /\ ~(On(step, "collect_data_flow") /\ ~On(step, "fork") /\ ~On(step, "merge"))
         /\ ~On(step, "minimize_crash") /\ On(step, "minimize_crash_internal_step")
    BY <1>5, <1>7 DEF Workers
  <1>11. Role(step) = "minimize step" BY <1>10, RoleIs
  <1>12. "run files" \in Leaves /\ "minimize step" \in Leaves /\ "run files" \in Tasks BY DEF Leaves, Tasks
  <1>13. CASE c = Child(step, {"minimize step"})
    <2>1. Role(args) # "jobs" /\ Rank(Role(args)) # 0 BY DEF Rank
    <2> QED BY <1>5, <1>11, <1>12, <1>13, <2>1, LeafFits
  <1>14. CASE c = Child(run, {"run files"})
    <2>1. {"run files"} \in SUBSET Tasks BY <1>12
    <2>2. c \in Processes /\ c.args = run /\ c.meant = {"run files"} BY <1>3, <1>14, <2>1, AChild
    <2>3. Rank(Role(args)) = 2 BY DEF Rank
    <2>4. Rank(Role(run)) \in {0, 1} BY <1>8 DEF Rank
    <2>5. Rank(Role(c.args)) < Rank(Role(args))
      <3>1. Rank(Role(c.args)) = Rank(Role(run)) BY <2>2, Zenon
      <3>2. PICK q, r : q = Rank(Role(c.args)) /\ r = Rank(Role(args)) OBVIOUS
      <3>3. q \in {0, 1} /\ r = 2 BY <2>3, <2>4, <3>1, <3>2, Zenon
      <3> QED BY <3>2, <3>3
    <2> QED BY <1>9, <1>12, <2>2, <2>5 DEF ChildFits
  <1> QED BY <1>1, <1>13, <1>14

LEMMA CleanseFits ==
    ASSUME NEW args \in Seq(Arguments), Role(args) = "cleanse",
           NEW c \in CleanseChild(args)
    PROVE  ChildFits(args, c)
  <1> DEFINE F == {"cleanse_crash"}
             file == CHOOSE p \in FilePaths : TRUE
             run == addArgument(removePaths(removeFlags(args, F)), Arg(Path, file))
  <1>1. c = Child(run, {"run files"}) BY DEF CleanseChild
  <1>2. file \in FilePaths BY DriverAssumption
  <1> HIDE DEF file
  <1>3. /\ run \in Seq(Arguments) /\ AllInputsAreFiles(run)
        /\ \A f \in FlagNames : On(run, f) <=> f \notin F /\ On(args, f)
    BY <1>2, FileForPaths
  <1> HIDE DEF run
  <1>4. /\ ~On(args, "help") /\ ~Workers(args)
        /\ ~(On(args, "collect_data_flow") /\ ~On(args, "fork") /\ ~On(args, "merge"))
        /\ ~On(args, "minimize_crash") /\ ~On(args, "minimize_crash_internal_step")
    BY RoleIs
  <1>5. /\ ~On(run, "help") /\ ~Workers(run)
        /\ ~(On(run, "collect_data_flow") /\ ~On(run, "fork") /\ ~On(run, "merge"))
        /\ ~On(run, "minimize_crash") /\ ~On(run, "minimize_crash_internal_step") /\ ~On(run, "cleanse_crash")
    BY <1>3, <1>4 DEF FlagNames, Workers
  <1>6. Role(run) = "run files" BY <1>3, <1>5, RoleIs
  <1>7. "run files" \in Leaves /\ Role(args) # "jobs" /\ Rank(Role(args)) # 0 BY DEF Leaves, Rank
  <1> QED BY <1>1, <1>3, <1>6, <1>7, LeafFits

(* Whoever is launched, fits.                                              *)
LEMMA ChildrenFit ==
    ASSUME NEW args \in Seq(Arguments), Role(args) \in DOMAIN Children(args),
           NEW c \in Children(args)[Role(args)]
    PROVE  ChildFits(args, c)
  <1>1. CASE Role(args) = "jobs" BY <1>1, JobChildFits DEF Children
  <1>2. CASE Role(args) = "minimize" BY <1>2, MinimizeFits DEF Children
  <1>3. CASE Role(args) = "cleanse" BY <1>3, CleanseFits DEF Children
  <1>4. CASE Role(args) = "fork"
    <2>1. c \in ForkJobChild(args) \/ c \in MergeInnerChild(args) BY <1>4 DEF Children
    <2> QED BY <1>4, <2>1, ForkJobFits, MergeInnerFits
  <1>5. CASE Role(args) = "merge" BY <1>5, MergeInnerFits DEF Children, MergeChild
  <1> QED BY <1>1, <1>2, <1>3, <1>4, <1>5 DEF Children

LEMMA LeavesLaunchNobody == ASSUME NEW args, Role(args) \in Leaves PROVE Role(args) \notin DOMAIN Children(args)
  BY DEF Children, Leaves

LEMMA RankIs == ASSUME NEW r PROVE Rank(r) \in 0 .. 3
  BY DEF Rank

(* The inductive invariant: with one task, the chain begins with the       *)
(* user's process, a job may follow, and a leaf ends it; with any, each    *)
(* process has fewer to follow than the one before.                        *)
Playing(p) == Role(p.args) \in p.meant

PlayingAll ==
    /\ Len(chain) <= 3 /\ \A i \in 1 .. Len(chain) : Playing(chain[i])
    /\ LET args == chain[Len(chain)].args
       IN  \/ OneTask(args) /\ (Len(chain) = 1 \/ (Len(chain) = 2 /\ Role(args) # "jobs"))
           \/ Role(args) \in Leaves

DriverInv ==
    /\ chain \in Seq(Processes) /\ Len(chain) >= 1
    /\ Len(chain) + Rank(Role(chain[Len(chain)].args)) <= 4
    /\ OneTask(chain[1].args) => PlayingAll

LEMMA RolesAreTasks == ASSUME NEW args PROVE Role(args) \in Tasks
  BY RoleIs DEF Tasks

LEMMA DriverStarts == DriverInit => DriverInv
  <1> SUFFICES ASSUME NEW c \in CommandLines, chain = <<Child(c, {Role(c)})>> PROVE DriverInv
    BY DEF DriverInit
  <1>1. c \in Seq(Arguments) BY DriverAssumption
  <1>2. {Role(c)} \in SUBSET Tasks BY RolesAreTasks
  <1>3. Child(c, {Role(c)}) \in Processes /\ Child(c, {Role(c)}).args = c /\ Child(c, {Role(c)}).meant = {Role(c)}
    BY <1>1, <1>2, AChild
  <1>4. PICK p : p = Child(c, {Role(c)}) OBVIOUS
  <1>5. chain = <<p>> /\ p \in Processes /\ p.args = c /\ Playing(p) BY <1>3, <1>4 DEF Playing
  <1>6. chain \in Seq(Processes) /\ Len(chain) = 1 /\ chain[1] = p BY <1>5
  <1>7. PICK n : n = Len(chain) /\ n = 1 BY <1>6
  <1>8. \A i \in 1 .. n : i = 1 BY <1>7
  <1>9. \A i \in 1 .. n : Playing(chain[i]) BY <1>5, <1>6, <1>8
  <1>10. chain[n] = p /\ chain[n].args = c BY <1>5, <1>6, <1>7
  <1>11. n + Rank(Role(c)) <= 4
    <2>1. PICK r : r = Rank(Role(c)) OBVIOUS
    <2>2. r \in 0 .. 3 BY <2>1, RankIs
    <2> QED BY <1>7, <2>1, <2>2
  <1>12. OneTask(chain[1].args) => PlayingAll BY <1>7, <1>9, <1>10 DEF PlayingAll
  <1> QED BY <1>6, <1>7, <1>10, <1>11, <1>12 DEF DriverInv

LEMMA LaunchFits == DriverInv /\ Launch => DriverInv'
  <1> SUFFICES ASSUME DriverInv, Launch PROVE DriverInv'
    OBVIOUS
  <1>0. PICK n \in Nat : n = Len(chain) /\ n >= 1 BY DEF DriverInv
  <1>1. PICK args : n = Len(chain) /\ args = chain[n].args BY <1>0
  <1>2. Last(chain).args = args BY <1>1 DEF Last
  <1>3. chain \in Seq(Processes) BY DEF DriverInv
  <1>4. args \in Seq(Arguments)
    <2>1. chain[n] \in Processes BY <1>0, <1>1, <1>3
    <2> QED BY <1>1, <2>1 DEF Processes
  <1>5. Role(args) \in DOMAIN Children(args) BY <1>2 DEF Launch
  <1>6. PICK c \in Children(args)[Role(args)] : chain' = Append(chain, c) BY <1>2 DEF Launch
  <1>7. ChildFits(args, c) BY <1>4, <1>5, ChildrenFit
  <1>8. c \in Processes BY <1>7 DEF ChildFits
  <1>9. PICK m \in Nat : m = n + 1 OBVIOUS
  <1>10. /\ chain' \in Seq(Processes) /\ Len(chain') = m /\ chain'[m] = c
         /\ \A i \in 1 .. n : chain'[i] = chain[i]
    BY <1>1, <1>3, <1>6, <1>8, <1>9
  <1>11. m + Rank(Role(c.args)) <= 4
    <2>1. PICK q, r : q = Rank(Role(c.args)) /\ r = Rank(Role(args)) OBVIOUS
    <2>2. q \in 0 .. 3 /\ r \in 0 .. 3 BY <2>1, RankIs
    <2>3. q < r BY <1>7, <2>1 DEF ChildFits
    <2>4. n + r <= 4 BY <1>1, <2>1 DEF DriverInv
    <2> QED BY <1>9, <2>1, <2>2, <2>3, <2>4
  <1>12. OneTask(chain[1].args) => PlayingAll'
    <2> SUFFICES ASSUME OneTask(chain[1].args) PROVE PlayingAll'
      OBVIOUS
    <2>1. PlayingAll BY DEF DriverInv
    <2>2. OneTask(args) /\ (n = 1 \/ (n = 2 /\ Role(args) # "jobs"))
      <3>1. Role(args) \notin Leaves BY <1>5, LeavesLaunchNobody
      <3> QED BY <1>1, <2>1, <3>1 DEF PlayingAll
    <2>3. Playing(c) BY <1>7, <2>2 DEF ChildFits, Playing
    <2>4. \A i \in 1 .. m : Playing(chain'[i])
      <3>1. \A i \in 1 .. m : i \in 1 .. n \/ i = m BY <1>9
      <3>2. \A i \in 1 .. n : Playing(chain[i]) BY <1>1, <2>1 DEF PlayingAll
      <3> QED BY <1>10, <2>3, <3>1, <3>2
    <2>5. \/ OneTask(c.args) /\ m = 2 /\ Role(c.args) # "jobs"
          \/ Role(c.args) \in Leaves
      BY <1>7, <1>9, <2>2 DEF ChildFits
    <2>6. m <= 3 BY <1>9, <2>2
    <2> QED BY <1>10, <2>4, <2>5, <2>6 DEF PlayingAll, Playing
  <1>13. chain'[1] = chain[1] BY <1>0, <1>10
  <1>14. m >= 1 BY <1>9
  <1> QED BY <1>10, <1>11, <1>12, <1>13, <1>14 DEF DriverInv

LEMMA DriverInvStep == DriverInv /\ [DriverNext]_chain => DriverInv'
  <1>1. DriverInv /\ UNCHANGED chain => DriverInv' BY DEF DriverInv, PlayingAll, Playing
  <1> QED BY <1>1, LaunchFits DEF DriverNext

LEMMA DriverHolds == DriverInv => ChildrenPlayTheirPart
  <1> SUFFICES ASSUME DriverInv PROVE ChildrenPlayTheirPart
    OBVIOUS
  <1>0. PICK n \in Nat : n = Len(chain) BY DEF DriverInv
  <1>1. DOMAIN chain = 1 .. n BY <1>0 DEF DriverInv
  <1>2. n <= 4
    <2>1. PICK r : r = Rank(Role(chain[n].args)) OBVIOUS
    <2>2. r \in 0 .. 3 BY <2>1, RankIs
    <2>3. n + r <= 4 BY <1>0, <2>1 DEF DriverInv
    <2> QED BY <2>2, <2>3
  <1>3. OneTask(chain[1].args) => n <= 3 /\ \A i \in 1 .. n : Role(chain[i].args) \in chain[i].meant
    BY <1>0 DEF DriverInv, PlayingAll, Playing
  <1> QED BY <1>1, <1>2, <1>3 DEF ChildrenPlayTheirPart

(* If the user's command line sets one task, the process it starts, the    *)
(* jobs of -jobs and the children of minimizing, cleansing, merging and    *)
(* fork mode each do what they are launched for, and no chain of them is   *)
(* longer than three; whatever flags a command line combines, no process   *)
(* launches others without end: no chain is longer than four.              *)
THEOREM EveryChildPlaysItsPart == DriverSpec => []ChildrenPlayTheirPart
  <1>1. DriverInit => DriverInv BY DriverStarts
  <1>2. DriverInv /\ [DriverNext]_chain => DriverInv' BY DriverInvStep
  <1>3. DriverInv => ChildrenPlayTheirPart BY DriverHolds
  <1> QED BY <1>1, <1>2, <1>3, PTL DEF DriverSpec

-----------------------------------------------------------------------------
(* The processes together: a behaviour of the composition is one of every  *)
(* part, which takes its own steps while the process plays it and stutters *)
(* while it plays another.                                                 *)

LEMMA PartsStart ==
    LibFuzzerInit =>
        /\ MergeInit /\ ForkInit /\ FuzzInit /\ JobsInit /\ MinInit
        /\ CleanseInit /\ CallbackInit /\ MutationsInit /\ TraceInit
  BY DEF LibFuzzerInit

(* The part of the driver: no other process has a chain of its own.        *)
ProcessChain == IF part = "driver" THEN DriverInv ELSE chain = <<>>

LEMMA ProcessChainKept ==
    /\ LibFuzzerInit => ProcessChain
    /\ ProcessChain /\ [LibFuzzerNext]_libFuzzerVars => ProcessChain'
    /\ ProcessChain => ChildrenPlayTheirPart
  <1>1. LibFuzzerInit => ProcessChain BY DriverStarts DEF LibFuzzerInit, ProcessChain
  <1>2. ASSUME ProcessChain, [LibFuzzerNext]_libFuzzerVars PROVE ProcessChain'
    <2>1. part' = part BY <1>2 DEF LibFuzzerNext, libFuzzerVars, In
    <2>2. CASE part = "driver"
      <3>1. DriverInv BY <1>2, <2>2 DEF ProcessChain
      <3>2. [DriverNext]_chain BY <1>2, <2>2 DEF LibFuzzerNext, libFuzzerVars, In
      <3>3. DriverInv' BY <3>1, <3>2, DriverInvStep
      <3> QED BY <2>1, <2>2, <3>3 DEF ProcessChain
    <2>3. CASE part # "driver"
      <3>1. chain' = chain BY <1>2, <2>3 DEF LibFuzzerNext, libFuzzerVars, In
      <3> QED BY <1>2, <2>1, <2>3, <3>1 DEF ProcessChain
    <2> QED BY <2>2, <2>3
  <1>3. ASSUME ProcessChain PROVE ChildrenPlayTheirPart
    <2>1. CASE chain = <<>> BY <2>1 DEF ChildrenPlayTheirPart
    <2>2. CASE DriverInv BY <2>2, DriverHolds
    <2> QED BY <1>3, <2>1, <2>2 DEF ProcessChain
  <1> QED BY <1>1, <1>2, <1>3

LEMMA PartsStep ==
    [LibFuzzerNext]_libFuzzerVars =>
        /\ [MergeNext]_mergeVars
        /\ [ForkNext]_forkVars
        /\ [FuzzNext]_fuzzVars
        /\ [JobsNext]_jobVars
        /\ [MinNext]_minVars
        /\ [CleanseNext]_cleanseVars
        /\ [CallbackNext]_callbackVars
        /\ [MutationsNext]_dispatcherVars
        /\ [TraceNext]_traceVars
  <1>1. [LibFuzzerNext]_libFuzzerVars => [MergeNext]_mergeVars BY DEF LibFuzzerNext, libFuzzerVars
  <1>2. [LibFuzzerNext]_libFuzzerVars => [ForkNext]_forkVars BY DEF LibFuzzerNext, libFuzzerVars
  <1>3. [LibFuzzerNext]_libFuzzerVars => [FuzzNext]_fuzzVars BY DEF LibFuzzerNext, libFuzzerVars
  <1>4. [LibFuzzerNext]_libFuzzerVars => [JobsNext]_jobVars BY DEF LibFuzzerNext, libFuzzerVars
  <1>5. [LibFuzzerNext]_libFuzzerVars => [MinNext]_minVars BY DEF LibFuzzerNext, libFuzzerVars
  <1>6. [LibFuzzerNext]_libFuzzerVars => [CleanseNext]_cleanseVars BY DEF LibFuzzerNext, libFuzzerVars
  <1>7. [LibFuzzerNext]_libFuzzerVars => [CallbackNext]_callbackVars BY DEF LibFuzzerNext, libFuzzerVars
  <1>8. [LibFuzzerNext]_libFuzzerVars => [MutationsNext]_dispatcherVars BY DEF LibFuzzerNext, libFuzzerVars
  <1>9. [LibFuzzerNext]_libFuzzerVars => [TraceNext]_traceVars BY DEF LibFuzzerNext, libFuzzerVars
  <1> QED BY <1>1, <1>2, <1>3, <1>4, <1>5, <1>6, <1>7, <1>8, <1>9

LEMMA PartsBehave ==
    LibFuzzerSpec =>
        /\ MergeSpec /\ ForkSpec /\ FuzzSpec /\ JobsSpec /\ MinSpec
        /\ CleanseSpec /\ CallbackSpec /\ MutationsSpec /\ TraceSpec
  BY PartsStart, PartsStep, PTL
     DEF LibFuzzerSpec, MergeSpec, ForkSpec, FuzzSpec, JobsSpec, MinSpec, CleanseSpec,
         CallbackSpec, MutationsSpec, TraceSpec

(* The types of the parts that persist or share what they know, in every   *)
(* process of libFuzzer.                                                   *)
THEOREM ProcessesStayTyped == LibFuzzerSpec => []LibFuzzerTypeOK
  <1>1. MergeTypeOK /\ ForkTypeOK /\ FuzzTypeOK => LibFuzzerTypeOK BY DEF LibFuzzerTypeOK
  <1> QED BY <1>1, PartsBehave, MergeTypes, ForkStaysTyped, LoopStaysTyped, PTL

(* What the parts keep, the processes of libFuzzer keep: every safety      *)
(* property above holds of the composition, whatever part a process plays, *)
(* and so does the promise of the merge.                                   *)
THEOREM ProcessesKeepTheParts ==
    LibFuzzerSpec =>
        /\ [](AttemptsSuffice /\ ControlFileParses)
        /\ [](JobsInFlight /\ FeaturesBacked)
        /\ [](FeatureAccounting /\ BaseAlive)
        /\ [](JobsReported /\ MinimizedKeepsBug /\ CleansedAndLocallyMinimal)
        /\ [](ReportsNameTheUnit /\ PointersKeepTheirWords /\ CountersBecomeFeatures)
        /\ []ChildrenPlayTheirPart
        /\ MergeRefines
  <1>1. LibFuzzerSpec => []ChildrenPlayTheirPart
    BY ProcessChainKept, PTL DEF LibFuzzerSpec
  <1> QED
    BY <1>1, PartsBehave, AttemptsReachAll, LogAlwaysParses, OneJobPerThread, KnownFeaturesBacked,
       FeaturesAccounted, BaseStaysAlive, EveryJobReported, MinimizationKeepsBug,
       CleanseIsLocallyMinimal, ReportsAreWhole, WordsStayInPlace, CountedBytesShow,
       MergeRefinement, PTL
=============================================================================
