--------------------------- MODULE MessageCrossover ---------------------------
(***************************************************************************)
(* One call of Mutator::Crossover(message1, message2, max_size).           *)
(*                                                                         *)
(* MessageCrossover walks two messages of one type in parallel and changes *)
(* the first: per field it may replace what message1 has by what message2  *)
(* has there, or add message2's to message1's, or do nothing.  Only where  *)
(* it did nothing does it descend into a pair of embedded messages.  As in *)
(* MessageMutation the call stack is explicit, and the last line of the    *)
(* loop body makes remain_size exact for the level it is in.               *)
(***************************************************************************)
EXTENDS ProtoMessage

CONSTANTS
    MaxNewRepeated,      \* MAX_NEW_REPEATED_SIZE
    MaxReplaceRepeated,  \* MAX_REPLACE_REPEATED_SIZE
    Pairs,               \* the <<message1, message2>> Crossover is called with
    Budgets              \* values of max_size it is called with

ASSUME CrossoverAssumption ==
    /\ MaxNewRepeated \in Nat \ {0}
    /\ MaxReplaceRepeated \in Nat \ {0}
    /\ \A p \in Pairs : IsRoot(p[1]) /\ IsRoot(p[2])
    /\ Budgets \subseteq Nat

VARIABLES
    root,      \* message1
    remain,    \* remain_size
    stack,     \* activations of MessageCrossover, innermost last
    pair,      \* history: the two messages of the call; message2 is const
    maxSize    \* max_size of the call

call == <<pair, maxSize>>
vars == <<root, remain, stack, call>>

seed == pair[1]
other == pair[2]

(* An activation: where in both messages it works, the loop index, the     *)
(* embedded field it descends into (0: none) and the next element there,   *)
(* and the local max_size.                                                 *)
Frame(at, f, max) == [at |-> at, field |-> f, into |-> 0, elem |-> 0, max |-> max]

Init ==
    /\ pair \in Pairs
    /\ maxSize \in Budgets
    /\ root = seed
    /\ remain = maxSize - RootSize(seed)
    /\ stack = <<Frame(<<>>, 1, RootSize(seed) + remain)>>

-----------------------------------------------------------------------------
(* The helpers of mutate_util.cpp, as the set of messages each can turn m1 *)
(* into.  at is the position of m1, f the field of m1 and g that of m2:    *)
(* another member of the group of f, or f itself.                          *)

Lesser(a, b) == IF a <= b THEN a ELSE b

(* Ways to pick k of n positions, in any order.                            *)
Picks(k, n) == {p \in [1 .. k -> 1 .. n] : \A i, j \in 1 .. k : p[i] = p[j] => i = j}

(* At most `most` elements of a repeated field become elements of message2.*)
ReplaceUpTo(most, m1, m2, f) ==
    UNION {{[m1 EXCEPT ![f] = [i \in DOMAIN @ |-> IF i \in S THEN m2[f][from[i]] ELSE @[i]]] :
               from \in [S -> DOMAIN m2[f]]} :
           S \in {S \in SUBSET DOMAIN m1[f] : Cardinality(S) <= most}}

(* Slip: cnt may reach len1.                                               *)
ReplaceRepeatedFieldAll(m1, m2, f) ==
    IF m1[f] = <<>> \/ m2[f] = <<>> THEN {m1}
    ELSE ReplaceUpTo(Lesser(Len(m1[f]), MaxReplaceRepeated), m1, m2, f)

(* ReplaceRepeatedField: up to MaxReplaceRepeated elements, but never all. *)
(* The size is never checked: the test is max_size - ByteSizeLong() < 0 in *)
(* unsigned arithmetic.                                                    *)
ReplaceRepeatedField(m1, m2, f) ==
    IF m1[f] = <<>> \/ m2[f] = <<>> THEN {m1}
    ELSE ReplaceUpTo(Lesser(Len(m1[f]) - 1, MaxReplaceRepeated), m1, m2, f)

(* Slip: the member of message 1 is not cleared.                           *)
ReplaceSetFieldKeeping(at, m1, m2, g, max) ==
    {m1} \cup {x \in {[m1 EXCEPT ![g] = m2[g]]} : SizeAt(at, x) <= max}

(* Slip: what does not fit is cleared instead of restored.                 *)
ReplaceSetFieldClearing(at, m1, m2, g, max) ==
    LET x == SetField(TypeAt(at), m1, g, m2[g][1])
    IN  IF SizeAt(at, x) <= max THEN {x} ELSE {[x EXCEPT ![g] = <<>>]}

(* ReplaceSetField: message2's value, in a group as message2's member.  If *)
(* that does not fit, the whole message is restored from a copy.           *)
ReplaceSetField(at, m1, m2, g, max) ==
    LET x == SetField(TypeAt(at), m1, g, m2[g][1])
    IN  IF SizeAt(at, x) <= max THEN {x} ELSE {m1}

(* Up to `most` elements of message2, in any order, none twice.            *)
Drawn(most, m2, f) ==
    UNION {{[i \in 1 .. k |-> m2[f][p[i]]] : p \in Picks(k, Len(m2[f]))} : k \in 0 .. most}

(* Slip: the elements that do not fit are kept.                            *)
CrossoverAddRepeatedFieldUnchecked(at, m1, m2, f, max) ==
    {[m1 EXCEPT ![f] = @ \o s] : s \in Drawn(Lesser(Len(m2[f]), MaxNewRepeated), m2, f)}

(* CrossoverAddRepeatedField: elements of message2 in random order, none   *)
(* twice, up to the first that makes the message too large.                *)
CrossoverAddRepeatedField(at, m1, m2, f, max) ==
    {m1} \cup
    {x \in {[m1 EXCEPT ![f] = @ \o s] : s \in Drawn(Lesser(Len(m2[f]), MaxNewRepeated), m2, f)} :
        SizeAt(at, x) <= max}

(* Slip: the member of message2 ignored, its value put in field f.         *)
CrossoverAddUnsetFieldHere(at, m1, m2, f, g, max) ==
    {m1} \cup {x \in {SetField(TypeAt(at), m1, f, m2[g][1])} : SizeAt(at, x) <= max}

(* CrossoverAddUnsetField: as message2's member in a group; cleared again  *)
(* if it does not fit.                                                     *)
CrossoverAddUnsetField(at, m1, m2, f, g, max) ==
    LET x == SetField(TypeAt(at), m1, g, m2[g][1])
    IN  IF SizeAt(at, x) <= max THEN {x} ELSE {[x EXCEPT ![g] = <<>>]}

-----------------------------------------------------------------------------
(* MessageCrossover.                                                       *)

Top == Last(stack)
Type == TypeAt(Top.at)
Msg == MessageAt(root, Top.at)
F == Top.field
Size(m) == SizeAt(Top.at, m)

(* The other message, read where it may be unset: the default instance.    *)
Other == IF Top.at # <<>> /\ other[Top.at[1]] = <<>> THEN EmptyLeaf
         ELSE MessageAt(other, Top.at)

(* max_size = msg1->ByteSizeLong() + remain_size, in the helpers.          *)
HelperMax == Size(Msg) + remain

InLoop == stack # <<>> /\ Top.into = 0 /\ F <= Len(Type)
InGroup == Type[F].oneof # 0
Repeated == ~InGroup /\ IsRepeated(Type[F])
Singular == ~InGroup /\ Type[F].kind = "scalar"

(* The set member of the group in each message, if F is the first of it.   *)
Members1 == IF InGroup /\ FirstOfGroup(Type, F) THEN SetMembers(Type, Msg, F) ELSE {}
Members2 == IF InGroup /\ FirstOfGroup(Type, F) THEN SetMembers(Type, Other, F) ELSE {}

(* The end of the loop body: remain_size = max_size - msg1->ByteSizeLong().*)
EndField(m) ==
    /\ root' = PutAt(root, Top.at, m)
    /\ remain' = Top.max - Size(m)
    /\ stack' = [stack EXCEPT ![Len(stack)] = Frame(Top.at, Top.field + 1, Top.max)]
    /\ UNCHANGED call

(* Pairs of embedded messages in field f come next.                        *)
StartDescent(m, f) ==
    /\ root' = PutAt(root, Top.at, m)
    /\ stack' = [stack EXCEPT ![Len(stack)].into = f, ![Len(stack)].elem = 1]
    /\ UNCHANGED <<remain, call>>

(* TryCrossoverField draws None or runs past the allowed crossovers, or    *)
(* there is nothing to cross over.  Only now are embedded messages crossed *)
(* over: equal members of a group, or the elements with a counterpart.     *)
NoCrossover ==
    /\ InLoop
    /\ \/ InGroup /\ EndField(Msg)
          /\ \A f \in Members1 \cap Members2 : ~IsMessageType(Type[f])
       \/ \E f \in Members1 \cap Members2 : IsMessageType(Type[f]) /\ StartDescent(Msg, f)
       \/ Singular /\ EndField(Msg)
       \/ Repeated /\ ~IsMessageType(Type[F]) /\ EndField(Msg)
       \/ Repeated /\ IsMessageType(Type[F]) /\ StartDescent(Msg, F)

(* Slip: None still allowed after a replacement, so that embedded messages *)
(* are crossed over as well.                                               *)
ReplaceThenDescend ==
    /\ InLoop
    /\ \/ \E f \in Members1, g \in Members2 :
             \E m \in ReplaceSetField(Top.at, Msg, Other, g, HelperMax) : EndField(m)
       \/ Singular /\ Msg[F] # <<>> /\ Other[F] # <<>>
          /\ \E m \in ReplaceSetField(Top.at, Msg, Other, F, HelperMax) : EndField(m)
       \/ Repeated /\ \E m \in ReplaceRepeatedField(Msg, Other, F) :
             IF IsMessageType(Type[F]) THEN StartDescent(m, F) ELSE EndField(m)

Replace ==
    /\ InLoop
    /\ \/ \E f \in Members1, g \in Members2 :
             \E m \in ReplaceSetField(Top.at, Msg, Other, g, HelperMax) : EndField(m)
       \/ Singular /\ Msg[F] # <<>> /\ Other[F] # <<>>
          /\ \E m \in ReplaceSetField(Top.at, Msg, Other, F, HelperMax) : EndField(m)
       \/ Repeated /\ \E m \in ReplaceRepeatedField(Msg, Other, F) : EndField(m)

CrossoverAdd ==
    /\ InLoop
    /\ \/ Members1 = {} /\ \E g \in Members2 :
             \E m \in CrossoverAddUnsetField(Top.at, Msg, Other, F, g, HelperMax) : EndField(m)
       \/ Singular /\ Msg[F] = <<>> /\ Other[F] # <<>>
          /\ \E m \in CrossoverAddUnsetField(Top.at, Msg, Other, F, F, HelperMax) : EndField(m)
       \/ Repeated
          /\ \E m \in CrossoverAddRepeatedField(Top.at, Msg, Other, F, HelperMax) : EndField(m)

(* A singular embedded message is always crossed over, and created in      *)
(* message1 when unset, whether message2 has one or not.                   *)
EnterMessage ==
    /\ InLoop
    /\ ~InGroup /\ Type[F].kind = "message"
    /\ StartDescent(IF Msg[F] = <<>> THEN SetField(Type, Msg, F, EmptyLeaf) ELSE Msg, F)

(* The pairs to cross over: elements with a counterpart in message2; a     *)
(* singular message always has one, if only the default instance.          *)
PairCount == IF Type[Top.into].kind = "messages"
             THEN Lesser(Len(Msg[Top.into]), Len(Other[Top.into])) ELSE 1

(* Slip: the element loop does not advance.                                *)
DescendAgain ==
    /\ stack # <<>> /\ Top.into # 0 /\ Top.elem <= PairCount
    /\ stack' = Append(stack, Frame(<<Top.into, Top.elem>>, 1,
                                    LeafSize(Msg[Top.into][Top.elem]) + remain))
    /\ UNCHANGED <<root, remain, call>>

Descend ==
    /\ stack # <<>> /\ Top.into # 0 /\ Top.elem <= PairCount
    /\ stack' = Append([stack EXCEPT ![Len(stack)].elem = @ + 1],
                       Frame(<<Top.into, Top.elem>>, 1,
                             LeafSize(Msg[Top.into][Top.elem]) + remain))
    /\ UNCHANGED <<root, remain, call>>

EndDescent ==
    /\ stack # <<>> /\ Top.into # 0 /\ Top.elem > PairCount
    /\ EndField(Msg)

(* The loop of an activation is over; an empty stack ends Crossover.       *)
Return ==
    /\ stack # <<>> /\ Top.into = 0 /\ F > Len(Type)
    /\ stack' = Front(stack)
    /\ UNCHANGED <<root, remain, call>>

Next ==
    \/ NoCrossover \/ Replace \/ CrossoverAdd
    \/ EnterMessage \/ Descend \/ EndDescent \/ Return

Spec == Init /\ [][Next]_vars

(* Crossover is one uninterrupted call of a single thread.                 *)
FairSpec == Spec /\ WF_vars(Next)

-----------------------------------------------------------------------------
Done == stack = <<>>

TypeOK ==
    /\ IsRoot(root)
    /\ remain \in Int
    /\ stack \in Seq([at : {<<>>} \cup ((DOMAIN RootType) \X (Nat \ {0})), field : Nat,
                      into : Nat, elem : Nat, max : Int])
    /\ pair \in Pairs
    /\ maxSize \in Budgets

(* Crossover: "The result size does not exceed max_size" (mutator.h:76),   *)
(* for a message1 that is within max_size to begin with.                   *)
ResultFits == (Done /\ RootSize(seed) <= maxSize) => RootSize(root) <= maxSize

(* The part of ResultFits that the code does keep: when a value is added   *)
(* to the outer message, the whole message is within max_size, whatever    *)
(* unchecked replacements came before.                                     *)
AdditionsFit ==
    [][ (\E f \in DOMAIN RootType :
            ~IsMessageType(RootType[f]) /\ Len(root'[f]) > Len(root[f]))
        => RootSize(root') <= maxSize ]_vars

LeafValues(m, f, h) == UNION {Range(m[f][j][h]) : j \in DOMAIN m[f]}

(* Crossover invents nothing: at every moment every scalar of message1     *)
(* stood in the same field of message1 or message2 before the call, for an *)
(* embedded message in the same field of one of its kind.                  *)
Provenance ==
    \A f \in DOMAIN RootType :
        IF IsMessageType(RootType[f])
        THEN \A h \in DOMAIN LeafType :
                LeafValues(root, f, h) \subseteq LeafValues(seed, f, h) \cup LeafValues(other, f, h)
        ELSE Range(root[f]) \subseteq Range(seed[f]) \cup Range(other[f])

(* A repeated scalar field is extended or replaced in place, never both: it*)
(* keeps an element of its own, and gets no element of message2 twice.     *)
RepeatedMerge ==
    \A f \in DOMAIN RootType : RootType[f].kind = "repeated" =>
        LET old == seed[f]
            new == root[f]
            more == Len(new) - Len(old)
            changed == {i \in DOMAIN old : new[i] # old[i]}
        IN  /\ more \in 0 .. MaxNewRepeated
            /\ old # <<>> => changed # DOMAIN old
            /\ more > 0 =>
                  /\ changed = {}
                  /\ \E p \in Picks(more, Len(other[f])) :
                        \A i \in 1 .. more : new[Len(old) + i] = other[f][p[i]]

(* Crossover takes nothing away: what was set stays set, if only as the    *)
(* member of the group that message2 has, also when a value does not fit.  *)
NothingLost ==
    \A f \in DOMAIN RootType :
        /\ SetMembers(RootType, seed, f) # {} => SetMembers(RootType, root, f) # {}
        /\ IsRepeated(RootType[f]) => Len(root[f]) >= Len(seed[f])

(* "After crossover the messages, do not perform recursive crossover on    *)
(* this message" (mutator.h:44): in a repeated message field either every  *)
(* element is a whole message of one of the two, or elements were crossed  *)
(* over pairwise and those without a counterpart are untouched.            *)
WholeOrPaired ==
    \A f \in DOMAIN RootType : RootType[f].kind = "messages" =>
        \/ Range(root[f]) \subseteq Range(seed[f]) \cup Range(other[f])
        \/ /\ Len(root[f]) = Len(seed[f])
           /\ \A i \in DOMAIN root[f] : i > Len(other[f]) => root[f][i] = seed[f][i]
           /\ \A i \in DOMAIN root[f], h \in DOMAIN LeafType : i <= Len(other[f]) =>
                 Range(root[f][i][h]) \subseteq Range(seed[f][i][h]) \cup Range(other[f][i][h])

(* Crossover returns, whatever is replaced, added or crossed over.         *)
Terminates == <>Done
=============================================================================
