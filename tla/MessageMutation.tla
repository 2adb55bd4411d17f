--------------------------- MODULE MessageMutation ---------------------------
(***************************************************************************)
(* One call of Mutator::Mutate(message, max_size).                         *)
(*                                                                         *)
(* MessageMutation visits the fields of a message in descriptor order, may *)
(* apply one mutation to each, and descends into embedded messages; the    *)
(* int remain_size (here `remain`) is passed down by reference.  The call  *)
(* stack is explicit: a frame is one activation of MessageMutation.  The   *)
(* helpers of mutate_util.cpp recompute remain_size as they go; the last   *)
(* line of the loop body of MessageMutation overwrites it, so a step that  *)
(* ends an iteration sets it once (EndField).                              *)
(***************************************************************************)
EXTENDS ProtoMessage

CONSTANTS
    MaxNewRepeated,  \* MAX_NEW_REPEATED_SIZE
    Seeds,           \* messages Mutate is called with
    Budgets          \* values of max_size it is called with

ASSUME MutationAssumption ==
    /\ MaxNewRepeated \in Nat \ {0}
    /\ \A m \in Seeds : IsRoot(m)
    /\ Budgets \subseteq Nat

VARIABLES
    root,      \* the message being mutated
    remain,    \* remain_size
    stack,     \* activations of MessageMutation, innermost last
    seed,      \* history: the message the call started with
    maxSize    \* max_size of the call

call == <<seed, maxSize>>
vars == <<root, remain, stack, call>>

(* An activation: the message it works on, the loop index, the embedded    *)
(* field it descends into (0: none) and the next element there, and the    *)
(* local max_size.                                                         *)
Frame(at, f, max) == [at |-> at, field |-> f, into |-> 0, elem |-> 0, max |-> max]

(* max_size = ByteSizeLong() + remain_size.  size_t arithmetic wraps, but  *)
(* so does the subtraction that undoes it: the sum is exact.               *)
Init ==
    /\ seed \in Seeds
    /\ maxSize \in Budgets
    /\ root = seed
    /\ remain = maxSize - RootSize(seed)
    /\ stack = <<Frame(<<>>, 1, RootSize(seed) + remain)>>

-----------------------------------------------------------------------------
(* The helpers of mutate_util.cpp, as the set of messages each can turn m  *)
(* into.  at is the position of m (its type and its ByteSizeLong go by it),*)
(* f the field, and max the max_size the helper computes on entry.  m      *)
(* itself is always among the results: what does not fit is taken back.    *)

Extend(m, f, s) == [m EXCEPT ![f] = @ \o s]

(* m with one value added to field f, or to a member of its group.         *)
Additions(T, m, f) ==
    IF IsRepeated(T[f]) THEN {Extend(m, f, <<v>>) : v \in Scalars}
    ELSE {SetField(T, m, h, v) : h \in Group(T, f), v \in Scalars}

(* createRandomMessage fills a new embedded message field by field: a      *)
(* repeated field gets MaxNewRepeated elements, a group one member, every  *)
(* other field a value.  What does not fit is taken back.  m can be the    *)
(* result if each field is complete or met a value that did not fit.       *)
IsCreated(m, max) ==
    LET T == LeafType
        upTo(f, last) == [h \in DOMAIN T |-> IF h < f \/ h \in last THEN m[h] ELSE <<>>]
        complete(f) == IF IsRepeated(T[f]) THEN Len(m[f]) = MaxNewRepeated
                       ELSE T[f].oneof = 0 \/ SetMembers(T, m, f) # {}
    IN  \A f \in DOMAIN T : FirstOfGroup(T, f) =>
        LET now == upTo(f, Group(T, f))
        IN  /\ now # upTo(f, {}) => LeafSize(now) <= max
            /\ complete(f) \/ \E x \in Additions(T, now, f) : LeafSize(x) > max

NewLeaves ==
    {m \in [DOMAIN LeafType -> BoundedSeq(Scalars, MaxNewRepeated)] : IsLeaf(m)}

CreatedLeaves(max) == {m \in NewLeaves : IsCreated(m, max)}

(* AddRepeatedField: up to MaxNewRepeated new elements, one by one; the    *)
(* first that makes the message too large is removed and ends the loop.    *)
AddRepeatedField(at, m, f, max) ==
    LET messages == IsMessageType(TypeAt(at)[f])
        added == IF messages THEN NewLeaves ELSE Scalars
        room(s) == max - SizeAt(at, Extend(m, f, s \o <<EmptyLeaf>>))
    IN  {m} \cup
        {x \in {Extend(m, f, s) : s \in BoundedSeq(added, MaxNewRepeated)} :
            /\ SizeAt(at, x) <= max
            /\ messages => \A i \in Len(m[f]) + 1 .. Len(x[f]) :
                   IsCreated(x[f][i], room(SubSeq(x[f], Len(m[f]) + 1, i - 1)))}

(* Slip: a default value counted as a set field.                           *)
AddUnsetFieldRaw(at, m, f, max) ==
    {m} \cup UNION
    {IF IsMessageType(TypeAt(at)[h])
     THEN {SetField(TypeAt(at), m, h, leaf) : leaf \in CreatedLeaves(max - SizeAt(at, m))}
     ELSE {x \in {Extend(m, h, <<v>>) : v \in Scalars} : SizeAt(at, x) <= max}
     : h \in Group(TypeAt(at), f)}

(* AddUnsetField: a random value, of a random member if f is in a group.   *)
(* A value that does not fit is cleared again; a new message in a group is *)
(* only bounded by what was left before it got its tag and length.         *)
AddUnsetField(at, m, f, max) ==
    {m} \cup UNION
    {IF IsMessageType(TypeAt(at)[h])
     THEN {SetField(TypeAt(at), m, h, leaf) : leaf \in CreatedLeaves(max - SizeAt(at, m))}
     ELSE {x \in {SetField(TypeAt(at), m, h, v) : v \in Scalars} : SizeAt(at, x) <= max}
     : h \in Group(TypeAt(at), f)}

(* The strictly increasing choices of at least `fewest` of n positions.    *)
Subsequences(n, fewest) ==
    {g \in UNION {[1 .. k -> 1 .. n] : k \in fewest .. n} :
        \A i, j \in DOMAIN g : i < j => g[i] < g[j]}

(* Slip: the early return for short lists forgotten.                       *)
DeleteRepeatedFieldAlways(m, f) ==
    LET n == Len(m[f])
        fewest == IF n <= MaxNewRepeated \div 2 THEN 0 ELSE n - (MaxNewRepeated \div 2)
    IN  {[m EXCEPT ![f] = [i \in DOMAIN g |-> m[f][g[i]]]] : g \in Subsequences(n, fewest)}

(* DeleteRepeatedField: only from more than MaxNewRepeated elements, at    *)
(* most half of MaxNewRepeated of them; the others keep their order.       *)
DeleteRepeatedField(m, f) ==
    LET n == Len(m[f])
        fewest == IF n <= MaxNewRepeated THEN n ELSE n - (MaxNewRepeated \div 2)
    IN  {[m EXCEPT ![f] = [i \in DOMAIN g |-> m[f][g[i]]]] : g \in Subsequences(n, fewest)}

(* DeleteSetField: cleared with probability 1/2.                           *)
DeleteSetField(m, f) == {m, [m EXCEPT ![f] = <<>>]}

(* Slip: the undo forgotten.                                               *)
MutateRepeatedFieldUnchecked(at, m, f, max) ==
    {[m EXCEPT ![f] = c] : c \in [DOMAIN m[f] -> Scalars]}

(* MutateRepeatedField: each scalar may change; a change that makes the    *)
(* message too large is undone on the spot.                                *)
MutateRepeatedField(at, m, f, max) ==
    {x \in {[m EXCEPT ![f] = c] : c \in [DOMAIN m[f] -> Scalars]} :
        \A i \in DOMAIN m[f] :
            x[f][i] # m[f][i] =>
                SizeAt(at, [m EXCEPT ![f] = [j \in DOMAIN m[f] |->
                                          IF j <= i THEN x[f][j] ELSE m[f][j]]]) <= max}

(* MutateSetField on the set field f.  In a group the index of the member  *)
(* is mutated first, and an unchanged index ends the call.  A new scalar   *)
(* member that does not fit is reset to its default value, not to the old  *)
(* member; a new message member is not checked at all.                     *)
MutateSetField(at, m, f, max) ==
    IF TypeAt(at)[f].oneof = 0
    THEN {m} \cup {x \in {SetField(TypeAt(at), m, f, v) : v \in Scalars} : SizeAt(at, x) <= max}
    ELSE {m} \cup UNION
         {IF IsMessageType(TypeAt(at)[h])
          THEN {SetField(TypeAt(at), m, h, leaf) : leaf \in CreatedLeaves(max - SizeAt(at, m))}
          ELSE {SetField(TypeAt(at), m, h, Default)} \cup
               {x \in {SetField(TypeAt(at), m, h, v) : v \in Scalars} : SizeAt(at, x) <= max}
          : h \in Group(TypeAt(at), f) \ {f}}

(* ShuffleRepeatedField: any order of the same elements.                   *)
ShuffleRepeatedField(m, f) ==
    {[m EXCEPT ![f] = [i \in DOMAIN m[f] |-> m[f][p[i]]]] :
        p \in {q \in [DOMAIN m[f] -> DOMAIN m[f]] :
                  \A i, j \in DOMAIN m[f] : q[i] = q[j] => i = j}}

(* What is taken for granted of ByteSizeLong where theorems need it: it is *)
(* a number, deleting does not make a message larger, and the order of the *)
(* elements of a field does not matter.                                    *)
SizeLawsAt(m) ==
    /\ RootSize(m) \in Nat
    /\ \A f \in DOMAIN RootType :
          /\ \A x \in DeleteSetField(m, f) : RootSize(x) <= RootSize(m)
          /\ IsRepeated(RootType[f]) =>
                /\ \A x \in DeleteRepeatedField(m, f) : RootSize(x) <= RootSize(m)
                /\ \A x \in ShuffleRepeatedField(m, f) : RootSize(x) = RootSize(m)

-----------------------------------------------------------------------------
(* MessageMutation.                                                        *)

Top == Last(stack)
Type == TypeAt(Top.at)
Msg == MessageAt(root, Top.at)
F == Top.field
Size(m) == SizeAt(Top.at, m)

(* max_size = GetMessageSize(msg) + remain_size, first line of the helpers.*)
HelperMax == Size(Msg) + remain

InLoop == stack # <<>> /\ Top.into = 0 /\ F <= Len(Type)
InGroup == Type[F].oneof # 0
Repeated == ~InGroup /\ IsRepeated(Type[F])
Singular == ~InGroup /\ Type[F].kind = "scalar"
GroupOf == SetMembers(Type, Msg, F)

(* The end of the loop body: remain_size = max_size - msg->ByteSizeLong(). *)
EndField(m) ==
    /\ root' = PutAt(root, Top.at, m)
    /\ remain' = Top.max - Size(m)
    /\ stack' = [stack EXCEPT ![Len(stack)] = Frame(Top.at, Top.field + 1, Top.max)]
    /\ UNCHANGED call

(* Recursive calls on the messages in field f come next.                   *)
StartDescent(m, f, left) ==
    /\ root' = PutAt(root, Top.at, m)
    /\ remain' = left
    /\ stack' = [stack EXCEPT ![Len(stack)].into = f, ![Len(stack)].elem = 1]
    /\ UNCHANGED call

(* A helper returned; it left remain_size exact.  Elements of a repeated   *)
(* message field are mutated in turn, whatever was drawn.                  *)
Mutated(m) == IF Type[F].kind = "messages"
              THEN StartDescent(m, F, Top.max - Size(m))
              ELSE EndField(m)

(* A group is handled once, on its first field.                            *)
SkipMember == InLoop /\ InGroup /\ ~FirstOfGroup(Type, F) /\ EndField(Msg)

(* TryMutateField draws None, or runs past the allowed mutations.          *)
NoMutation ==
    /\ InLoop
    /\ (InGroup /\ FirstOfGroup(Type, F)) \/ Repeated \/ Singular
    /\ Mutated(Msg)

MutationAdd ==
    /\ InLoop
    /\ \/ InGroup /\ FirstOfGroup(Type, F) /\ GroupOf = {}
          /\ \E m \in AddUnsetField(Top.at, Msg, F, HelperMax) : Mutated(m)
       \/ Singular /\ Msg[F] = <<>>
          /\ \E m \in AddUnsetField(Top.at, Msg, F, HelperMax) : Mutated(m)
       \/ Repeated
          /\ \E m \in AddRepeatedField(Top.at, Msg, F, HelperMax) : Mutated(m)

(* Slip: the commented-out MUTATION_DELETE of groups enabled.              *)
DeleteAlsoGroups ==
    /\ InLoop
    /\ \/ Singular /\ Msg[F] # <<>> /\ \E m \in DeleteSetField(Msg, F) : Mutated(m)
       \/ Repeated /\ \E m \in DeleteRepeatedField(Msg, F) : Mutated(m)
       \/ InGroup /\ FirstOfGroup(Type, F) /\ \E h \in GroupOf :
             \E m \in DeleteSetField(Msg, h) : Mutated(m)

(* Groups are never deleted ("do not delete oneof field").                 *)
Delete ==
    /\ InLoop
    /\ \/ Singular /\ Msg[F] # <<>> /\ \E m \in DeleteSetField(Msg, F) : Mutated(m)
       \/ Repeated /\ \E m \in DeleteRepeatedField(Msg, F) : Mutated(m)

(* If the set member of a group is a message and stays the same member, it *)
(* is mutated recursively.                                                 *)
Mutate ==
    /\ InLoop
    /\ \/ Singular /\ Msg[F] # <<>>
          /\ \E m \in MutateSetField(Top.at, Msg, F, HelperMax) : Mutated(m)
       \/ Repeated /\ ~IsMessageType(Type[F])
          /\ \E m \in MutateRepeatedField(Top.at, Msg, F, HelperMax) : Mutated(m)
       \/ InGroup /\ FirstOfGroup(Type, F)
          /\ \E h \in GroupOf : \E m \in MutateSetField(Top.at, Msg, h, HelperMax) :
                IF m[h] # <<>> /\ IsMessageType(Type[h])
                THEN StartDescent(m, h, remain)
                ELSE Mutated(m)

Shuffle ==
    /\ InLoop
    /\ Repeated
    /\ \E m \in ShuffleRepeatedField(Msg, F) : Mutated(m)

(* A singular embedded message is created when unset (MutableMessage), and *)
(* then mutated; what creating it costs is not taken from remain_size.     *)
EnterMessage ==
    /\ InLoop
    /\ ~InGroup /\ Type[F].kind = "message"
    /\ StartDescent(IF Msg[F] = <<>> THEN SetField(Type, Msg, F, EmptyLeaf) ELSE Msg,
                    F, remain)

(* Slip: the element loop does not advance.                                *)
DescendAgain ==
    /\ stack # <<>> /\ Top.into # 0 /\ Top.elem <= Len(Msg[Top.into])
    /\ LET inner == Msg[Top.into][Top.elem]
       IN  stack' = Append(stack, Frame(<<Top.into, Top.elem>>, 1, LeafSize(inner) + remain))
    /\ UNCHANGED <<root, remain, call>>

(* The recursive call on the next element.                                 *)
Descend ==
    /\ stack # <<>> /\ Top.into # 0 /\ Top.elem <= Len(Msg[Top.into])
    /\ LET inner == Msg[Top.into][Top.elem]
       IN  stack' = Append([stack EXCEPT ![Len(stack)].elem = @ + 1],
                           Frame(<<Top.into, Top.elem>>, 1, LeafSize(inner) + remain))
    /\ UNCHANGED <<root, remain, call>>

EndDescent ==
    /\ stack # <<>> /\ Top.into # 0 /\ Top.elem > Len(Msg[Top.into])
    /\ EndField(Msg)

(* The loop of an activation is over; an empty stack is the end of Mutate. *)
Return ==
    /\ stack # <<>> /\ Top.into = 0 /\ F > Len(Type)
    /\ stack' = Front(stack)
    /\ UNCHANGED <<root, remain, call>>

Next ==
    \/ SkipMember \/ NoMutation \/ MutationAdd \/ Delete \/ Mutate \/ Shuffle
    \/ EnterMessage \/ Descend \/ EndDescent \/ Return

Spec == Init /\ [][Next]_vars

(* Mutate is one uninterrupted call of a single thread.                    *)
FairSpec == Spec /\ WF_vars(Next)

-----------------------------------------------------------------------------
Done == stack = <<>>

TypeOK ==
    /\ IsRoot(root)
    /\ remain \in Int
    /\ stack \in Seq([at : {<<>>} \cup ((DOMAIN RootType) \X (Nat \ {0})), field : Nat,
                      into : Nat, elem : Nat, max : Int])
    /\ Len(stack) <= 2
    /\ seed \in Seeds
    /\ maxSize \in Budgets

(* Mutate: "the result size does not exceed max_size" (mutator.h:68), for  *)
(* a message that is within max_size to begin with.                        *)
ResultFits == (Done /\ RootSize(seed) <= maxSize) => RootSize(root) <= maxSize

(* At every step the message is no larger than max_size, or than the seed  *)
(* if that was larger: what does not fit is taken back before it is seen.  *)
NeverGrowsPastLimit == RootSize(root) <= maxSize \/ RootSize(root) <= RootSize(seed)

(* A repeated field of the outer message shrinks only from more than       *)
(* MaxNewRepeated elements and by at most half of MaxNewRepeated, and grows*)
(* by at most MaxNewRepeated, over the whole call.                         *)
RepeatedLengths ==
    \A f \in DOMAIN RootType : IsRepeated(RootType[f]) =>
        LET old == Len(seed[f])
            lost == IF old <= MaxNewRepeated THEN 0 ELSE MaxNewRepeated \div 2
        IN  Len(root[f]) \in old - lost .. old + MaxNewRepeated

(* "do not delete oneof field": a group with a set member always has one,  *)
(* in the outer message and in the embedded message being mutated.         *)
GroupsStaySet ==
    [][ \A i \in DOMAIN stack \cap DOMAIN stack' :
            stack'[i].at = stack[i].at =>
            \A f \in DOMAIN TypeAt(stack[i].at) :
                SetMembers(TypeAt(stack[i].at), MessageAt(root, stack[i].at), f) # {}
                /\ TypeAt(stack[i].at)[f].oneof # 0
                => SetMembers(TypeAt(stack[i].at), MessageAt(root, stack[i].at)', f) # {}
      ]_vars

(* "If the index does not change, then mutate the field itself"            *)
(* (mutate_util.cpp:310, mutator.cpp:155): MutateSetField may give the set *)
(* scalar of a group another value, when one fits.  For a proto3 `optional`*)
(* scalar, a group of one, the index never changes.                        *)
SetMembersMutable ==
    InLoop /\ InGroup /\ FirstOfGroup(Type, F) =>
        \A h \in GroupOf :
            /\ ~IsMessageType(Type[h])
            /\ \E v \in Scalars :
                  <<v>> # Msg[h] /\ Size(SetField(Type, Msg, h, v)) <= HelperMax
            => \E m \in MutateSetField(Top.at, Msg, h, HelperMax) :
                  m[h] # <<>> /\ m[h] # Msg[h]

(* Mutate returns, however the fields and elements are mutated.            *)
Terminates == <>Done
=============================================================================
