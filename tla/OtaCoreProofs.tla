--------------------------- MODULE OtaCoreProofs ---------------------------
(* Proofs about application updates, for any tasks and sizes of the slots. *)
EXTENDS OtaCore, TLAPS

SessionType == [state : States, dry : BOOLEAN, bytes : Nat, total : Nat]
LocalType == [bytes : Nat, total : Nat, state : States, slot : SlotOrNone]

USE DEF ram, tasks, flash, history

----------------------------------------------------------------------------
(* Types. *)

LEMMA InitTyped == Init => TypeOK
<1> SUFFICES ASSUME Init PROVE TypeOK
    OBVIOUS
<1>1. session \in SessionType
    BY DEF Init, NoSession, SessionType, States
<1>2. local \in [Tasks -> LocalType]
    BY DEF Init, NoLocal, LocalType, States, SlotOrNone
<1>3. pc \in [Tasks -> Labels] /\ left \in [Tasks -> Nat]
    BY DEF Init, Labels
<1>4. image \in [Slots -> {"good", "torn"}] /\ boot \in Slots /\ running \in Slots
    BY DEF Init
<1>5. cancel \in BOOLEAN /\ part \in SlotOrNone /\ open \in BOOLEAN /\ headChecked \in BOOLEAN
      /\ job \in Uploaders \cup {None} /\ owners \subseteq Updaters /\ intruded \in BOOLEAN
    BY DEF Init, SlotOrNone
<1> QED
    BY <1>1, <1>2, <1>3, <1>4, <1>5 DEF TypeOK, SessionType, LocalType

\* What Leave(t) and Goto(t, label) do to the types of a task's state
LEMMA LeaveTyped ==
    ASSUME TypeOK, NEW t \in Tasks, Leave(t)
    PROVE  /\ pc' \in [Tasks -> Labels] /\ local' \in [Tasks -> LocalType]
           /\ left' \in [Tasks -> Nat]
<1>1. pc' \in [Tasks -> Labels]
    BY DEF TypeOK, Leave, Labels
<1>2. NoLocal \in LocalType
    BY DEF NoLocal, LocalType, States, SlotOrNone
<1>3. local' \in [Tasks -> LocalType]
    BY <1>2 DEF TypeOK, LocalType, Leave
<1>4. left' \in [Tasks -> Nat]
    BY DEF TypeOK, Leave
<1> QED
    BY <1>1, <1>3, <1>4

LEMMA GotoTyped ==
    ASSUME TypeOK, NEW t \in Tasks, NEW label \in Labels, Goto(t, label)
    PROVE  pc' \in [Tasks -> Labels]
    BY DEF TypeOK, Goto

LEMMA SlotsTyped ==
    /\ SlotA \in Slots /\ SlotB \in Slots /\ None \in SlotOrNone /\ None \notin Slots
    /\ \A s \in Slots : Other(s) \in Slots /\ Other(s) # s /\ s \in SlotOrNone
                        /\ Other(Other(s)) = s
    BY SlotsAssumption DEF Slots, SlotOrNone, Other

LEMMA SessionTyped == SetFailed /\ TypeOK => session' \in SessionType /\ open' \in BOOLEAN
    BY DEF SetFailed, TypeOK, SessionType, States

\* TypeOK from its parts, each by its name
LEMMA TypesTogether ==
    ASSUME session' \in SessionType, local' \in [Tasks -> LocalType],
           pc' \in [Tasks -> Labels], left' \in [Tasks -> Nat],
           image' \in [Slots -> {"good", "torn"}], boot' \in Slots, running' \in Slots,
           cancel' \in BOOLEAN, part' \in SlotOrNone, open' \in BOOLEAN, headChecked' \in BOOLEAN,
           job' \in Uploaders \cup {None}, owners' \subseteq Updaters, intruded' \in BOOLEAN
    PROVE  TypeOK'
    BY DEF TypeOK, SessionType, LocalType
\* What a step leaves alone keeps its type
LEMMA Untouched ==
    ASSUME TypeOK
    PROVE  /\ session' = session => session' \in SessionType
           /\ local' = local => local' \in [Tasks -> LocalType]
           /\ pc' = pc => pc' \in [Tasks -> Labels]
           /\ left' = left => left' \in [Tasks -> Nat]
           /\ image' = image => image' \in [Slots -> {"good", "torn"}]
           /\ boot' = boot => boot' \in Slots
           /\ running' = running => running' \in Slots
           /\ cancel' = cancel => cancel' \in BOOLEAN
           /\ part' = part => part' \in SlotOrNone
           /\ open' = open => open' \in BOOLEAN
           /\ headChecked' = headChecked => headChecked' \in BOOLEAN
           /\ job' = job => job' \in Uploaders \cup {None}
           /\ owners' = owners => owners' \subseteq Updaters
           /\ intruded' = intruded => intruded' \in BOOLEAN
    BY DEF TypeOK, SessionType, LocalType

LEMMA UpdateTyped ==
    ASSUME TypeOK, NEW t \in Updaters, Update(t)
    PROVE  TypeOK'
<1> USE DEF Ready, Totals
<1>0. t \in Tasks
    BY DEF Tasks
<1>a. ASSUME t \in Uploaders, Claim(t) \/ ClaimCheck(t) \/ Release(t)
      PROVE  TypeOK'
    <2>1. pc' \in [Tasks -> Labels]
        BY <1>a, <1>0, GotoTyped DEF Claim, ClaimCheck, Release, Labels
    <2>2. job' \in Uploaders \cup {None}
        BY <1>a DEF Claim, ClaimCheck, Release, TypeOK
    <2> QED
        BY <1>a, <2>1, <2>2, Untouched, TypesTogether DEF Claim, ClaimCheck, Release
<1>b. CASE PullCheck(t) \/ Look(t) \/ LeaveStaged(t) \/ Stop(t) \/ \E total \in Totals : BeginRefused(t, total)
    <2>1. pc' \in [Tasks -> Labels] /\ local' \in [Tasks -> LocalType] /\ left' \in [Tasks -> Nat]
        BY <1>b, <1>0, GotoTyped, LeaveTyped, Untouched
           DEF PullCheck, Look, LeaveStaged, Stop, BeginRefused, Labels
    <2>2. owners' \subseteq Updaters
        BY <1>b DEF PullCheck, Look, LeaveStaged, Stop, BeginRefused, TypeOK
    <2> QED
        BY <1>b, <2>1, <2>2, Untouched, TypesTogether
           DEF PullCheck, Look, LeaveStaged, Stop, BeginRefused
<1>c. ASSUME NEW total \in Totals, NEW size \in Totals, SetSource(t, total, size)
      PROVE  TypeOK'
    <2>1. total \in Nat /\ size \in Nat
        BY SizesAssumption
    <2>2. session' \in SessionType /\ left' \in [Tasks -> Nat]
        BY <1>c, <2>1, <1>0 DEF SetSource, TypeOK, SessionType
    <2>3. pc' \in [Tasks -> Labels]
        BY <1>c, <1>0, GotoTyped DEF SetSource, Labels
    <2> QED
        BY <1>c, <2>2, <2>3, Untouched, TypesTogether DEF SetSource
<1>d. ASSUME NEW total \in Totals, NEW dry \in BOOLEAN, Begin(t, total, dry)
      PROVE  TypeOK'
    <2>1. total \in Nat
        BY SizesAssumption
    <2>2. session' \in SessionType /\ left' \in [Tasks -> Nat]
        BY <1>d, <2>1, <1>0 DEF Begin, TypeOK, SessionType, NoSession, States
    <2>3. pc' \in [Tasks -> Labels]
        BY <1>d, <1>0, GotoTyped DEF Begin, Labels
    <2>4. cancel' \in BOOLEAN /\ owners' \subseteq Updaters
        BY <1>d DEF Begin, TypeOK
    <2> QED
        BY <1>d, <2>2, <2>3, <2>4, Untouched, TypesTogether DEF Begin
<1>e. ASSUME NEW ok \in BOOLEAN, Open(t, ok)
      PROVE  TypeOK'
    <2>1. pc' \in [Tasks -> Labels] /\ local' \in [Tasks -> LocalType] /\ left' \in [Tasks -> Nat]
        BY <1>e, <1>0, GotoTyped, LeaveTyped, Untouched DEF Open, Labels
    <2>2. session' \in SessionType /\ open' \in BOOLEAN
        BY <1>e, SessionTyped, Untouched DEF Open, TypeOK
    <2>3. part' \in SlotOrNone /\ headChecked' \in BOOLEAN
        BY <1>e, SlotsTyped DEF Open, TypeOK, UpdateSlot
    <2>4. image' \in [Slots -> {"good", "torn"}]
        BY <1>e DEF Open, Erased, TypeOK
    <2>5. owners' \subseteq Updaters
        BY <1>e DEF Open, TypeOK
    <2> QED
        BY <1>e, <2>1, <2>2, <2>3, <2>4, <2>5, Untouched, TypesTogether DEF Open
<1>f. ASSUME NEW ok \in BOOLEAN, Verify(t, ok)
      PROVE  TypeOK'
    <2>1. pc' \in [Tasks -> Labels]
        BY <1>f, <1>0, GotoTyped DEF Verify, Labels
    <2>2. open' \in BOOLEAN /\ image' \in [Slots -> {"good", "torn"}]
        BY <1>f DEF Verify, TypeOK
    <2> QED
        BY <1>f, <2>1, <2>2, Untouched, TypesTogether DEF Verify
<1>g. ASSUME NEW mine \in BOOLEAN, NEW ok \in BOOLEAN, Write(t, mine, ok)
      PROVE  TypeOK'
    <2>1. pc' \in [Tasks -> Labels]
        BY <1>g, <1>0, GotoTyped DEF Write, Labels
    <2>2. session.bytes \in Nat /\ left[t] \in Nat
        BY <1>0 DEF TypeOK
    <2>3. left' \in [Tasks -> Nat]
        BY <1>g, <2>2, <1>0 DEF Write, TypeOK
    <2>4. local' \in [Tasks -> LocalType]
        BY <1>g, <2>2, <1>0 DEF Write, TypeOK, LocalType
    <2>5. headChecked' \in BOOLEAN /\ image' \in [Slots -> {"good", "torn"}]
        BY <1>g DEF Write, TypeOK
    <2> QED
        BY <1>g, <2>1, <2>3, <2>4, <2>5, Untouched, TypesTogether DEF Write
<1>h. CASE Accept(t)
    <2>1. pc' \in [Tasks -> Labels]
        BY <1>h, <1>0, GotoTyped DEF Accept, Labels
    <2>2. session' \in SessionType
        BY <1>h, <1>0 DEF Accept, TypeOK, SessionType
    <2>3. local' \in [Tasks -> LocalType]
        BY <1>h, <1>0 DEF Accept, TypeOK, LocalType, NoLocal, States, SlotOrNone
    <2> QED
        BY <1>h, <2>1, <2>2, <2>3, Untouched, TypesTogether DEF Accept
<1>i. CASE Reject(t)
    <2>1. pc' \in [Tasks -> Labels] /\ local' \in [Tasks -> LocalType] /\ left' \in [Tasks -> Nat]
        BY <1>i, <1>0, GotoTyped, LeaveTyped, Untouched DEF Reject, Labels
    <2>2. session' \in SessionType /\ open' \in BOOLEAN /\ owners' \subseteq Updaters
        BY <1>i, SessionTyped DEF Reject, TypeOK
    <2> QED
        BY <1>i, <2>1, <2>2, Untouched, TypesTogether DEF Reject
<1>j. CASE Fail(t)
    <2>1. pc' \in [Tasks -> Labels] /\ local' \in [Tasks -> LocalType] /\ left' \in [Tasks -> Nat]
        BY <1>j, <1>0, LeaveTyped DEF Fail
    <2>2. session' \in SessionType
        BY <1>j DEF Fail, TypeOK, SessionType, States
    <2>3. open' \in BOOLEAN /\ owners' \subseteq Updaters /\ intruded' \in BOOLEAN
        BY <1>j DEF Fail, TypeOK
    <2> QED
        BY <1>j, <2>1, <2>2, <2>3, Untouched, TypesTogether DEF Fail
<1>k. CASE Finish(t)
    <2>1. pc' \in [Tasks -> Labels]
        BY <1>k, <1>0, GotoTyped DEF Finish, Labels
    <2>2. session' \in SessionType
        BY <1>k DEF Finish, TypeOK, SessionType, States
    <2> DEFINE l == [local EXCEPT ![t].bytes = session.bytes]
    <2>a. l \in [Tasks -> LocalType] /\ session.total \in Nat
        BY <1>0 DEF TypeOK, LocalType
    <2>b. local' = [l EXCEPT ![t].total = session.total]
        BY <1>k DEF Finish
    <2> HIDE DEF l
    <2>3. local' \in [Tasks -> LocalType]
        BY <1>0, <2>a, <2>b DEF LocalType
    <2> QED
        BY <1>k, <2>1, <2>2, <2>3, Untouched, TypesTogether DEF Finish
<1>l. CASE Conclude(t)
    <2>1. pc' \in [Tasks -> Labels] /\ local' \in [Tasks -> LocalType] /\ left' \in [Tasks -> Nat]
        BY <1>l, <1>0, GotoTyped, LeaveTyped, Untouched DEF Conclude, Labels
    <2>2. session' \in SessionType /\ open' \in BOOLEAN
        BY <1>l, SessionTyped DEF Conclude, TypeOK, SessionType, States
    <2>3. owners' \subseteq Updaters
        BY <1>l DEF Conclude, TypeOK
    <2> QED
        BY <1>l, <2>1, <2>2, <2>3, Untouched, TypesTogether DEF Conclude
<1> QED
    BY <1>a, <1>b, <1>c, <1>d, <1>e, <1>f, <1>g, <1>h, <1>i, <1>j, <1>k, <1>l DEF Update

LEMMA ChooseTyped ==
    ASSUME TypeOK, NEW t \in Tasks, Choose(t)
    PROVE  TypeOK'
<1>a. ASSUME NEW slot \in Slots \cup {None}, Activate(t, slot)
      PROVE  TypeOK'
    <2>1. pc' \in [Tasks -> Labels]
        BY <1>a, GotoTyped DEF Activate, Labels
    <2>2. session.state \in States /\ slot \in SlotOrNone
        BY DEF TypeOK, SlotOrNone
    <2> DEFINE l == [local EXCEPT ![t].state = session.state]
    <2>a. l \in [Tasks -> LocalType]
        BY <2>2 DEF TypeOK, LocalType
    <2>b. local' = [l EXCEPT ![t].slot = slot]
        BY <1>a DEF Activate
    <2> HIDE DEF l
    <2>3. local' \in [Tasks -> LocalType]
        BY <2>2, <2>a, <2>b DEF LocalType
    <2> QED
        BY <1>a, <2>1, <2>3, Untouched, TypesTogether DEF Activate
<1>b. ASSUME NEW ok \in BOOLEAN, Select(t, ok)
      PROVE  TypeOK'
    <2>1. pc' \in [Tasks -> Labels] /\ left' \in [Tasks -> Nat]
        BY <1>b, GotoTyped, LeaveTyped, Untouched DEF Select, Labels
    <2>2. local[t] \in LocalType
        BY DEF TypeOK, LocalType
    <2>3. Selectable(t) => Target(t) \in Slots /\ Target(t) \in SlotOrNone
        BY <2>2 DEF Selectable, Target, TypeOK, SlotOrNone, LocalType
    <2>4. boot' \in Slots
        BY <1>b, <2>3 DEF Select, TypeOK
    <2>5. local' \in [Tasks -> LocalType]
        BY <1>b, <2>3, LeaveTyped DEF Select, TypeOK, LocalType
    <2> QED
        BY <1>b, <2>1, <2>4, <2>5, Untouched, TypesTogether DEF Select
<1>c. CASE Selected(t)
    <2>1. pc' \in [Tasks -> Labels] /\ local' \in [Tasks -> LocalType] /\ left' \in [Tasks -> Nat]
        BY <1>c, LeaveTyped DEF Selected
    <2>2. session' \in SessionType /\ intruded' \in BOOLEAN
        BY <1>c DEF Selected, TypeOK, SessionType, States, NoSession
    <2> QED
        BY <1>c, <2>1, <2>2, Untouched, TypesTogether DEF Selected
<1>d. CASE Follow(t)
    BY <1>d, GotoTyped, Untouched, TypesTogether DEF Follow, Labels
<1>e. ASSUME NEW stageOnly \in BOOLEAN, Followed(t, stageOnly)
      PROVE  TypeOK'
    <2>1. pc' \in [Tasks -> Labels] /\ local' \in [Tasks -> LocalType] /\ left' \in [Tasks -> Nat]
        BY <1>e, GotoTyped, LeaveTyped, Untouched DEF Followed, Labels
    <2> QED
        BY <1>e, <2>1, Untouched, TypesTogether DEF Followed
<1> QED
    BY <1>a, <1>b, <1>c, <1>d, <1>e DEF Choose

LEMMA OthersTyped ==
    ASSUME TypeOK, Discard \/ Reset
    PROVE  TypeOK'
<1>a. CASE Discard
    <2>1. NoSession \in SessionType
        BY DEF NoSession, SessionType, States
    <2>2. session' \in SessionType /\ cancel' \in BOOLEAN
        BY <1>a, <2>1, Untouched DEF Discard
    <2> QED
        BY <1>a, <2>2, Untouched, TypesTogether DEF Discard
<1>b. CASE Reset
    <2>1. session' \in SessionType
        BY <1>b DEF Reset, NoSession, SessionType, States
    <2>2. local' \in [Tasks -> LocalType]
        BY <1>b DEF Reset, NoLocal, LocalType, States, SlotOrNone
    <2>3. pc' \in [Tasks -> Labels] /\ left' \in [Tasks -> Nat]
        BY <1>b DEF Reset, Labels
    <2>4. running' \in Slots /\ part' \in SlotOrNone
        BY <1>b, SlotsTyped DEF Reset, TypeOK
    <2>5. /\ cancel' \in BOOLEAN /\ open' \in BOOLEAN /\ headChecked' \in BOOLEAN
          /\ job' \in Uploaders \cup {None} /\ owners' \subseteq Updaters /\ intruded' \in BOOLEAN
        BY <1>b DEF Reset
    <2> QED
        BY <1>b, <2>1, <2>2, <2>3, <2>4, <2>5, Untouched, TypesTogether DEF Reset
<1> QED
    BY <1>a, <1>b

\* Type correctness, for any tasks, slots and sizes: TypeOK.
THEOREM Typed == Spec => []TypeOK
<1>1. TypeOK /\ [Next]_vars => TypeOK'
    <2> SUFFICES ASSUME TypeOK, [Next]_vars PROVE TypeOK'
        OBVIOUS
    <2>1. CASE Next
        BY <2>1, UpdateTyped, ChooseTyped, OthersTyped DEF Next
    <2>2. CASE UNCHANGED vars
        BY <2>2, Untouched, TypesTogether DEF vars
    <2> QED
        BY <2>1, <2>2
<1> QED
    BY InitTyped, <1>1, PTL DEF Spec
----------------------------------------------------------------------------
(* Who owns a session. *)

\* Where a task is between its begin and the end of its session, the ways there that go by
\* "stopped" and "failing" aside: a task may be there after its session has ended.
Holding == {"opening", "resolving", "transfer", "accepting", "rejecting",
            "verifying", "unverified", "counted", "verified"}

OwnersHold ==
    /\ \A t \in Tasks : pc[t] \in Holding => t \in owners
    /\ \A t \in owners : pc[t] \in Holding \cup {"stopped", "failing"}

\* Until somebody ends another's session, an owner is alone and its session in progress: this is
\* why a begin that finds none in progress finds no owner.
OneSession == ~intruded => OneUpdateAtATime /\ (owners # {} => InProgress(session.state))

Ownership == OwnersHold /\ InProgressIsOwned /\ OneSession

LEMMA LeaveMoves ==
    ASSUME TypeOK, NEW t \in Tasks, Leave(t)
    PROVE  /\ pc'[t] \in {"idle", "replying"}
           /\ \A u \in Tasks \ {t} : pc'[u] = pc[u] /\ local'[u] = local[u]
    BY DEF TypeOK, Leave

LEMMA GotoMoves ==
    ASSUME TypeOK, NEW t \in Tasks, NEW label, Goto(t, label)
    PROVE  pc'[t] = label /\ \A u \in Tasks \ {t} : pc'[u] = pc[u]
    BY DEF TypeOK, Goto

\* A step that takes t from one place to another outside Holding, or from one to another within
\* it, and leaves the session in progress or not as it was, keeps Ownership.
LEMMA Moves ==
    ASSUME TypeOK, Ownership, NEW t \in Tasks,
           \A u \in Tasks \ {t} : pc'[u] = pc[u],
           pc'[t] \in Holding => t \in owners,
           t \in owners => pc'[t] \in Holding \cup {"stopped", "failing"},
           InProgress(session'.state) <=> InProgress(session.state),
           UNCHANGED <<owners, intruded>>
    PROVE  Ownership'
<1>0. owners \subseteq Tasks
    BY DEF TypeOK, Tasks
<1>1. OwnersHold'
    BY <1>0 DEF Ownership, OwnersHold
<1> QED
    BY <1>1 DEF Ownership, InProgressIsOwned, OneSession, OneUpdateAtATime

\* A step with which t ends the session it owns keeps Ownership.
LEMMA Ends ==
    ASSUME TypeOK, Ownership, NEW t \in Tasks, t \in owners,
           \A u \in Tasks \ {t} : pc'[u] = pc[u],
           pc'[t] \notin Holding,
           ~InProgress(session'.state),
           owners' = owners \ {t}, intruded => intruded'
    PROVE  Ownership'
<1>0. owners \subseteq Tasks
    BY DEF TypeOK, Tasks
<1>1. OwnersHold'
    BY <1>0 DEF Ownership, OwnersHold
<1> QED
    BY <1>1 DEF Ownership, InProgressIsOwned, OneSession, OneUpdateAtATime

LEMMA UpdateOwns ==
    ASSUME TypeOK, Ownership, NEW t \in Updaters, Update(t)
    PROVE  Ownership'
<1>0. t \in Tasks
    BY DEF Tasks
<1>1. /\ pc[t] \in Holding => t \in owners
      /\ t \in owners => pc[t] \in Holding \cup {"stopped", "failing"}
    BY <1>0 DEF Ownership, OwnersHold
<1>a. CASE t \in Uploaders /\ (Claim(t) \/ ClaimCheck(t) \/ Release(t))
    BY <1>a, <1>0, <1>1, GotoMoves, Moves DEF Claim, ClaimCheck, Release, Holding
<1>b. CASE PullCheck(t) \/ LeaveStaged(t) \/ \E total \in Totals : BeginRefused(t, total)
    BY <1>b, <1>0, <1>1, GotoMoves, LeaveMoves, Moves
       DEF PullCheck, LeaveStaged, BeginRefused, Ready, Holding
<1>c. ASSUME NEW total \in Totals, NEW size \in Totals, SetSource(t, total, size)
      PROVE  Ownership'
    <2>1. session'.state = session.state
        BY <1>c DEF SetSource, TypeOK
    <2> QED
        BY <1>c, <2>1, <1>0, <1>1, GotoMoves, Moves DEF SetSource, Holding
<1>d. ASSUME NEW total \in Totals, NEW dry \in BOOLEAN, Begin(t, total, dry)
      PROVE  Ownership'
    <2>1. session'.state = "receiving" /\ pc'[t] = "opening" /\ owners' = owners \cup {t}
          /\ intruded' = intruded /\ \A u \in Tasks \ {t} : pc'[u] = pc[u]
        BY <1>d, <1>0, GotoMoves DEF Begin, NoSession
    <2>2. ~intruded => owners = {}
        BY <1>d DEF Begin, Ownership, OneSession
    <2>3. OwnersHold'
        BY <2>1, <1>0 DEF Ownership, OwnersHold, Holding, TypeOK, Tasks
    <2> QED
        BY <2>1, <2>2, <2>3
           DEF Ownership, InProgressIsOwned, OneSession, OneUpdateAtATime, InProgress
<1>e. ASSUME NEW ok \in BOOLEAN, Open(t, ok)
      PROVE  Ownership'
    <2>1. CASE ok
        BY <1>e, <2>1, <1>0, <1>1, GotoMoves, Moves DEF Open, Holding
    <2>2. CASE ~ok
        <3>1. session'.state = "failed"
            BY <1>e, <2>2 DEF Open, SetFailed, TypeOK
        <3> QED
            BY <1>e, <2>2, <3>1, <1>0, <1>1, LeaveMoves, Ends DEF Open, Holding, InProgress
    <2> QED
        BY <2>1, <2>2
<1>f. ASSUME NEW ok \in BOOLEAN, Verify(t, ok)
      PROVE  Ownership'
    BY <1>f, <1>0, <1>1, GotoMoves, Moves DEF Verify, Holding
<1>g. ASSUME NEW mine \in BOOLEAN, NEW ok \in BOOLEAN, Write(t, mine, ok)
      PROVE  Ownership'
    BY <1>g, <1>0, <1>1, GotoMoves, Moves DEF Write, Holding
<1>h. CASE Accept(t)
    <2>1. session'.state = session.state
        BY <1>h DEF Accept, TypeOK
    <2> QED
        BY <1>h, <2>1, <1>0, <1>1, GotoMoves, Moves DEF Accept, Holding
<1>i. CASE Reject(t)
    <2>1. session'.state = "failed"
        BY <1>i DEF Reject, SetFailed, TypeOK
    <2> QED
        BY <1>i, <2>1, <1>0, <1>1, GotoMoves, LeaveMoves, Ends DEF Reject, Holding, InProgress
<1>j. CASE Fail(t)
    <2>1. ~InProgress(session'.state)
        BY <1>j DEF Fail, TypeOK, InProgress
    <2>2. CASE t \in owners
        BY <1>j, <2>1, <2>2, <1>0, LeaveMoves, Ends DEF Fail, Holding
    <2>3. CASE t \notin owners
        <3>1. owners' = owners /\ (intruded' \/ owners = {}) /\ (intruded => intruded')
            BY <1>j, <2>3 DEF Fail
        <3>2. owners \subseteq Tasks
            BY DEF TypeOK, Tasks
        <3>3. pc'[t] \notin Holding /\ \A u \in Tasks \ {t} : pc'[u] = pc[u]
            BY <1>j, <1>0, LeaveMoves DEF Fail, Holding
        <3>4. OwnersHold'
            BY <2>3, <3>1, <3>2, <3>3 DEF Ownership, OwnersHold
        <3> QED
            BY <2>1, <3>1, <3>4
               DEF Ownership, InProgressIsOwned, OneSession, OneUpdateAtATime
    <2> QED
        BY <2>2, <2>3
<1>k. CASE Finish(t)
    <2>1. session'.state = "verifying" /\ pc'[t] = "verifying" /\ t \in owners
          /\ UNCHANGED history /\ \A u \in Tasks \ {t} : pc'[u] = pc[u]
        BY <1>k, <1>0, <1>1, GotoMoves DEF Finish, Holding, TypeOK
    <2>2. OwnersHold'
        BY <2>1, <1>0 DEF Ownership, OwnersHold, Holding, TypeOK, Tasks
    <2> QED
        BY <2>1, <2>2 DEF Ownership, InProgressIsOwned, OneSession, OneUpdateAtATime, InProgress
<1>l. CASE Conclude(t)
    <2>1. session'.state \in {"failed", "idle", "staged"}
        BY <1>l DEF Conclude, SetFailed, TypeOK
    <2> QED
        BY <1>l, <2>1, <1>0, <1>1, GotoMoves, LeaveMoves, Ends DEF Conclude, Holding, InProgress
<1>m. CASE Stop(t)
    BY <1>m, <1>0, <1>1, GotoMoves, Moves DEF Stop, Holding
<1>n. CASE Look(t)
    <2>1. CASE session.state = "failed"
        <3>1. pc'[t] \notin Holding /\ \A u \in Tasks \ {t} : pc'[u] = pc[u]
            BY <1>n, <2>1, <1>0, LeaveMoves DEF Look, Holding
        <3>2. session' = session /\ owners' = owners \ {t} /\ intruded' = intruded
            BY <1>n, <2>1 DEF Look
        <3>3. CASE t \in owners
            BY <2>1, <3>1, <3>2, <3>3, <1>0, Ends DEF InProgress
        <3>4. CASE t \notin owners
            BY <3>1, <3>2, <3>4, <1>0, Moves
        <3> QED
            BY <3>3, <3>4
    <2>2. CASE session.state # "failed"
        BY <1>n, <2>2, <1>0, <1>1, GotoMoves, Moves DEF Look, Holding
    <2> QED
        BY <2>1, <2>2
<1> QED
    BY <1>a, <1>b, <1>c, <1>d, <1>e, <1>f, <1>g, <1>h, <1>i, <1>j, <1>k, <1>l, <1>m, <1>n DEF Update

LEMMA ChooseOwns ==
    ASSUME TypeOK, Ownership, NEW t \in Tasks, Choose(t)
    PROVE  Ownership'
<1>1. /\ pc[t] \in Holding => t \in owners
      /\ t \in owners => pc[t] \in Holding \cup {"stopped", "failing"}
    BY DEF Ownership, OwnersHold
<1>a. ASSUME NEW slot \in Slots \cup {None}, Activate(t, slot)
      PROVE  Ownership'
    BY <1>a, <1>1, GotoMoves, Moves DEF Activate, Holding
<1>b. ASSUME NEW ok \in BOOLEAN, Select(t, ok)
      PROVE  Ownership'
    BY <1>b, <1>1, GotoMoves, LeaveMoves, Moves DEF Select, Holding
<1>c. CASE Selected(t)
    <2>1. session'.state = "active" /\ owners' = owners /\ (intruded' \/ owners = {})
          /\ (intruded => intruded')
        BY <1>c DEF Selected, NoSession, TypeOK
    <2>2. pc'[t] \notin Holding /\ t \notin owners /\ \A u \in Tasks \ {t} : pc'[u] = pc[u]
        BY <1>c, <1>1, LeaveMoves DEF Selected, Holding
    <2>3. OwnersHold'
        BY <2>1, <2>2 DEF Ownership, OwnersHold, TypeOK, Tasks
    <2> QED
        BY <2>1, <2>3
           DEF Ownership, InProgressIsOwned, OneSession, OneUpdateAtATime, InProgress
<1>d. CASE Follow(t)
    BY <1>d, <1>1, GotoMoves, Moves DEF Follow, Holding
<1>e. ASSUME NEW stageOnly \in BOOLEAN, Followed(t, stageOnly)
      PROVE  Ownership'
    BY <1>e, <1>1, GotoMoves, LeaveMoves, Moves DEF Followed, Holding
<1> QED
    BY <1>a, <1>b, <1>c, <1>d, <1>e DEF Choose

LEMMA InitOwns == Init => Ownership
    BY DEF Init, Ownership, OwnersHold, InProgressIsOwned, OneSession, OneUpdateAtATime,
           Holding, NoSession, InProgress

LEMMA OthersOwn ==
    ASSUME TypeOK, Ownership, Discard \/ Reset
    PROVE  Ownership'
<1>a. CASE Discard
    <2>1. InProgress(session'.state) <=> InProgress(session.state)
        BY <1>a DEF Discard, NoSession, InProgress
    <2>2. UNCHANGED <<pc, owners, intruded>>
        BY <1>a DEF Discard
    <2> QED
        BY <2>1, <2>2 DEF Ownership, OwnersHold, InProgressIsOwned, OneSession, OneUpdateAtATime
<1>b. CASE Reset
    BY <1>b DEF Reset, Ownership, OwnersHold, InProgressIsOwned, OneSession, OneUpdateAtATime,
                Holding, NoSession, InProgress
<1> QED
    BY <1>a, <1>b

THEOREM Owned == Spec => []Ownership
<1>1. TypeOK /\ Ownership /\ [Next]_vars => Ownership'
    <2> SUFFICES ASSUME TypeOK, Ownership, [Next]_vars PROVE Ownership'
        OBVIOUS
    <2>1. CASE Next
        BY <2>1, UpdateOwns, ChooseOwns, OthersOwn DEF Next
    <2>2. CASE UNCHANGED vars
        BY <2>2 DEF vars, Ownership, OwnersHold, InProgressIsOwned, OneSession, OneUpdateAtATime
    <2> QED
        BY <2>1, <2>2
<1> QED
    BY InitOwns, Typed, <1>1, PTL DEF Spec

\* At most one update at a time, until a task ends a session that is not its own: Exclusive.
THEOREM ExclusiveHolds == Spec => []Exclusive
<1>1. Ownership => Exclusive
    BY DEF Ownership, OneSession, Exclusive
<1> QED
    BY Owned, <1>1, PTL

\* Every update that shows as in progress has a task that brings it: InProgressIsOwned.
THEOREM InProgressOwned == Spec => []InProgressIsOwned
<1>1. Ownership => InProgressIsOwned
    BY DEF Ownership
<1> QED
    BY Owned, <1>1, PTL

----------------------------------------------------------------------------
(* The slot an update writes is never the one running. *)

\* Where s_part is the update's, begin's rest being done
Writing == Holding \ {"opening"}

SparePart ==
    /\ part \in {None, UpdateSlot}
    /\ \A t \in Tasks : pc[t] \in Writing => part = UpdateSlot
    /\ image[running] = "good"

\* A step that leaves s_part and the flash alone, and takes t there only from there
LEMMA SpareMoves ==
    ASSUME TypeOK, SparePart, NEW t \in Tasks,
           \A u \in Tasks \ {t} : pc'[u] = pc[u],
           pc'[t] \in Writing => part = UpdateSlot,
           image'[running] = "good",
           UNCHANGED <<part, running>>
    PROVE  SparePart'
    BY DEF SparePart, UpdateSlot

LEMMA UpdateSpares ==
    ASSUME TypeOK, SparePart, NEW t \in Updaters, Update(t)
    PROVE  SparePart'
<1>0. t \in Tasks
    BY DEF Tasks
<1>1. pc[t] \in Writing => part = UpdateSlot
    BY <1>0 DEF SparePart
<1>2. image[running] = "good"
    BY DEF SparePart
<1> USE DEF Writing, Holding
<1>a. CASE t \in Uploaders /\ (Claim(t) \/ ClaimCheck(t) \/ Release(t))
    BY <1>a, <1>0, <1>2, GotoMoves, SpareMoves DEF Claim, ClaimCheck, Release
<1>b. CASE PullCheck(t) \/ LeaveStaged(t) \/ Stop(t) \/ Look(t) \/ Fail(t)
           \/ \E total \in Totals : BeginRefused(t, total)
    BY <1>b, <1>0, <1>2, GotoMoves, LeaveMoves, SpareMoves
       DEF PullCheck, LeaveStaged, Stop, Look, Fail, BeginRefused
<1>c. CASE Accept(t) \/ Reject(t) \/ Finish(t) \/ Conclude(t)
           \/ \E total, size \in Totals : SetSource(t, total, size)
    BY <1>c, <1>0, <1>1, <1>2, GotoMoves, LeaveMoves, SpareMoves
       DEF Accept, Reject, Finish, Conclude, SetSource
<1>d. CASE \E total \in Totals, dry \in BOOLEAN : Begin(t, total, dry)
    BY <1>d, <1>0, <1>2, GotoMoves, SpareMoves DEF Begin
<1>e. ASSUME NEW ok \in BOOLEAN, Open(t, ok)
      PROVE  SparePart'
    <2>1. part' = UpdateSlot /\ UNCHANGED running
        BY <1>e DEF Open
    <2>2. UpdateSlot # running
        BY SlotsTyped DEF UpdateSlot, TypeOK
    <2>3. image'[running] = "good"
        BY <1>e, <1>2, <2>2 DEF Open, Erased, TypeOK
    <2> QED
        BY <2>1, <2>3 DEF SparePart, UpdateSlot
<1>f. ASSUME NEW ok \in BOOLEAN, Verify(t, ok)
      PROVE  SparePart'
    <2>1. part = UpdateSlot /\ UNCHANGED <<part, running>> /\ pc[t] = "verifying"
        BY <1>f, <1>1 DEF Verify
    <2>2. image'[running] = "good"
        BY <1>f, <1>2 DEF Verify, TypeOK
    <2>3. \A u \in Tasks \ {t} : pc'[u] = pc[u]
        BY <1>f, <1>0, GotoMoves DEF Verify
    <2> QED
        BY <2>1, <2>2, <2>3, <1>0, SpareMoves
<1>g. ASSUME NEW mine \in BOOLEAN, NEW ok \in BOOLEAN, Write(t, mine, ok)
      PROVE  SparePart'
    <2>1. part = UpdateSlot /\ UNCHANGED <<part, running>>
        BY <1>g, <1>1 DEF Write
    <2>2. UpdateSlot # running
        BY SlotsTyped DEF UpdateSlot, TypeOK
    <2>3. image'[running] = "good"
        BY <1>g, <1>2, <2>1, <2>2 DEF Write, TypeOK
    <2>4. \A u \in Tasks \ {t} : pc'[u] = pc[u]
        BY <1>g, <1>0, GotoMoves DEF Write
    <2> QED
        BY <2>1, <2>3, <2>4, <1>0, SpareMoves
<1> QED
    BY <1>a, <1>b, <1>c, <1>d, <1>e, <1>f, <1>g DEF Update

LEMMA ChooseSpares ==
    ASSUME TypeOK, SparePart, NEW t \in Tasks, Choose(t)
    PROVE  SparePart'
<1>1. image[running] = "good"
    BY DEF SparePart
<1> QED
    BY <1>1, GotoMoves, LeaveMoves, SpareMoves
       DEF Choose, Activate, Select, Selected, Follow, Followed, Writing, Holding

\* After a reset too: the bootloader finds a whole image in the slot chosen, or takes the other,
\* which is then the one that was running.
LEMMA ResetSpares ==
    ASSUME TypeOK, SparePart, Reset
    PROVE  SparePart'
<1>1. image[boot] = "good" \/ Other(boot) = running
    BY SlotsTyped DEF SparePart, TypeOK, Slots, Other
<1>2. image'[running'] = "good"
    BY <1>1 DEF Reset, SparePart
<1> QED
    BY <1>2 DEF Reset, SparePart, Writing, Holding

THEOREM Spared == Spec => []SparePart
<1>1. Init => SparePart
    BY DEF Init, SparePart, Writing, Holding
<1>2. TypeOK /\ SparePart /\ [Next]_vars => SparePart'
    <2> SUFFICES ASSUME TypeOK, SparePart, [Next]_vars PROVE SparePart'
        OBVIOUS
    <2>1. CASE Discard \/ UNCHANGED vars
        BY <2>1 DEF Discard, vars, SparePart, UpdateSlot
    <2> QED
        BY <2>1, UpdateSpares, ChooseSpares, ResetSpares DEF Next
<1> QED
    BY Typed, <1>1, <1>2, PTL DEF Spec

\* At every step, a reset comes up on a working image: AlwaysBoots.
THEOREM Boots == Spec => []AlwaysBoots
<1>1. TypeOK /\ SparePart => AlwaysBoots
    BY SlotsTyped DEF SparePart, TypeOK, AlwaysBoots, Slots, Other
<1> QED
    BY Typed, Spared, <1>1, PTL
----------------------------------------------------------------------------
(* What is staged, and the handle. *)

Verifying == {"verifying", "unverified", "counted", "verified"}

Whole ==
    /\ part # None /\ image[part] = "good"
    /\ session.total # 0 => session.bytes = session.total
    /\ ~cancel

\* What a task that verifies read of the session is still so: the session is its own, and nobody
\* cancels one that is no longer receiving.
Undisturbed(t) ==
    /\ pc[t] \in {"counted", "verified"} => ~open
    /\ pc[t] \in Verifying =>
        /\ session.state = "verifying"
        /\ local[t].bytes = session.bytes /\ local[t].total = session.total
    /\ pc[t] = "verified" => Whole

Staging ==
    ~intruded =>
        /\ open => owners # {}
        /\ \A t \in Tasks : Undisturbed(t)
        /\ session.state = "staged" => Whole

LEMMA Alone ==
    ASSUME TypeOK, Ownership, ~intruded, NEW t \in Tasks, pc[t] \in Holding
    PROVE  /\ \A u \in Tasks \ {t} : pc[u] \notin Holding
           /\ owners = {t} /\ InProgress(session.state)
    BY DEF Ownership, OwnersHold, OneSession, OneUpdateAtATime, TypeOK, Tasks

\* A step of the session's owner: only what it does to its own place is to be looked at
LEMMA OwnerStages ==
    ASSUME TypeOK, Ownership, ~intruded, NEW t \in Tasks, pc[t] \in Holding,
           \A u \in Tasks \ {t} : pc'[u] = pc[u],
           open' => owners' # {},
           Undisturbed(t)',
           session'.state # "staged" \/ Whole'
    PROVE  Staging'
<1>1. \A u \in Tasks \ {t} : pc'[u] \notin Holding
    BY Alone
<1>2. \A u \in Tasks \ {t} : Undisturbed(u)'
    BY <1>1 DEF Undisturbed, Verifying, Holding
<1> QED
    BY <1>2 DEF Staging

\* A step outside any session, or that only leaves it
LEMMA OtherStages ==
    ASSUME TypeOK, Staging, ~intruded, NEW t \in Tasks,
           pc'[t] \notin Verifying,
           \A u \in Tasks \ {t} : pc'[u] = pc[u] /\ local'[u] = local[u],
           UNCHANGED <<session, cancel, part, open, image, owners>>
    PROVE  Staging'
<1>1. Whole => Whole'
    BY DEF Whole
<1>2. \A u \in Tasks \ {t} : Undisturbed(u)'
    BY <1>1 DEF Staging, Undisturbed
<1>3. Undisturbed(t)'
    BY DEF Undisturbed, Verifying
<1> QED
    BY <1>1, <1>2, <1>3 DEF Staging

LEMMA UpdateStages ==
    ASSUME TypeOK, Ownership, SparePart, Staging, ~intruded', NEW t \in Updaters, Update(t)
    PROVE  Staging'
<1>0. t \in Tasks
    BY DEF Tasks
<1>1. ~intruded
    BY DEF Update, Claim, ClaimCheck, Release, PullCheck, SetSource, BeginRefused, Begin, Open,
           Verify, Write, Accept, Reject, Stop, Look, Fail, Finish, Conclude, LeaveStaged
<1>2. pc[t] \in Holding => t \in owners /\ InProgress(session.state)
    BY <1>0, <1>1, Alone
<1>3. Undisturbed(t)
    BY <1>0, <1>1 DEF Staging
<1> USE DEF Holding
<1>a. CASE t \in Uploaders /\ (Claim(t) \/ ClaimCheck(t) \/ Release(t))
    BY <1>a, <1>0, <1>1, GotoMoves, OtherStages DEF Claim, ClaimCheck, Release, Verifying
<1>b. CASE PullCheck(t) \/ LeaveStaged(t) \/ Stop(t) \/ \E total \in Totals : BeginRefused(t, total)
    BY <1>b, <1>0, <1>1, GotoMoves, LeaveMoves, OtherStages
       DEF PullCheck, LeaveStaged, Stop, BeginRefused, Verifying
<1>c. CASE Look(t)
    <2>1. session.state = "failed" => t \notin owners
        BY <1>1 DEF Ownership, OneSession, InProgress
    <2>2. UNCHANGED owners
        BY <1>c, <2>1 DEF Look
    <2> QED
        BY <1>c, <2>2, <1>0, <1>1, GotoMoves, LeaveMoves, OtherStages DEF Look, Verifying
<1>d. CASE Fail(t)
    <2>1. \/ owners' = {} /\ ~open' /\ session'.state # "staged"
          \/ UNCHANGED session /\ ~open' /\ owners' = {}
        BY <1>d DEF Fail, TypeOK
    <2>2. \A u \in Tasks \ {t} : pc[u] \notin Holding
        BY <1>0, <1>1, <1>d DEF Fail, Ownership, OwnersHold
    <2>3. \A u \in Tasks \ {t} : pc'[u] = pc[u]
        BY <1>d, <1>0, LeaveMoves DEF Fail
    <2>4. pc'[t] \notin Verifying
        BY <1>d, <1>0, LeaveMoves DEF Fail, Verifying
    <2>5. \A u \in Tasks : Undisturbed(u)'
        BY <2>2, <2>3, <2>4 DEF Undisturbed, Verifying
    <2>6. session'.state = "staged" => Whole'
        BY <1>d, <1>1, <2>1 DEF Fail, Staging, Whole
    <2> QED
        BY <2>1, <2>5, <2>6 DEF Staging
<1>e. ASSUME NEW total \in Totals, NEW dry \in BOOLEAN, Begin(t, total, dry)
      PROVE  Staging'
    <2>1. owners = {}
        BY <1>e, <1>1 DEF Begin, Ownership, OneSession
    <2>2. ~open' /\ session'.state = "receiving"
        BY <1>e, <1>1, <2>1 DEF Begin, Staging, NoSession
    <2>3. pc'[t] = "opening" /\ \A u \in Tasks \ {t} : pc'[u] = pc[u]
        BY <1>e, <1>0, GotoMoves DEF Begin
    <2>4. \A u \in Tasks : pc'[u] \notin Verifying
        BY <2>1, <2>3 DEF Ownership, OwnersHold, Verifying
    <2> QED
        BY <2>2, <2>4 DEF Staging, Undisturbed, Verifying
<1>f. CASE \E ok \in BOOLEAN : Open(t, ok)
    <2>1. PICK ok \in BOOLEAN : Open(t, ok)
        BY <1>f
    <2>2. pc'[t] \notin Verifying /\ pc[t] \in Holding /\ \A u \in Tasks \ {t} : pc'[u] = pc[u]
        BY <2>1, <1>0, GotoMoves, LeaveMoves DEF Open, Verifying
    <2>3. session'.state # "staged"
        BY <2>1, <2>2, <1>2 DEF Open, SetFailed, InProgress, TypeOK
    <2>4. open' => owners' # {}
        BY <2>1, <2>2, <1>2 DEF Open, SetFailed
    <2> QED
        BY <2>2, <2>3, <2>4, <1>0, <1>1, OwnerStages DEF Undisturbed, Verifying
<1>g. CASE (\E total, size \in Totals : SetSource(t, total, size)) \/ Accept(t)
           \/ (\E mine, ok \in BOOLEAN : Write(t, mine, ok))
    <2>1. pc'[t] \notin Verifying /\ pc[t] \in Holding /\ \A u \in Tasks \ {t} : pc'[u] = pc[u]
        BY <1>g, <1>0, GotoMoves DEF SetSource, Accept, Write, Verifying
    <2>2. session'.state = session.state /\ UNCHANGED owners
        BY <1>g DEF SetSource, Accept, Write, TypeOK
    <2> QED
        BY <2>1, <2>2, <1>0, <1>1, <1>2, OwnerStages DEF Undisturbed, Verifying, InProgress
<1>h. CASE Reject(t)
    <2>1. pc'[t] \notin Verifying /\ pc[t] \in Holding /\ \A u \in Tasks \ {t} : pc'[u] = pc[u]
        BY <1>h, <1>0, GotoMoves, LeaveMoves DEF Reject, Verifying
    <2>2. session'.state = "failed" /\ ~open'
        BY <1>h DEF Reject, SetFailed, TypeOK
    <2> QED
        BY <2>1, <2>2, <1>0, <1>1, OwnerStages DEF Undisturbed, Verifying
<1>i. CASE Finish(t)
    <2>1. pc'[t] = "verifying" /\ pc[t] \in Holding /\ \A u \in Tasks \ {t} : pc'[u] = pc[u]
        BY <1>i, <1>0, GotoMoves DEF Finish
    <2>2. session'.state = "verifying" /\ session'.bytes = session.bytes
          /\ session'.total = session.total /\ UNCHANGED owners
        BY <1>i DEF Finish, TypeOK
    <2>3. local'[t].bytes = session.bytes /\ local'[t].total = session.total
        BY <1>i, <1>0 DEF Finish, TypeOK
    <2> QED
        BY <2>1, <2>2, <2>3, <1>0, <1>1, <1>2, OwnerStages DEF Undisturbed, Verifying
<1>j. CASE \E ok \in BOOLEAN : Verify(t, ok)
    <2>1. PICK ok \in BOOLEAN : Verify(t, ok)
        BY <1>j
    <2>2. pc'[t] \in Verifying /\ pc[t] = "verifying" /\ \A u \in Tasks \ {t} : pc'[u] = pc[u]
        BY <2>1, <1>0, GotoMoves DEF Verify, Verifying
    <2>3. session.state = "verifying" /\ local[t].bytes = session.bytes
          /\ local[t].total = session.total
        BY <2>2, <1>3 DEF Undisturbed, Verifying
    <2>4. UNCHANGED <<session, cancel, part, local, owners>>
        BY <2>1 DEF Verify
    <2> DEFINE good == ~Unfit(t) /\ ok /\ (session.dry \/ open)
    <2>a. pc' = [pc EXCEPT ![t] = IF ~good THEN "unverified"
                                  ELSE IF session.dry THEN "counted" ELSE "verified"]
        BY <2>1 DEF Verify, Goto
    <2>b. open' <=> open /\ ~good
        BY <2>1 DEF Verify
    <2>5. pc'[t] \in {"counted", "verified"} => ~open'
        <3> HIDE DEF good
        <3> QED
            BY <2>a, <2>b, <1>0 DEF TypeOK
    <2>6. pc'[t] = "verified" => Whole'
        <3>1. part \in Slots
            BY <2>2, <1>0, SlotsTyped DEF SparePart, Writing, UpdateSlot, TypeOK
        <3>2. ASSUME pc'[t] = "verified"
              PROVE  ~Unfit(t) /\ ok /\ image' = [image EXCEPT ![part] = "good"]
            BY <2>1, <3>2, <1>0, GotoMoves DEF Verify
        <3> QED
            BY <3>1, <3>2, <2>3, <2>4, SlotsTyped DEF Unfit, Whole, TypeOK
    <2> QED
        BY <2>2, <2>3, <2>4, <2>5, <2>6, <1>0, <1>1, <1>2, OwnerStages DEF Undisturbed
<1>k. CASE Conclude(t)
    <2>1. pc'[t] \notin Verifying /\ pc[t] \in Holding /\ \A u \in Tasks \ {t} : pc'[u] = pc[u]
        BY <1>k, <1>0, GotoMoves, LeaveMoves DEF Conclude, Verifying
    <2>2. ~open'
        BY <1>k, <1>3 DEF Conclude, SetFailed, Undisturbed
    <2>3. session'.state = "staged" => pc[t] = "verified" /\ session'.bytes = session.bytes
                                       /\ session'.total = session.total
        BY <1>k DEF Conclude, SetFailed, TypeOK
    <2>4. session'.state = "staged" => Whole'
        BY <1>k, <1>3, <2>3 DEF Conclude, Undisturbed, Whole
    <2> QED
        BY <2>1, <2>2, <2>4, <1>0, <1>1, OwnerStages DEF Undisturbed, Verifying
<1> QED
    BY <1>a, <1>b, <1>c, <1>d, <1>e, <1>f, <1>g, <1>h, <1>i, <1>j, <1>k DEF Update

LEMMA ChooseStages ==
    ASSUME TypeOK, Ownership, Staging, ~intruded', NEW t \in Tasks, Choose(t)
    PROVE  Staging'
<1>1. ~intruded
    BY DEF Choose, Activate, Select, Selected, Follow, Followed
<1>a. ASSUME NEW slot \in Slots \cup {None}, Activate(t, slot)
      PROVE  Staging'
    <2> DEFINE l == [local EXCEPT ![t].state = session.state]
    <2>a. local' = [l EXCEPT ![t].slot = slot] /\ DOMAIN local = Tasks
        BY <1>a DEF Activate, TypeOK
    <2>b. \A u \in Tasks \ {t} : l[u] = local[u] /\ DOMAIN l = Tasks
        BY <2>a
    <2>1. \A u \in Tasks \ {t} : local'[u] = local[u]
        <3> HIDE DEF l
        <3> QED
            BY <2>a, <2>b
    <2>2. pc'[t] \notin Verifying /\ \A u \in Tasks \ {t} : pc'[u] = pc[u]
        BY <1>a, GotoMoves DEF Activate, Verifying
    <2>3. UNCHANGED <<session, cancel, part, open, image, owners>>
        BY <1>a DEF Activate
    <2> QED
        BY <2>1, <2>2, <2>3, <1>1, OtherStages
<1>b. ASSUME NEW ok \in BOOLEAN, Select(t, ok)
      PROVE  Staging'
    <2>1. \A u \in Tasks \ {t} : local'[u] = local[u]
        BY <1>b, LeaveMoves DEF Select, TypeOK
    <2> QED
        BY <1>b, <2>1, <1>1, GotoMoves, LeaveMoves, OtherStages DEF Select, Verifying
<1>c. CASE Selected(t)
    <2>1. owners = {} /\ owners' = {} /\ open' = open /\ session'.state = "active"
        BY <1>c DEF Selected, NoSession, TypeOK
    <2>2. pc'[t] \notin Verifying /\ \A u \in Tasks \ {t} : pc'[u] = pc[u]
        BY <1>c, LeaveMoves DEF Selected, Verifying
    <2>3. \A u \in Tasks : pc'[u] \notin Verifying
        BY <2>1, <2>2 DEF Ownership, OwnersHold, Verifying, Holding
    <2> QED
        BY <2>1, <2>3, <1>1 DEF Staging, Undisturbed, Verifying
<1>d. CASE Follow(t)
    BY <1>d, <1>1, GotoMoves, OtherStages DEF Follow, Verifying
<1>e. ASSUME NEW stageOnly \in BOOLEAN, Followed(t, stageOnly)
      PROVE  Staging'
    <2>1. \A u \in Tasks \ {t} : local'[u] = local[u]
        BY <1>e, LeaveMoves DEF Followed, TypeOK
    <2> QED
        BY <1>e, <2>1, <1>1, GotoMoves, LeaveMoves, OtherStages DEF Followed, Verifying
<1> QED
    BY <1>a, <1>b, <1>c, <1>d, <1>e DEF Choose

LEMMA DiscardStages ==
    ASSUME TypeOK, Ownership, Staging, ~intruded', Discard
    PROVE  Staging'
<1>1. ~intruded /\ UNCHANGED <<pc, local, open, owners, part, image>>
    BY DEF Discard
<1>2. \A t \in Tasks : pc[t] \notin Verifying
    BY <1>1 DEF Discard, Staging, Undisturbed
<1>3. session'.state # "staged"
    BY DEF Discard, NoSession
<1> QED
    BY <1>1, <1>2, <1>3 DEF Staging, Undisturbed, Verifying

THEOREM Staged == Spec => []Staging
<1>1. Init => Staging
    BY DEF Init, Staging, Undisturbed, Verifying, NoSession
<1>2. TypeOK /\ Ownership /\ SparePart /\ Staging /\ [Next]_vars => Staging'
    <2> SUFFICES ASSUME TypeOK, Ownership, SparePart, Staging, [Next]_vars, ~intruded'
                 PROVE  Staging'
        BY DEF Staging
    <2>1. CASE Reset
        BY <2>1 DEF Reset, Staging, Undisturbed, Verifying, NoSession
    <2>2. CASE UNCHANGED vars
        BY <2>2 DEF vars, Staging, Undisturbed, Verifying, Whole
    <2> QED
        BY <2>1, <2>2, UpdateStages, ChooseStages, DiscardStages DEF Next
<1> QED
    BY Typed, Owned, Spared, <1>1, <1>2, PTL DEF Spec

\* No session that ends leaves the handle of its image open: HandleIsOwned.
THEOREM HandleOwned == Spec => []HandleIsOwned
<1>1. Staging => HandleIsOwned
    BY DEF Staging, HandleIsOwned
<1> QED
    BY Staged, <1>1, PTL

\* A staged image is whole, all of what was announced, and was not cancelled: StagedIsWhole.
THEOREM StagedWhole == Spec => []StagedIsWhole
<1>1. Staging => StagedIsWhole
    BY DEF Staging, StagedIsWhole, Whole
<1> QED
    BY Staged, <1>1, PTL
=============================================================================
