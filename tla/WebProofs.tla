----------------------------- MODULE WebProofs -----------------------------
(***************************************************************************)
(* What the web server promises: its event streams, for any publishers,    *)
(* sockets, places and ring, and its settings and routes, for any names,   *)
(* origins and routes.                                                     *)
(*                                                                         *)
(* That all is delivered once all is quiet says nothing of the steps       *)
(* before.  What they keep is that nothing is forgotten: whatever a stream *)
(* was not sent is at a publisher still, or a flush comes that sends it    *)
(* (StatesOwed, HappeningsOwed), and that flush is one that asks, waits,   *)
(* runs, or was refused (FlushComes).  The settings likewise: what is in   *)
(* effect is what is stored, or who stored it is about to load it.         *)
(***************************************************************************)
EXTENDS MCWeb, EventsProofs, SequenceTheorems

----------------------------------------------------------------------------
(* The event streams. *)

SrvRecord ==
    [pc : {"idle", "want", "wantReplay", "replay", "take", "states", "happenings"},
     rest : SUBSET StateKinds, at : 0 .. MaxStreams]
StreamRecord == [fd : Fds \cup {NoFd}, want : SUBSET Kinds, seq : Nat]

WebTyped ==
    /\ httpd \in {"off", "on", "ended"} /\ work \in Seq({"flush", "shutdown"})
    /\ queued \in BOOLEAN /\ asking \in SUBSET Publishers
    /\ srv \in SrvRecord /\ con \in {"idle", "want", "stop", "wait"}
    /\ conns \in SUBSET Fds /\ closing \in SUBSET conns
    /\ streams \in [Places -> StreamRecord]
    /\ sent \in [StateKinds -> -1 .. 1] /\ value \in [StateKinds -> 0 .. 1]
    /\ refused \in {"no", "refused", "swallowed"}
    /\ shown \in [Places -> [StateKinds -> Unmade .. 1]]
    /\ base \in [Places -> Nat] /\ upto \in [Places -> Nat]
    /\ had \in [Places -> SUBSET Nat] /\ missed \in [Places -> SUBSET Nat]

\* The server's task is at a place when it works on one; a server that is off has no connections
Placed ==
    /\ srv.pc \in {"want", "wantReplay", "replay", "happenings"} => srv.at \in Places
    /\ httpd = "off" => conns = {}

FlushWaits == \E m \in 1 .. Len(work) : work[m] = "flush"

\* s_queued is set only while a flush is on its way
QueuedIsAsked == queued => asking # {} \/ FlushWaits \/ refused = "swallowed"

Opening(i) == srv.pc \in {"want", "wantReplay"} /\ srv.at = i
ListenerWants(k) == id[Web] # -1 /\ k \in sinks[id[Web]].want

\* The listener wants what the streams do, but for one that is being opened and was shown nothing
StreamsAreHeard ==
    \A i \in Places : Open(i) => \A k \in streams[i].want :
       \/ ListenerWants(k)
       \/ Opening(i) /\ (k \in StateKinds => shown[i][k] = Never)

\* What was sent last was sent to all
SentIsShown ==
    \A i \in Places : Open(i) => \A k \in streams[i].want \cap StateKinds :
       sent[k] # -1 => shown[i][k] \in {sent[k], Unmade}

\* A flush will come that takes what is marked and reads what is kept from here on
FlushComes ==
    \/ id[Web] # -1 /\ \E p \in Publishers : pub[p].fns[id[Web]] = Web
    \/ asking # {} \/ FlushWaits \/ srv.pc = "take" \/ refused # "no"

\* A state that is not what a stream was shown has a publisher about to mark it, is marked for a
\* flush that comes, or is about to be sent by the one that runs
StateOwed(k) ==
    \/ \E p \in Publishers : pub[p].pc = "mark" /\ pub[p].kind = k
    \/ id[Web] # -1 /\ k \in sinks[id[Web]].dirty /\ FlushComes
    \/ srv.pc = "states" /\ k \in srv.rest
StatesOwed ==
    \A i \in Places : Open(i) => \A k \in streams[i].want \cap StateKinds :
       shown[i][k] \in {Never, Unmade, value[k]} \/ StateOwed(k)

\* A publisher about to mark carries the number it stored
MarksNumbered ==
    \A p \in Publishers : pub[p].pc = "mark" /\ pub[p].n # 0 =>
       pub[p].n \in 1 .. count /\ pub[p].kind = kindOf[pub[p].n]

\* A stream that is open, and not just being opened
Running(i) == Open(i) /\ ~(srv.pc \in {"want", "wantReplay", "replay"} /\ srv.at = i)

\* Its cursor is the count it was read up to, and up to there it has what it is due
StreamsAreRead ==
    \A i \in Places : Open(i) =>
       /\ upto[i] <= count
       /\ Running(i) \/ srv.pc = "want" => streams[i].seq = SeqOf(upto[i])
       /\ Running(i) => \A n \in base[i] + 1 .. upto[i] :
             n > count - Kept /\ kindOf[n] \in streams[i].want => n \in had[i] \cup missed[i] \cup unkept

\* ...and beyond, a happening that it wants has a publisher at it still, or a flush that reads it
ReadComes(i, n) ==
    \/ \E p \in Publishers : pub[p].pc \in {"store", "mark"} /\ pub[p].n = n
    \/ FlushComes \/ srv.pc = "states" \/ (srv.pc = "happenings" /\ srv.at <= i)
HappeningsOwed ==
    \A i \in Places : Running(i) => \A n \in 1 .. count :
       n > base[i] /\ n > upto[i] /\ kindOf[n] \in streams[i].want => ReadComes(i, n)

StreamsIInv ==
    /\ WebTyped /\ Placed /\ StreamsAreConnections /\ QueuedIsAsked
    /\ StreamsAreHeard /\ SentIsShown /\ StatesOwed
    /\ MarksNumbered /\ StreamsAreRead /\ HappeningsOwed
----------------------------------------------------------------------------
LEMMA WebIs == Web \in Listeners /\ Web # None /\ MaxStreams \in Nat \ {0} /\ 1 \in Places /\ NoFd \notin Fds
  BY WebAssumption, NoneAssumption DEF Places

\* What the invariants of the hub say of its variables.
LEMMA HubIs ==
    ASSUME RingIInv, NotifyIInv
    PROVE  /\ id \in [Listeners -> Slots \cup {-1}] /\ id[Web] \in Slots \cup {-1}
           /\ id[Web] # -1 => id[Web] \in Slots /\ sinks[id[Web]].fn = Web /\ -1 \notin Slots
           /\ count \in Nat /\ Len(kindOf) = count /\ kindOf \in Seq(HappeningKinds)
           /\ \A n \in 1 .. count : kindOf[n] \in HappeningKinds
           /\ sinks \in [Slots -> SinkType] /\ pub \in [Publishers -> PubType]
           /\ \A s \in Slots : sinks[s] \in SinkType
           /\ \A p \in Publishers : /\ pub[p] \in PubType
                                    /\ pub[p].pc # "call" => \A s \in Slots : pub[p].fns[s] = None
           /\ TypeOK
<1>1. TypeOK /\ SlotInv /\ FnsInv /\ KindsNumbered BY DEF RingIInv, NotifyIInv
<1>2. id \in [Listeners -> Slots \cup {-1}] /\ id[Web] \in Slots \cup {-1} BY <1>1, WebIs DEF TypeOK
<1>3. -1 \notin Slots BY DEF Slots
<1>4. id[Web] # -1 => id[Web] \in Slots /\ sinks[id[Web]].fn = Web BY <1>1, <1>2, WebIs DEF SlotInv
<1>5. count \in Nat /\ Len(kindOf) = count /\ kindOf \in Seq(HappeningKinds) BY <1>1 DEF TypeOK, KindsNumbered
<1>6. \A n \in 1 .. count : kindOf[n] \in HappeningKinds BY <1>5
<1>7. sinks \in [Slots -> SinkType] /\ pub \in [Publishers -> PubType]
  BY <1>1 DEF TypeOK, SinkType, PubType
<1>8. \A p \in Publishers : pub[p].pc # "call" => \A s \in Slots : pub[p].fns[s] = None
  BY <1>1 DEF FnsInv, NoFns
<1>9. QED BY <1>1, <1>2, <1>3, <1>4, <1>5, <1>6, <1>7, <1>8

LEMMA UnionKinds == ASSUME WebTyped PROVE Union \in SUBSET Kinds
  BY DEF WebTyped, Union, StreamRecord, Open

LEMMA NoStreamIs == NoStream \in StreamRecord /\ NoStream.fd = NoFd /\ NoStream.want = {}
  BY DEF NoStream, StreamRecord

\* The streams that are left are as they were.
LEMMA WithoutIs ==
    ASSUME WebTyped, NEW on \in SUBSET Places
    PROVE  /\ Without(on) \in [Places -> StreamRecord]
           /\ \A i \in Places : Without(on)[i] = IF i \in on THEN NoStream ELSE streams[i]
           /\ UNION {Without(on)[i].want : i \in {j \in Places : Without(on)[j].fd # NoFd}} \in SUBSET Kinds
<1>1. Without(on) \in [Places -> StreamRecord]
  BY NoStreamIs DEF Without, WebTyped
<1>2. \A i \in Places : Without(on)[i] = IF i \in on THEN NoStream ELSE streams[i] BY DEF Without
<1>3. \A i \in Places : Without(on)[i].want \in SUBSET Kinds BY <1>1 DEF StreamRecord
<1>4. QED BY <1>1, <1>2, <1>3

\* Asking for what is wanted from here on is a step of the listener's.
LEMMA WantingIs ==
    ASSUME RingIInv, NotifyIInv, NEW want \in SUBSET Kinds, Wanting(want)
    PROVE  /\ Next
           /\ UNCHANGED <<kinds, count, ring, pub, kindOf, unkept>>
           /\ id'[Web] # -1 /\ id'[Web] \in Slots /\ sinks'[id'[Web]].want = want
           /\ id[Web] # -1 => id'[Web] = id[Web] /\ sinks'[id[Web]].dirty = sinks[id[Web]].dirty \cap want
<1> USE WebIs, HubIs
<1>1. CASE id[Web] = -1
  <2>1. PICK s \in Slots : Listen(Web, want, s) BY <1>1 DEF Wanting
  <2>2. Next BY <2>1 DEF Next, Listener
  <2>3. id'[Web] = s /\ sinks'[s] = [fn |-> Web, want |-> want, dirty |-> {}] BY <2>1 DEF Listen
  <2>4. s # -1 BY DEF Slots
  <2>5. QED BY <1>1, <2>1, <2>2, <2>3, <2>4 DEF Listen
<1>2. CASE id[Web] # -1
  <2>1. Want(Web, want) BY <1>2 DEF Wanting
  <2>2. Next BY <2>1 DEF Next, Listener
  <2> DEFINE s == id[Web]
             sink == [sinks[s] EXCEPT !.want = want, !.dirty = @ \cap want]
  <2>3. sinks' = [sinks EXCEPT ![s] = sink] /\ id' = id BY <2>1 DEF Want, listenerVars
  <2>4. s \in Slots BY <1>2
  <2>5. sink.want = want /\ sink.dirty = sinks[s].dirty \cap want BY <2>4 DEF SinkType
  <2>6. sinks'[s].want = want /\ sinks'[s].dirty = sinks[s].dirty \cap want BY <2>3, <2>4, <2>5
  <2>7. QED BY <1>2, <2>1, <2>2, <2>3, <2>4, <2>6 DEF Want, listenerVars, history
<1>3. QED BY <1>1, <1>2

\* What happens to the hub is what its specification says.
LEMMA HubStep ==
    ASSUME RingIInv, NotifyIInv, WebTyped, [WebNext]_allVars
    PROVE  [Next]_vars
<1> USE WebIs
<1>1. CASE UNCHANGED allVars BY <1>1 DEF allVars
<1>2. CASE Declaring BY <1>2 DEF Declaring, Next
<1>3. ASSUME NEW p \in Publishers, Publishing(p) \/ Notifying(p) PROVE [Next]_vars
  <2>1. CASE Publishing(p) BY <2>1 DEF Publishing, Next, Publish, Kinds
  <2>2. CASE Marking(p) BY <2>2 DEF Marking, Next, Publish
  <2>3. CASE Returning(p) BY <2>3 DEF Returning, Next, Publish
  <2>4. ASSUME NEW s \in Slots, QueueFlush(p, s) PROVE [Next]_vars
    BY <2>4 DEF QueueFlush, Next, Publish
  <2>5. ASSUME NEW taken \in BOOLEAN, QueueWork(p, taken) PROVE [Next]_vars
    BY <2>5 DEF QueueWork
  <2>6. QED BY <1>3, <2>1, <2>2, <2>3, <2>4, <2>5 DEF Notifying
<1>4. CASE Server
  <2>1. CASE UpdateWant BY <2>1, UnionKinds, WantingIs DEF UpdateWant
  <2>2. CASE TakeDirty BY <2>2 DEF TakeDirty, Next, Listener
  <2>3. ASSUME NEW fd \in Fds, CloseOne(fd) \/ CloseLast(fd) PROVE [Next]_vars
    <3> DEFINE on == {i \in Places : streams[i].fd = fd}
               left == Without(on)
               want == UNION {left[i].want : i \in {j \in Places : left[j].fd # NoFd}}
    <3>1. UNCHANGED vars \/ Wanting(want) BY <2>3 DEF CloseOne, CloseLast, Close
    <3>2. on \in SUBSET Places OBVIOUS
    <3> HIDE DEF on
    <3>3. want \in SUBSET Kinds BY <3>2, WithoutIs
    <3> HIDE DEF want
    <3>4. QED BY <3>1, <3>3, WantingIs
  <2>4. CASE StartFlush \/ StatesDone \/ SendBeat \/ Shutdown
    BY <2>4 DEF StartFlush, StatesDone, SendBeat, Shutdown, hubRest
  <2>5. ASSUME NEW made \in BOOLEAN, Replay(made) \/ FlushHappenings(made) PROVE [Next]_vars
    BY <2>5 DEF Replay, FlushHappenings, SendHappenings, hubRest
  <2>6. ASSUME NEW k \in StateKinds, NEW made \in {"all", "json", "none"}, SendState(k, made)
        PROVE  [Next]_vars
    BY <2>6 DEF SendState, hubRest
  <2>7. QED BY <1>4, <2>1, <2>2, <2>3, <2>4, <2>5, <2>6 DEF Server
<1>5. CASE Clients BY <1>5 DEF Clients, OpenStream
<1>6. CASE Console
  <2>1. CASE WantNone BY <2>1, UnionKinds, WantingIs DEF WantNone
  <2>2. CASE StartServer \/ ClearStreams \/ Stop \/ ServerOff
    BY <2>2 DEF StartServer, ClearStreams, Stop, ServerOff
  <2>3. QED BY <1>6, <2>1, <2>2 DEF Console
<1>7. QED BY <1>1, <1>2, <1>3, <1>4, <1>5, <1>6 DEF WebNext

----------------------------------------------------------------------------
(* Types. *)

\* What is left of the streams once some are dropped.
LEMMA DropIs ==
    ASSUME WebTyped, StreamsAreConnections, NEW bad \in SUBSET Places, \A i \in bad : Open(i),
           NEW s \in [Places -> StreamRecord], Drop(bad, s)
    PROVE  /\ streams' \in [Places -> StreamRecord] /\ closing' \in SUBSET conns
           /\ \A i \in Places : streams'[i] = IF i \in bad THEN NoStream ELSE s[i]
<1>1. streams' \in [Places -> StreamRecord] BY NoStreamIs DEF Drop
<1>2. \A i \in Places : streams'[i] = IF i \in bad THEN NoStream ELSE s[i] BY DEF Drop
<1>3. closing' \in SUBSET conns BY DEF Drop, StreamsAreConnections, WebTyped
<1>4. QED BY <1>1, <1>2, <1>3

\* The count that a seq is told back to is one.
LEMMA FromType ==
    ASSUME NEW after \in Nat, NEW latest \in Nat
    PROVE  From(after, latest) \in Nat
<1> DEFINE behind == SeqOf(latest) - after + SeqMod
           back == behind % SeqMod
<1>1. behind \in Int /\ SeqMod \in Nat \ {0} BY SeqType, LimitsAssumption
<1>2. back \in Nat BY <1>1, DivMod
<1>3. From(after, latest)
        = IF after = 0 \/ latest = 0 THEN 0 ELSE IF back <= latest THEN latest - back ELSE 0
  BY DEF From
<1> HIDE DEF back
<1>4. QED BY <1>2, <1>3

\* Messages that wait, and the first taken.
LEMMA WorkIs ==
    ASSUME WebTyped
    PROVE  /\ Len(work) \in Nat /\ \A m \in 1 .. Len(work) : work[m] \in {"flush", "shutdown"}
           /\ \A what \in {"flush", "shutdown"} : Append(work, what) \in Seq({"flush", "shutdown"})
           /\ work # <<>> => Tail(work) \in Seq({"flush", "shutdown"})
  BY DEF WebTyped

LEMMA WebTypedInit == WebInit => WebTyped
<1> SUFFICES ASSUME WebInit PROVE WebTyped OBVIOUS
<1>1. work = <<>> /\ work \in Seq({"flush", "shutdown"}) BY DEF WebInit
<1>2. srv \in SrvRecord BY WebIs DEF WebInit, Waiting, SrvRecord
<1>3. streams \in [Places -> StreamRecord] BY NoStreamIs DEF WebInit
<1>4. shown \in [Places -> [StateKinds -> Unmade .. 1]]
  BY DEF WebInit, NotShown, Never, Unmade
<1>5. /\ sent \in [StateKinds -> -1 .. 1] /\ value \in [StateKinds -> 0 .. 1]
      /\ base \in [Places -> Nat] /\ upto \in [Places -> Nat]
      /\ had \in [Places -> SUBSET Nat] /\ missed \in [Places -> SUBSET Nat]
  BY DEF WebInit, NotSent
<1>6. QED BY <1>1, <1>2, <1>3, <1>4, <1>5 DEF WebInit, WebTyped

\* A task that publishes
LEMMA WebTypedPublishes ==
    ASSUME WebTyped, NEW p \in Publishers, Publishing(p) \/ Notifying(p)
    PROVE  WebTyped'
<1> USE WorkIs DEF serverVars, streamVars, streamHistory, delivery
<1>1. CASE Publishing(p)
  <2>1. value' \in [StateKinds -> 0 .. 1] BY <1>1 DEF Publishing, WebTyped
  <2>2. QED BY <1>1, <2>1 DEF Publishing, WebTyped
<1>2. CASE Marking(p)
  <2>1. shown' \in [Places -> [StateKinds -> Unmade .. 1]]
    BY <1>2 DEF Marking, WebTyped, Due, Unmade
  <2>2. QED BY <1>2, <2>1 DEF Marking, WebTyped
<1>3. ASSUME NEW s \in Slots, QueueFlush(p, s) PROVE WebTyped'
  <2>1. queued' \in BOOLEAN /\ asking' \in SUBSET Publishers BY <1>3 DEF QueueFlush, WebTyped
  <2>2. QED BY <1>3, <2>1 DEF QueueFlush, WebTyped
<1>4. ASSUME NEW taken \in BOOLEAN, QueueWork(p, taken) PROVE WebTyped'
  <2>1. work' \in Seq({"flush", "shutdown"}) BY <1>4 DEF QueueWork, WebTyped
  <2>2. refused' \in {"no", "refused", "swallowed"} BY <1>4 DEF QueueWork, WebTyped
  <2>3. QED BY <1>4, <2>1, <2>2 DEF QueueWork, WebTyped
<1>5. CASE Returning(p) BY <1>5 DEF Returning, webVars, WebTyped
<1>6. QED BY <1>1, <1>2, <1>3, <1>4, <1>5 DEF Notifying

\* What a read hands over is numbers, and the cursor it leaves is one.
LEMMA WebTypedSends ==
    ASSUME RingIInv, WebTyped, StreamsAreConnections, NEW i \in Places, NEW made \in BOOLEAN,
           NEW next \in SrvRecord, SendHappenings(i, made, next)
    PROVE  WebTyped'
<1> DEFINE new == Since(streams[i].seq, streams[i].want \ StateKinds)
           read == [streams EXCEPT ![i].seq = SeqOf(count)]
<1>1. PICK bad \in SUBSET IF made /\ new # {} /\ Open(i) THEN {i} ELSE {} :
         /\ Drop(bad, read) /\ srv' = next
         /\ had' = [had EXCEPT ![i] = IF made THEN @ \cup new ELSE @]
         /\ upto' = [upto EXCEPT ![i] = count]
         /\ missed' = [missed EXCEPT ![i] = @ \cup {n \in 1 .. count : InFlight(n)}
                                              \cup (IF made THEN {} ELSE new)
                                              \cup IF count - upto[i] < SeqMod THEN {} ELSE 1 .. count]
         /\ base' = IF srv.pc = "replay" THEN [base EXCEPT ![i] = From(streams[i].seq, count)] ELSE base
         /\ UNCHANGED <<hubRest, work, queued, sent, refused, shown>>
  BY DEF SendHappenings
<1>2. TypeOK /\ count \in Nat BY DEF RingIInv, TypeOK
<1>3. streams[i].seq \in Nat /\ new \in SUBSET Nat /\ SeqOf(count) \in Nat
  BY <1>2, SinceType, SeqType DEF WebTyped, StreamRecord
<1>4. From(streams[i].seq, count) \in Nat BY <1>2, <1>3, FromType
<1>5. read \in [Places -> StreamRecord]
  <2> DEFINE r == [streams[i] EXCEPT !.seq = SeqOf(count)]
  <2>1. r \in StreamRecord BY <1>3 DEF WebTyped, StreamRecord
  <2>2. read = [streams EXCEPT ![i] = r] OBVIOUS
  <2> HIDE DEF r, read
  <2>3. QED BY <2>1, <2>2 DEF WebTyped
<1>6. streams' \in [Places -> StreamRecord] /\ closing' \in SUBSET conns
  <2>1. bad \in SUBSET Places /\ \A j \in bad : Open(j) BY <1>1
  <2> HIDE DEF read
  <2>2. QED BY <1>1, <1>5, <2>1, DropIs
<1> HIDE DEF new, read
<1>7. /\ had' \in [Places -> SUBSET Nat] /\ upto' \in [Places -> Nat] /\ base' \in [Places -> Nat]
  BY <1>1, <1>2, <1>3, <1>4 DEF WebTyped
<1>8. missed' \in [Places -> SUBSET Nat]
  <2> DEFINE more == {n \in 1 .. count : InFlight(n)} \cup (IF made THEN {} ELSE new)
                        \cup IF count - upto[i] < SeqMod THEN {} ELSE 1 .. count
  <2>1. more \in SUBSET Nat
    <3>1. 1 .. count \in SUBSET Nat /\ {n \in 1 .. count : InFlight(n)} \in SUBSET Nat BY <1>2
    <3>2. (IF made THEN {} ELSE new) \in SUBSET Nat BY <1>3
    <3>3. (IF count - upto[i] < SeqMod THEN {} ELSE 1 .. count) \in SUBSET Nat BY <3>1
    <3>4. QED BY <3>1, <3>2, <3>3
  <2>2. missed' = [missed EXCEPT ![i] = @ \cup more] BY <1>1
  <2> HIDE DEF more
  <2>3. QED BY <2>1, <2>2 DEF WebTyped
<1>9. QED BY <1>1, <1>6, <1>7, <1>8 DEF WebTyped, hubRest

\* Where the server's task goes next
LEMMA NextIs ==
    ASSUME WebTyped
    PROVE  /\ Waiting \in SrvRecord
           /\ \A pc \in {"take", "want", "wantReplay", "states", "happenings"}, rest \in SUBSET StateKinds,
                 at \in 0 .. MaxStreams : [pc |-> pc, rest |-> rest, at |-> at] \in SrvRecord
           /\ srv.rest \in SUBSET StateKinds /\ srv.at \in 0 .. MaxStreams
           /\ srv.pc \in {"idle", "want", "wantReplay", "replay", "take", "states", "happenings"}
  BY WebIs DEF WebTyped, SrvRecord, Waiting

LEMMA WebTypedServes ==
    ASSUME RingIInv, NotifyIInv, WebTyped, Placed, StreamsAreConnections, Server \/ Clients
    PROVE  WebTyped' /\ Placed'
<1> USE WebIs, WorkIs, NextIs DEF serverVars, streamVars, streamHistory, delivery
<1>1. CASE UpdateWant
  <2>1. base' \in [Places -> Nat] BY <1>1, HubIs DEF UpdateWant, WebTyped
  <2>2. srv' \in SrvRecord /\ srv'.pc \in {"idle", "replay"} /\ (srv'.pc = "replay" => srv'.at = srv.at)
    BY <1>1 DEF UpdateWant, WebTyped, SrvRecord, Waiting
  <2>3. WebTyped' BY <1>1, <2>1, <2>2 DEF UpdateWant, WebTyped
  <2>4. Placed' BY <1>1, <2>2 DEF UpdateWant, Placed
  <2>5. QED BY <2>3, <2>4
<1>2. CASE StartFlush
  <2>1. work' \in Seq({"flush", "shutdown"}) /\ srv' \in SrvRecord /\ srv'.pc = "take"
    BY <1>2 DEF StartFlush, Serving
  <2>2. WebTyped' BY <1>2, <2>1 DEF StartFlush, hubRest, WebTyped
  <2>3. Placed' BY <1>2, <2>1 DEF StartFlush, hubRest, Placed
  <2>4. QED BY <2>2, <2>3
<1>3. CASE TakeDirty
  <2> DEFINE rest == sinks[id[Web]].dirty
  <2>1. id[Web] # -1 BY <1>3 DEF TakeDirty, Take
  <2>2. rest \in SUBSET StateKinds BY <2>1, HubIs DEF NotifyIInv, DueIsWanted
  <2>3. srv' = [pc |-> "states", rest |-> rest, at |-> 0] BY <1>3 DEF TakeDirty
  <2> HIDE DEF rest
  <2>4. srv' \in SrvRecord /\ srv'.pc = "states" BY <2>2, <2>3
  <2>5. WebTyped' BY <1>3, <2>4 DEF TakeDirty, WebTyped
  <2>6. Placed' BY <1>3, <2>4 DEF TakeDirty, Placed
  <2>7. QED BY <2>5, <2>6
<1>4. CASE StatesDone
  <2>3. srv' = [pc |-> "happenings", rest |-> {}, at |-> 1] BY <1>4 DEF StatesDone
  <2>4. 1 \in 0 .. MaxStreams /\ {} \in SUBSET StateKinds OBVIOUS
  <2>1. srv' \in SrvRecord /\ srv'.at = 1 BY <2>3, <2>4 DEF SrvRecord
  <2>2. WebTyped' BY <1>4, <2>1 DEF StatesDone, hubRest, WebTyped
  <2>5. Placed' BY <1>4, <2>1 DEF StatesDone, hubRest, Placed
  <2>6. QED BY <2>2, <2>5
<1>5. CASE SendBeat
  <2>1. PICK bad \in SUBSET {i \in Places : Open(i) /\ System \notin streams[i].want} : Drop(bad, streams)
    BY <1>5 DEF SendBeat
  <2>2. bad \in SUBSET Places /\ (\A i \in bad : Open(i)) /\ streams \in [Places -> StreamRecord]
    BY DEF WebTyped
  <2>3. streams' \in [Places -> StreamRecord] /\ closing' \in SUBSET conns BY <2>1, <2>2, DropIs
  <2>4. WebTyped' BY <1>5, <2>3 DEF SendBeat, hubRest, WebTyped
  <2>5. Placed' BY <1>5 DEF SendBeat, hubRest, Placed
  <2>6. QED BY <2>4, <2>5
<1>6. CASE Shutdown
  <2>1. work' \in Seq({"flush", "shutdown"}) /\ refused' \in {"no", "refused", "swallowed"} /\ httpd' = "ended"
    BY <1>6 DEF Shutdown, WebTyped
  <2>2. WebTyped' BY <1>6, <2>1 DEF Shutdown, closeRest, WebTyped
  <2>3. Placed' BY <1>6, <2>1 DEF Shutdown, closeRest, Placed
  <2>4. QED BY <2>2, <2>3
<1>7. ASSUME NEW made \in BOOLEAN, Replay(made) PROVE WebTyped' /\ Placed'
  <2>1. srv.at \in Places BY <1>7 DEF Replay, Placed
  <2>2. WebTyped' BY <1>7, <2>1, WebTypedSends DEF Replay
  <2>3. srv' = Waiting /\ UNCHANGED <<httpd, conns>> BY <1>7 DEF Replay, SendHappenings, hubRest
  <2>4. Placed' BY <2>3 DEF Placed, Waiting
  <2>5. QED BY <2>2, <2>4
<1>8. ASSUME NEW made \in BOOLEAN, FlushHappenings(made) PROVE WebTyped' /\ Placed'
  <2> DEFINE next == IF srv.at = MaxStreams THEN Waiting ELSE [srv EXCEPT !.at = @ + 1]
  <2>1. srv.pc = "happenings" /\ srv.at \in Places BY <1>8 DEF FlushHappenings, Placed
  <2>2. next \in SrvRecord /\ (next.pc = "idle" \/ next.at \in Places)
    <3>1. CASE srv.at = MaxStreams BY <3>1 DEF Waiting
    <3>2. CASE srv.at # MaxStreams
      <4>1. srv.at + 1 \in Places /\ srv.at + 1 \in 0 .. MaxStreams BY <2>1, <3>2 DEF Places
      <4>2. QED BY <3>2, <4>1 DEF WebTyped, SrvRecord
    <3>3. QED BY <3>1, <3>2
  <2> HIDE DEF next
  <2>3. WebTyped' /\ srv' = next /\ UNCHANGED <<httpd, conns>>
    <3>1. CASE Open(srv.at)
      <4>1. SendHappenings(srv.at, made, next) BY <1>8, <3>1 DEF FlushHappenings, next
      <4>2. WebTyped' BY <2>1, <2>2, <4>1, WebTypedSends
      <4>3. QED BY <4>1, <4>2 DEF SendHappenings, hubRest
    <3>2. CASE ~Open(srv.at)
      <4>1. srv' = next /\ UNCHANGED <<hubRest, closing, work, queued, streams, sent, streamHistory>>
        BY <1>8, <3>2 DEF FlushHappenings, next
      <4>2. QED BY <2>2, <4>1 DEF hubRest, WebTyped
    <3>3. QED BY <3>1, <3>2
  <2>4. Placed' BY <2>2, <2>3 DEF Placed
  <2>5. QED BY <2>3, <2>4
<1>9. ASSUME NEW k \in StateKinds, NEW made \in {"all", "json", "none"}, SendState(k, made)
      PROVE  WebTyped' /\ Placed'
  <2> DEFINE to == {i \in Places : Open(i) /\ k \in streams[i].want}
             again == k # System /\ sent[k] = value[k]
             sends == to # {} /\ made # "none" /\ ~again
  <2>1. /\ srv' = [srv EXCEPT !.rest = @ \ {k}] /\ srv.pc = "states"
        /\ sent' = IF sends THEN [sent EXCEPT ![k] = value[k]] ELSE sent
        /\ shown' = [i \in Places |->
                        IF i \notin to \/ (again /\ made # "none") THEN shown[i]
                        ELSE [shown[i] EXCEPT ![k] = IF made = "all" THEN value[k] ELSE Unmade]]
        /\ UNCHANGED <<httpd, asking, con, conns, value, work, queued, refused, base, had, upto, missed>>
    BY <1>9 DEF SendState, hubRest
  <2>2. PICK bad \in SUBSET IF sends /\ made = "all" THEN to ELSE {} : Drop(bad, streams)
    BY <1>9 DEF SendState
  <2>3. streams' \in [Places -> StreamRecord] /\ closing' \in SUBSET conns
    <3>1. bad \in SUBSET Places /\ (\A i \in bad : Open(i)) /\ streams \in [Places -> StreamRecord]
      BY <2>2 DEF WebTyped
    <3>2. QED BY <2>2, <3>1, DropIs
  <2> HIDE DEF to, again, sends
  <2>4. sent' \in [StateKinds -> -1 .. 1] BY <2>1 DEF WebTyped
  <2>5. shown' \in [Places -> [StateKinds -> Unmade .. 1]]
    <3>1. value[k] \in Unmade .. 1 /\ Unmade \in Unmade .. 1 BY DEF WebTyped, Unmade
    <3>2. \A i \in Places : shown[i] \in [StateKinds -> Unmade .. 1] BY DEF WebTyped
    <3>3. QED BY <2>1, <3>1, <3>2
  <2>6. srv' \in SrvRecord /\ srv'.pc = "states" BY <2>1 DEF WebTyped, SrvRecord
  <2>7. WebTyped' BY <2>1, <2>3, <2>4, <2>5, <2>6 DEF WebTyped
  <2>8. Placed' BY <2>1, <2>6 DEF Placed
  <2>9. QED BY <2>7, <2>8
<1>10. ASSUME NEW fd \in Fds, CloseOne(fd) \/ CloseLast(fd) PROVE WebTyped' /\ Placed'
  <2> DEFINE on == {i \in Places : streams[i].fd = fd}
  <2>1. /\ streams' = Without(on) /\ conns' = conns \ {fd} /\ closing' = closing \ {fd}
        /\ UNCHANGED <<httpd, work, srv, refused, closeRest>> /\ httpd # "off"
    BY <1>10 DEF CloseOne, CloseLast, Close
  <2>2. on \in SUBSET Places OBVIOUS
  <2> HIDE DEF on
  <2>3. streams' \in [Places -> StreamRecord] BY <2>1, <2>2, WithoutIs
  <2>4. WebTyped' BY <2>1, <2>3 DEF closeRest, WebTyped
  <2>5. Placed' BY <2>1 DEF Placed
  <2>6. QED BY <2>4, <2>5
<1>11. ASSUME NEW i \in Places, NEW fd \in Fds, NEW want \in Masks, NEW after \in Afters,
              OpenStream(i, fd, want, after)
       PROVE  WebTyped' /\ Placed'
  <2> DEFINE from == IF after = -1 THEN SeqOf(count) ELSE after
             r == [fd |-> fd, want |-> want, seq |-> from]
  <2>1. count \in Nat BY HubIs
  <2>2. r \in StreamRecord
    <3>1. want \in SUBSET Kinds /\ after \in -1 .. SeqMod BY WebAssumption
    <3>2. after # -1 => after \in Nat BY <3>1, LimitsAssumption
    <3>4. from \in Nat BY <2>1, <3>2, SeqType
    <3>3. QED BY <3>1, <3>4 DEF StreamRecord
  <2>3. /\ streams' = [streams EXCEPT ![i] = r] /\ sent' = NotSent /\ conns' = conns \cup {fd}
        /\ srv' = [pc |-> IF after = -1 THEN "want" ELSE "wantReplay", rest |-> {}, at |-> i]
        /\ shown' = [shown EXCEPT ![i] = NotShown] /\ base' = [base EXCEPT ![i] = count]
        /\ had' = [had EXCEPT ![i] = {}] /\ upto' = [upto EXCEPT ![i] = count]
        /\ missed' = [missed EXCEPT ![i] = {}] /\ httpd = "on"
        /\ UNCHANGED <<httpd, work, queued, asking, con, closing, value, refused>>
    BY <1>11 DEF OpenStream, SentAtOpen
  <2> HIDE DEF r
  <2>4. srv' \in SrvRecord /\ srv'.at = i BY <2>3 DEF Places, SrvRecord
  <2>5. streams' \in [Places -> StreamRecord] BY <2>2, <2>3 DEF WebTyped
  <2>6. shown' \in [Places -> [StateKinds -> Unmade .. 1]] /\ sent' \in [StateKinds -> -1 .. 1]
    BY <2>3 DEF WebTyped, NotShown, NotSent, Never, Unmade
  <2>7. /\ base' \in [Places -> Nat] /\ upto' \in [Places -> Nat]
        /\ had' \in [Places -> SUBSET Nat] /\ missed' \in [Places -> SUBSET Nat]
    BY <2>1, <2>3 DEF WebTyped
  <2>8. WebTyped' BY <2>3, <2>4, <2>5, <2>6, <2>7 DEF WebTyped
  <2>9. Placed' BY <2>3, <2>4 DEF Placed
  <2>10. QED BY <2>8, <2>9
<1>12. QED
  BY <1>1, <1>2, <1>3, <1>4, <1>5, <1>6, <1>7, <1>8, <1>9, <1>10, <1>11 DEF Server, Clients

\* Types, and the server's task at a place when it works on one.
LEMMA WebTypedStep ==
    ASSUME RingIInv, NotifyIInv, WebTyped, Placed, StreamsAreConnections, [WebNext]_allVars
    PROVE  WebTyped' /\ Placed'
<1> USE WebIs, WorkIs DEF serverVars, streamVars, streamHistory, delivery
<1>1. CASE UNCHANGED allVars BY <1>1 DEF allVars, webVars, WebTyped, Placed
<1>2. CASE Declaring BY <1>2 DEF Declaring, webVars, WebTyped, Placed
<1>3. ASSUME NEW p \in Publishers, Publishing(p) \/ Notifying(p) PROVE WebTyped' /\ Placed'
  <2>1. UNCHANGED <<httpd, srv, conns>>
    BY <1>3 DEF Publishing, Notifying, Marking, Returning, QueueFlush, QueueWork, webVars
  <2>2. QED BY <1>3, <2>1, WebTypedPublishes DEF Placed
<1>4. CASE Server \/ Clients BY <1>4, WebTypedServes
<1>5. CASE Console
  <2>1. CASE ClearStreams
    <3>1. streams' \in [Places -> StreamRecord] BY <2>1, NoStreamIs DEF ClearStreams
    <3>2. QED BY <2>1, <3>1 DEF ClearStreams, WebTyped, Placed
  <2>2. CASE StartServer \/ WantNone \/ ServerOff
    BY <2>2 DEF StartServer, WantNone, ServerOff, WebTyped, Placed
  <2>3. CASE Stop
    <3>1. work' \in Seq({"flush", "shutdown"}) BY <2>3 DEF Stop
    <3>2. QED BY <2>3, <3>1 DEF Stop, WebTyped, Placed
  <2>4. QED BY <1>5, <2>1, <2>2, <2>3 DEF Console
<1>6. QED BY <1>1, <1>2, <1>3, <1>4, <1>5 DEF WebNext

----------------------------------------------------------------------------
(* What a step leaves to the streams. *)

\* A step that closes streams at most, and keeps what is owed to those that stay.
LEMMA Carried ==
    ASSUME RingIInv, NotifyIInv, StreamsIInv, WebTyped', Placed',
           UNCHANGED <<sent, value, shown, delivery, count, kindOf, unkept>>,
           \A i \in Places : Open(i)' => streams'[i] = streams[i] /\ streams[i].fd \in conns',
           \A p \in Publishers : pub'[p].pc = "mark" =>
               pub[p].pc = "mark" /\ pub'[p].n = pub[p].n /\ pub'[p].kind = pub[p].kind,
           QueuedIsAsked',
           \A i \in Places, k \in Kinds :
               Open(i)' /\ k \in streams[i].want /\ ListenerWants(k) => ListenerWants(k)',
           \A i \in Places : (Opening(i) => Opening(i)') /\ (Running(i)' => Running(i)),
           srv'.pc = "want" => srv.pc = "want",
           \A i \in Places, k \in StateKinds :
               Open(i)' /\ k \in streams[i].want /\ StateOwed(k) => StateOwed(k)',
           \A i \in Places, n \in 1 .. count : Open(i)' /\ ReadComes(i, n) => ReadComes(i, n)'
    PROVE  StreamsIInv'
<1> USE HubIs DEF StreamsIInv
<1>1. \A i \in Places : Open(i)' => Open(i) BY DEF Open
<1>2. \A i \in Places : streams[i].want \in SUBSET Kinds BY DEF WebTyped, StreamRecord
<1>3. StreamsAreConnections'
  <2> SUFFICES ASSUME NEW i \in Places, Open(i)'
               PROVE  /\ streams'[i].fd \in conns'
                      /\ \A j \in Places : streams'[j].fd = streams'[i].fd => i = j
    BY DEF StreamsAreConnections
  <2>1. ASSUME NEW j \in Places, streams'[j].fd = streams'[i].fd PROVE i = j
    <3>1. Open(j)' BY <2>1 DEF Open
    <3>2. QED BY <1>1, <2>1, <3>1 DEF StreamsAreConnections
  <2>2. QED BY <2>1
<1>4. StreamsAreHeard' BY <1>1, <1>2 DEF StreamsAreHeard
<1>5. SentIsShown' BY <1>1 DEF SentIsShown
<1>6. StatesOwed' BY <1>1 DEF StatesOwed
<1>7. MarksNumbered' BY DEF MarksNumbered
<1>8. StreamsAreRead'
  <2> SUFFICES ASSUME NEW i \in Places, Open(i)'
               PROVE  /\ upto[i] <= count
                      /\ Running(i)' \/ srv'.pc = "want" => streams[i].seq = SeqOf(upto[i])
                      /\ Running(i)' => \A n \in base[i] + 1 .. upto[i] :
                            n > count - Kept /\ kindOf[n] \in streams[i].want
                               => n \in had[i] \cup missed[i] \cup unkept
    BY DEF StreamsAreRead, delivery
  <2>1. Open(i) /\ (Running(i)' => Running(i)) BY <1>1
  <2>2. QED BY <2>1 DEF StreamsAreRead
<1>9. HappeningsOwed'
  <2> SUFFICES ASSUME NEW i \in Places, Running(i)', NEW n \in 1 .. count,
                      n > base[i], n > upto[i], kindOf[n] \in streams[i].want
               PROVE  ReadComes(i, n)'
    BY DEF HappeningsOwed, delivery, Running
  <2>1. Running(i) /\ Open(i)' BY DEF Running
  <2>2. QED BY <2>1 DEF HappeningsOwed
<1>10. QED BY <1>3, <1>4, <1>5, <1>6, <1>7, <1>8, <1>9

\* The last of them, of a step after which the listener wants what it did and the publishers have
\* as much to do.
LEMMA StillOwed ==
    ASSUME pub' = pub, id' = id, FlushComes => FlushComes',
           srv.pc = "states" => srv'.pc = "states" /\ srv'.rest = srv.rest,
           srv.pc = "happenings" => srv'.pc = "happenings" /\ srv'.at = srv.at,
           NEW k, id[Web] # -1 /\ k \in sinks[id[Web]].dirty => k \in sinks'[id[Web]].dirty
    PROVE  /\ StateOwed(k) => StateOwed(k)'
           /\ \A i \in Places, n \in 1 .. count : ReadComes(i, n) => ReadComes(i, n)'
<1>1. StateOwed(k) => StateOwed(k)' BY DEF StateOwed
<1>2. \A i \in Places, n \in 1 .. count : ReadComes(i, n) => ReadComes(i, n)' BY DEF ReadComes
<1>3. QED BY <1>1, <1>2

\* Messages that wait: one more at the end, the first taken.
LEMMA FlushWaitsOn ==
    ASSUME WebTyped
    PROVE  /\ \A what \in {"flush", "shutdown"} :
                 work' = Append(work, what) =>
                    (FlushWaits => FlushWaits') /\ (what = "flush" => FlushWaits')
           /\ work' = work => FlushWaits' = FlushWaits
           /\ work # <<>> /\ Head(work) = "shutdown" /\ FlushWaits
                 => "flush" \in {work[m] : m \in 2 .. Len(work)}
<1> USE WorkIs
<1>1. ASSUME NEW what \in {"flush", "shutdown"}, work' = Append(work, what)
      PROVE  (FlushWaits => FlushWaits') /\ (what = "flush" => FlushWaits')
  <2>1. /\ Len(work') = Len(work) + 1 /\ work'[Len(work) + 1] = what
        /\ \A m \in 1 .. Len(work) : work'[m] = work[m]
    BY <1>1 DEF WebTyped
  <2>2. FlushWaits => FlushWaits' BY <2>1 DEF FlushWaits
  <2>3. Len(work) + 1 \in 1 .. Len(work') BY <2>1
  <2>4. what = "flush" => FlushWaits' BY <2>1, <2>3 DEF FlushWaits
  <2>5. QED BY <2>2, <2>4
<1>2. work' = work => FlushWaits' = FlushWaits BY DEF FlushWaits
<1>3. ASSUME work # <<>>, Head(work) = "shutdown", FlushWaits
      PROVE  "flush" \in {work[m] : m \in 2 .. Len(work)}
  <2>1. PICK m \in 1 .. Len(work) : work[m] = "flush" BY <1>3 DEF FlushWaits
  <2>2. work[1] = "shutdown" BY <1>3 DEF WebTyped
  <2>3. m # 1 BY <2>1, <2>2
  <2>4. m \in 2 .. Len(work) BY <2>3
  <2>5. QED BY <2>1, <2>4
<1>4. QED BY <1>1, <1>2, <1>3

\* A server that is off has no streams, ...
LEMMA OffHasNone == ASSUME StreamsIInv, httpd = "off" PROVE \A i \in Places : ~Open(i)
  BY DEF StreamsIInv, Placed, StreamsAreConnections

\* ... and one is no stream's for as long as it is being opened.
LEMMA SrvAlone ==
    ASSUME srv' = srv, \A i \in Places : Open(i)' => Open(i)
    PROVE  /\ \A i \in Places : (Opening(i) => Opening(i)') /\ (Running(i)' => Running(i))
           /\ srv'.pc = "want" => srv.pc = "want"
  BY DEF Opening, Running

----------------------------------------------------------------------------
(* Steps of the console's task, and of a board that declares its kinds. *)

LEMMA ConsoleKeeps ==
    ASSUME RingIInv, NotifyIInv, StreamsIInv, WebTyped', Placed',
           Console \/ Declaring \/ UNCHANGED allVars
    PROVE  StreamsIInv'
<1> USE HubIs, WebIs DEF serverVars, streamVars, streamHistory, delivery, StreamsIInv
<1>1. ASSUME UNCHANGED <<streams, sent, value, shown, delivery, count, kindOf, unkept, conns, pub, id,
                         sinks, asking, queued, srv, work, refused>>
      PROVE  StreamsIInv'
  <2>1. (FlushWaits' <=> FlushWaits) /\ \A i \in Places : Open(i)' <=> Open(i)
    BY <1>1 DEF Open, FlushWaits
  <2>2. FlushComes' <=> FlushComes BY <1>1, <2>1 DEF FlushComes
  <2>3. QueuedIsAsked' BY <1>1, <2>1 DEF QueuedIsAsked
  <2>4. /\ \A k \in StateKinds : StateOwed(k) => StateOwed(k)'
        /\ \A i \in Places, n \in 1 .. count : ReadComes(i, n) => ReadComes(i, n)'
    BY <1>1, <2>2, StillOwed
  <2>5. \A i \in Places : Open(i) => streams[i].fd \in conns BY DEF StreamsAreConnections
  <2>6. \A k \in Kinds : ListenerWants(k) => ListenerWants(k)' BY <1>1 DEF ListenerWants
  <2>7. QED BY <1>1, <2>1, <2>3, <2>4, <2>5, <2>6, SrvAlone, Carried
<1>2. CASE Declaring
  BY <1>1, <1>2 DEF Declaring, Declare, webVars, listenerVars, history
<1>3. CASE StartServer \/ ServerOff
  BY <1>1, <1>3 DEF StartServer, ServerOff, vars, hubVars, listenerVars, history
<1>4. ASSUME \A i \in Places : ~Open(i)', pub' = pub, UNCHANGED <<count, kindOf, srv, sent, value, shown>>,
             QueuedIsAsked'
      PROVE  StreamsIInv'
  <2>1. MarksNumbered' BY <1>4 DEF MarksNumbered
  <2>2. QED
    BY <1>4, <2>1 DEF StreamsAreConnections, StreamsAreHeard, SentIsShown, StatesOwed, StreamsAreRead,
                      HappeningsOwed, Running
<1>5. CASE ClearStreams
  <2>1. \A i \in Places : ~Open(i)' BY <1>5 DEF ClearStreams, Open, NoStream
  <2>2. QueuedIsAsked' BY <1>5 DEF ClearStreams, QueuedIsAsked, FlushWaits
  <2>3. QED BY <1>4, <1>5, <2>1, <2>2 DEF ClearStreams, vars, hubVars, history
<1>6. CASE WantNone
  <2>1. Wanting(Union) BY <1>6 DEF WantNone
  <2>2. Union \in SUBSET Kinds BY UnionKinds
  <2>3. /\ UNCHANGED <<kinds, count, ring, pub, kindOf, unkept>>
        /\ id'[Web] # -1 /\ id'[Web] \in Slots /\ sinks'[id'[Web]].want = Union
        /\ id[Web] # -1 => id'[Web] = id[Web] /\ sinks'[id[Web]].dirty = sinks[id[Web]].dirty \cap Union
    BY <2>1, <2>2, WantingIs
  <2>4. UNCHANGED <<work, queued, asking, srv, conns, streams, sent, value, shown, delivery, refused>>
    BY <1>6 DEF WantNone
  <2>5. \A i \in Places : Open(i)' <=> Open(i) BY <2>4 DEF Open
  <2>6. FlushWaits' <=> FlushWaits BY <2>4 DEF FlushWaits
  <2>7. FlushComes => FlushComes' BY <2>3, <2>4, <2>6 DEF FlushComes
  <2>8. QueuedIsAsked' BY <2>4, <2>6 DEF QueuedIsAsked
  <2>9. ASSUME NEW i \in Places, Open(i), NEW k \in streams[i].want
        PROVE  k \in Union
    BY <2>9 DEF Union
  <2>10. \A i \in Places, k \in StateKinds :
            Open(i)' /\ k \in streams[i].want /\ StateOwed(k) => StateOwed(k)'
    BY <2>3, <2>4, <2>5, <2>7, <2>9 DEF StateOwed
  <2>11. \A i \in Places, n \in 1 .. count : ReadComes(i, n) => ReadComes(i, n)'
    BY <2>3, <2>4, <2>7 DEF ReadComes
  <2>12. \A i \in Places, k \in Kinds : Open(i)' /\ k \in streams[i].want => ListenerWants(k)'
    BY <2>3, <2>5, <2>9 DEF ListenerWants
  <2>13. \A i \in Places : Open(i) => streams[i].fd \in conns BY DEF StreamsAreConnections
  <2>14. QED BY <2>3, <2>4, <2>5, <2>8, <2>10, <2>11, <2>12, <2>13, SrvAlone, Carried
<1>7. CASE Stop
  <2>1. UNCHANGED <<streams, sent, value, shown, delivery, count, kindOf, unkept, conns, pub, id,
                    sinks, asking, queued, srv, refused>> /\ work' = Append(work, "shutdown")
    BY <1>7 DEF Stop, vars, hubVars, listenerVars, history
  <2>2. FlushWaits => FlushWaits' BY <2>1, FlushWaitsOn
  <2>3. \A i \in Places : Open(i)' <=> Open(i) BY <2>1 DEF Open
  <2>4. FlushComes => FlushComes' BY <2>1, <2>2 DEF FlushComes
  <2>5. QueuedIsAsked' BY <2>1, <2>2 DEF QueuedIsAsked
  <2>6. /\ \A k \in StateKinds : StateOwed(k) => StateOwed(k)'
        /\ \A i \in Places, n \in 1 .. count : ReadComes(i, n) => ReadComes(i, n)'
    BY <2>1, <2>4, StillOwed
  <2>7. \A i \in Places : Open(i) => streams[i].fd \in conns BY DEF StreamsAreConnections
  <2>8. \A k \in Kinds : ListenerWants(k) => ListenerWants(k)' BY <2>1 DEF ListenerWants
  <2>9. QED BY <2>1, <2>3, <2>5, <2>6, <2>7, <2>8, SrvAlone, Carried
<1>8. CASE UNCHANGED allVars
  BY <1>1, <1>8 DEF allVars, webVars, vars, hubVars, listenerVars, history
<1>9. QED BY <1>2, <1>3, <1>5, <1>6, <1>7, <1>8 DEF Console

----------------------------------------------------------------------------
(* Steps of those who publish. *)

\* A step of theirs before the mark, which leaves the streams and what is marked alone: a state
\* that changes is about to be marked, and a happening is at its publisher's.
LEMMA PublishingKeeps ==
    ASSUME RingIInv, NotifyIInv, RingIInv', NotifyIInv', StreamsIInv, WebTyped', Placed',
           NEW p \in Publishers, Publishing(p)
    PROVE  StreamsIInv'
<1> USE HubIs, WebIs DEF StreamsIInv
<1>1. UNCHANGED <<httpd, work, queued, asking, srv, con, conns, closing, streams, sent,
                  refused, shown, base, had, upto, missed, sinks, id>>
  BY DEF Publishing, serverVars, streamHistory, delivery, Happened, Changed, Store, listenerVars
<1>2. /\ \A i \in Places : (Open(i)' <=> Open(i)) /\ (Running(i)' <=> Running(i)) /\ (Opening(i)' <=> Opening(i))
      /\ FlushWaits' <=> FlushWaits
      /\ \A k \in Kinds : ListenerWants(k)' <=> ListenerWants(k)
  BY <1>1 DEF Open, Running, Opening, FlushWaits, ListenerWants
<1>3. StreamsAreConnections' /\ QueuedIsAsked' /\ StreamsAreHeard' /\ SentIsShown'
  <2>1. StreamsAreConnections' BY <1>1, <1>2 DEF StreamsAreConnections
  <2>2. QueuedIsAsked' BY <1>1, <1>2 DEF QueuedIsAsked
  <2>3. \A i \in Places : streams[i].want \in SUBSET Kinds BY DEF WebTyped, StreamRecord
  <2>4. StreamsAreHeard' BY <1>1, <1>2, <2>3 DEF StreamsAreHeard
  <2>5. SentIsShown' BY <1>1, <1>2 DEF SentIsShown
  <2>6. QED BY <2>1, <2>2, <2>4, <2>5
<1>4. ASSUME pub[p].pc # "call", NEW r \in PubType, pub' = [pub EXCEPT ![p] = r], r.pc # "call",
             \A s \in Slots : r.fns[s] = None
      PROVE  /\ \A q \in Publishers : q # p => pub'[q] = pub[q]
             /\ pub'[p] = r
             /\ FlushComes => FlushComes'
  <2>1. (\A q \in Publishers : q # p => pub'[q] = pub[q]) /\ pub'[p] = r BY <1>4
  <2>2. \A q \in Publishers : pub'[q].fns = pub[q].fns \/ q = p BY <2>1
  <2>3. \A s \in Slots : pub[p].fns[s] = None BY <1>4
  <2>4. FlushComes => FlushComes' BY <1>1, <1>2, <2>2, <2>3 DEF FlushComes
  <2>5. QED BY <2>1, <2>4
<1>5. NoFns \in [Slots -> FnOrNone] /\ \A s \in Slots : NoFns[s] = None BY NoFnsType DEF NoFns
<1>6. ASSUME NEW k \in Kinds, Happened(p, k), value' = value PROVE StreamsIInv'
  <2> DEFINE r == [pc |-> "store", kind |-> k, n |-> count + 1, fns |-> NoFns]
  <2>1. /\ pub[p].pc = "idle" /\ pub' = [pub EXCEPT ![p] = r] /\ count' = count + 1
        /\ kindOf' = Append(kindOf, k) /\ unkept' = unkept
    BY <1>6 DEF Happened
  <2>2. r \in PubType /\ r.pc = "store" /\ r.n = count + 1 /\ r.fns = NoFns
    BY <1>5 DEF PubType, KindOrNone
  <2> HIDE DEF r
  <2>3. (\A q \in Publishers : q # p => pub'[q] = pub[q]) /\ pub'[p] = r /\ (FlushComes => FlushComes')
    BY <1>4, <1>5, <2>1, <2>2
  <2>4. \A n \in 1 .. count : kindOf'[n] = kindOf[n] BY <2>1
  <2>5. \A j \in StateKinds : StateOwed(j) => StateOwed(j)'
    BY <1>1, <2>1, <2>3 DEF StateOwed
  <2>6. StatesOwed' BY <1>1, <1>2, <1>6, <2>5 DEF StatesOwed
  <2>7. MarksNumbered' BY <2>1, <2>2, <2>3, <2>4 DEF MarksNumbered
  <2>8. StreamsAreRead'
    <3>1. ASSUME NEW i \in Places, Open(i)'
          PROVE  /\ upto'[i] <= count'
                 /\ Running(i)' \/ srv'.pc = "want" => streams'[i].seq = SeqOf(upto'[i])
                 /\ Running(i)' => \A n \in base'[i] + 1 .. upto'[i] :
                       n > count' - Kept /\ kindOf'[n] \in streams'[i].want
                          => n \in had'[i] \cup missed'[i] \cup unkept'
      <4>1. Open(i) /\ (Running(i)' <=> Running(i)) BY <1>2, <3>1
      <4>2. upto[i] \in Nat /\ base[i] \in Nat /\ Kept \in Nat BY LimitsAssumption DEF WebTyped
      <4>3. upto[i] <= count BY <4>1 DEF StreamsAreRead
      <4>4. upto'[i] <= count' BY <1>1, <2>1, <4>2, <4>3
      <4>5. Running(i)' \/ srv'.pc = "want" => streams'[i].seq = SeqOf(upto'[i])
        BY <1>1, <4>1 DEF StreamsAreRead
      <4>6. ASSUME Running(i), NEW n \in base[i] + 1 .. upto[i], n > count + 1 - Kept,
                   kindOf'[n] \in streams[i].want
            PROVE  n \in had[i] \cup missed[i] \cup unkept
        <5>1. n \in 1 .. count /\ n > count - Kept BY <4>2, <4>3, <4>6
        <5>2. kindOf[n] \in streams[i].want BY <2>4, <4>6, <5>1
        <5>3. QED BY <4>1, <4>6, <5>1, <5>2 DEF StreamsAreRead
      <4>7. ASSUME Running(i)', NEW n \in base'[i] + 1 .. upto'[i], n > count' - Kept,
                   kindOf'[n] \in streams'[i].want
            PROVE  n \in had'[i] \cup missed'[i] \cup unkept'
        <5>1. Running(i) BY <4>1, <4>7
        <5>2. base' = base /\ upto' = upto /\ streams' = streams /\ had' = had /\ missed' = missed
              /\ count' = count + 1 /\ unkept' = unkept
          BY <1>1, <2>1
        <5>3. n \in base[i] + 1 .. upto[i] BY <5>2
        <5>4. n > count + 1 - Kept BY <4>2, <4>7, <5>2, HubIs
        <5>5. kindOf'[n] \in streams[i].want BY <4>7, <5>2
        <5>6. n \in had[i] \cup missed[i] \cup unkept BY ONLY <4>6, <5>1, <5>3, <5>4, <5>5
        <5>7. QED BY <5>2, <5>6
      <4>8. QED BY <4>4, <4>5, <4>7
    <3>2. QED BY <3>1 DEF StreamsAreRead
  <2>9. HappeningsOwed'
    <3> SUFFICES ASSUME NEW i \in Places, Running(i), NEW n \in 1 .. count + 1,
                        n > base[i], n > upto[i], kindOf'[n] \in streams[i].want
                 PROVE  ReadComes(i, n)'
      BY <1>1, <1>2, <2>1 DEF HappeningsOwed
    <3>1. CASE n = count + 1 BY <2>2, <2>3, <3>1 DEF ReadComes
    <3>2. CASE n # count + 1
      <4>1. n \in 1 .. count BY <3>2
      <4>2. ReadComes(i, n) BY <2>4, <4>1 DEF HappeningsOwed
      <4>3. QED BY <1>1, <2>1, <2>3, <4>2 DEF ReadComes
    <3>3. QED BY <3>1, <3>2
  <2>10. QED BY <1>3, <2>6, <2>7, <2>8, <2>9
\* The count, the numbers' kinds and what the streams were sent are as they were.
<1>7. ASSUME UNCHANGED <<count, kindOf>>, unkept \subseteq unkept' PROVE StreamsAreRead'
  <2>1. count' = count /\ kindOf' = kindOf BY <1>7
  <2>2. ASSUME NEW i \in Places, Open(i), Running(i), NEW n \in base[i] + 1 .. upto[i],
               n > count - Kept, kindOf[n] \in streams[i].want
        PROVE  n \in had[i] \cup missed[i] \cup unkept'
    BY <1>7, <2>2 DEF StreamsAreRead
  <2>3. ASSUME NEW i \in Places, Open(i)'
        PROVE  /\ upto'[i] <= count'
               /\ Running(i)' \/ srv'.pc = "want" => streams'[i].seq = SeqOf(upto'[i])
               /\ Running(i)' => \A n \in base'[i] + 1 .. upto'[i] :
                     n > count' - Kept /\ kindOf'[n] \in streams'[i].want
                        => n \in had'[i] \cup missed'[i] \cup unkept'
    <3>1. Open(i) /\ (Running(i)' <=> Running(i)) BY <1>2, <2>3
    <3>2. upto'[i] <= count' BY <1>1, <2>1, <3>1 DEF StreamsAreRead
    <3>3. Running(i)' \/ srv'.pc = "want" => streams'[i].seq = SeqOf(upto'[i])
      BY <1>1, <3>1 DEF StreamsAreRead
    <3>4. QED BY <1>1, <2>1, <2>2, <3>1, <3>2, <3>3
  <2>4. QED BY <2>3 DEF StreamsAreRead
<1>8. ASSUME NEW k \in StateKinds, NEW v \in 0 .. 1, Changed(p, k),
             value' = IF k = System THEN value ELSE [value EXCEPT ![k] = v]
      PROVE  StreamsIInv'
  <2> DEFINE r == [pc |-> "mark", kind |-> k, n |-> 0, fns |-> NoFns]
  <2>1. /\ pub[p].pc = "idle" /\ pub' = [pub EXCEPT ![p] = r] /\ UNCHANGED <<count, kindOf, unkept>>
    BY <1>8 DEF Changed, history
  <2>2. r \in PubType /\ r.pc = "mark" /\ r.kind = k /\ r.n = 0 /\ r.fns = NoFns
    BY <1>5 DEF PubType, KindOrNone, Kinds
  <2> HIDE DEF r
  <2>3. (\A q \in Publishers : q # p => pub'[q] = pub[q]) /\ pub'[p] = r /\ (FlushComes => FlushComes')
    BY <1>4, <1>5, <2>1, <2>2
  <2>4. StateOwed(k)' /\ \A j \in StateKinds : StateOwed(j) => StateOwed(j)'
    BY <1>1, <2>1, <2>2, <2>3 DEF StateOwed
  <2>5. \A j \in StateKinds : j # k => value'[j] = value[j] BY <1>8 DEF WebTyped
  <2>6. StatesOwed' BY <1>1, <1>2, <2>4, <2>5 DEF StatesOwed
  <2>7. MarksNumbered' BY <2>1, <2>2, <2>3 DEF MarksNumbered
  <2>8. StreamsAreRead' BY <1>7, <2>1
  <2>9. \A i \in Places, n \in 1 .. count : ReadComes(i, n) => ReadComes(i, n)'
    BY <1>1, <2>1, <2>3 DEF ReadComes
  <2>10. HappeningsOwed' BY <1>1, <1>2, <2>1, <2>9 DEF HappeningsOwed
  <2>11. QED BY <1>3, <2>6, <2>7, <2>8, <2>10
<1>9. ASSUME NEW made \in BOOLEAN, Store(p, made), value' = value PROVE StreamsIInv'
  <2> DEFINE r == [pub[p] EXCEPT !.pc = "mark"]
  <2>1. /\ pub[p].pc = "store" /\ pub' = [pub EXCEPT ![p] = r] /\ UNCHANGED <<count, kindOf>>
        /\ unkept \subseteq unkept'
    BY <1>9 DEF Store
  <2>2. /\ r \in PubType /\ r.pc = "mark" /\ r.kind = pub[p].kind /\ r.n = pub[p].n
        /\ \A s \in Slots : r.fns[s] = None
    BY <2>1 DEF PubType
  <2> HIDE DEF r
  <2>3. (\A q \in Publishers : q # p => pub'[q] = pub[q]) /\ pub'[p] = r /\ (FlushComes => FlushComes')
    BY <1>4, <2>1, <2>2
  <2>4. \A j \in StateKinds : StateOwed(j) => StateOwed(j)' BY <1>1, <2>1, <2>3 DEF StateOwed
  <2>5. StatesOwed' BY <1>1, <1>2, <1>9, <2>4 DEF StatesOwed
  <2>6. pub[p].n \in 1 .. count /\ pub[p].kind = kindOf[pub[p].n] BY <2>1 DEF RingIInv, PubInv
  <2>7. MarksNumbered' BY <2>1, <2>2, <2>3, <2>6 DEF MarksNumbered
  <2>8. StreamsAreRead' BY <1>7, <2>1
  <2>9. \A i \in Places, n \in 1 .. count : ReadComes(i, n) => ReadComes(i, n)'
    BY <1>1, <2>2, <2>3 DEF ReadComes
  <2>10. HappeningsOwed' BY <1>1, <1>2, <2>1, <2>9 DEF HappeningsOwed
  <2>11. QED BY <1>3, <2>5, <2>7, <2>8, <2>10
<1>10. QED BY <1>6, <1>8, <1>9 DEF Publishing

\* What the streams were sent is as it was, and the happenings too.
LEMMA ReadAsBefore ==
    ASSUME StreamsAreRead, UNCHANGED <<count, kindOf, unkept, base, upto, had, missed>>,
           \A i \in Places : Open(i)' => Open(i) /\ streams'[i] = streams[i] /\ (Running(i)' => Running(i)),
           srv'.pc = "want" => srv.pc = "want"
    PROVE  StreamsAreRead'
<1>1. ASSUME NEW i \in Places, Open(i)'
      PROVE  /\ upto'[i] <= count'
             /\ Running(i)' \/ srv'.pc = "want" => streams'[i].seq = SeqOf(upto'[i])
             /\ Running(i)' => \A n \in base'[i] + 1 .. upto'[i] :
                   n > count' - Kept /\ kindOf'[n] \in streams'[i].want
                      => n \in had'[i] \cup missed'[i] \cup unkept'
  <2>1. Open(i) /\ streams'[i] = streams[i] /\ (Running(i)' => Running(i)) BY <1>1
  <2>2. upto'[i] <= count' BY <2>1 DEF StreamsAreRead
  <2>3. Running(i)' \/ srv'.pc = "want" => streams'[i].seq = SeqOf(upto'[i]) BY <2>1 DEF StreamsAreRead
  <2>4. ASSUME Running(i)', NEW n \in base'[i] + 1 .. upto'[i], n > count' - Kept,
               kindOf'[n] \in streams'[i].want
        PROVE  n \in had'[i] \cup missed'[i] \cup unkept'
    BY <2>1, <2>4 DEF StreamsAreRead
  <2>5. QED BY <2>2, <2>3, <2>4
<1>2. QED BY <1>1 DEF StreamsAreRead

\* notify() under the lock: what the listener wants is marked for it, and its callback collected.
LEMMA MarkingKeeps ==
    ASSUME RingIInv, NotifyIInv, StreamsIInv, WebTyped', Placed', NEW p \in Publishers, Marking(p)
    PROVE  StreamsIInv'
<1> USE HubIs, WebIs DEF StreamsIInv
<1> DEFINE k == pub[p].kind
           r == [pub[p] EXCEPT !.pc = "call",
                               !.fns = [s \in Slots |-> IF Wants(s, k) THEN sinks[s].fn ELSE None]]
<1>1. UNCHANGED <<httpd, work, queued, asking, srv, con, conns, closing, streams, sent, value,
                  refused, base, had, upto, missed, id, count, kindOf, unkept>>
  BY DEF Marking, Mark, serverVars, streamVars, delivery, listenerVars, history
<1>2. /\ pub[p].pc = "mark" /\ pub' = [pub EXCEPT ![p] = r]
      /\ sinks' = [s \in Slots |-> IF Wants(s, k) /\ k \in StateKinds
                                   THEN [sinks[s] EXCEPT !.dirty = @ \cup {k}] ELSE sinks[s]]
  BY DEF Marking, Mark
<1>3. /\ r.pc = "call"
      /\ \A s \in Slots : r.fns[s] = IF Wants(s, k) THEN sinks[s].fn ELSE None
  BY DEF PubType
<1> HIDE DEF r
<1>4. (\A q \in Publishers : q # p => pub'[q] = pub[q]) /\ pub'[p] = r BY <1>2
<1>5. ASSUME NEW s \in Slots
      PROVE  /\ sinks'[s].want = sinks[s].want /\ sinks[s].dirty \subseteq sinks'[s].dirty
             /\ Wants(s, k) /\ k \in StateKinds => k \in sinks'[s].dirty
  BY <1>2 DEF SinkType
<1>6. \A i \in Places, j \in StateKinds :
         \/ shown'[i][j] = shown[i][j]
         \/ shown[i][j] = Never /\ shown'[i][j] = Due /\ j = k /\ Heard(i, k)
  BY DEF Marking
<1>7. /\ \A i \in Places : (Open(i)' <=> Open(i)) /\ (Running(i)' <=> Running(i)) /\ (Opening(i)' <=> Opening(i))
      /\ FlushWaits' <=> FlushWaits
  BY <1>1 DEF Open, Running, Opening, FlushWaits
<1>8. \A j \in Kinds : ListenerWants(j) => ListenerWants(j)' BY <1>1, <1>5 DEF ListenerWants
<1>9. ListenerWants(k) => FlushComes' /\ (k \in StateKinds => k \in sinks'[id'[Web]].dirty)
  <2> SUFFICES ASSUME ListenerWants(k)
               PROVE  FlushComes' /\ (k \in StateKinds => k \in sinks'[id'[Web]].dirty)
    OBVIOUS
  <2>1. id[Web] \in Slots /\ sinks[id[Web]].fn = Web /\ id'[Web] # -1 BY <1>1 DEF ListenerWants
  <2>2. Wants(id[Web], k) BY <2>1 DEF ListenerWants, Wants
  <2>3. pub'[p].fns[id'[Web]] = Web BY <1>1, <1>3, <1>4, <2>1, <2>2
  <2>4. QED BY <1>1, <1>5, <2>1, <2>2, <2>3 DEF FlushComes
<1>10. FlushComes => FlushComes'
  <2>1. \A s \in Slots : pub[p].fns[s] = None BY <1>2
  <2>2. QED BY <1>1, <1>4, <1>7, <2>1 DEF FlushComes
<1>11. ASSUME NEW i \in Places, Open(i), k \in streams[i].want
       PROVE  ListenerWants(k) \/ (Opening(i) /\ (k \in StateKinds => shown[i][k] = Never))
  BY <1>11 DEF StreamsAreHeard
<1>12. StreamsAreConnections' BY <1>1, <1>7 DEF StreamsAreConnections
<1>13. QueuedIsAsked' BY <1>1, <1>7 DEF QueuedIsAsked
<1>14. \A i \in Places : streams[i].want \in SUBSET Kinds BY DEF WebTyped, StreamRecord
<1>15. ASSUME NEW i \in Places, Heard(i, k) PROVE ListenerWants(k)
  BY <1>15 DEF Heard, ListenerWants, Wants
<1>16. StreamsAreHeard'
  <2>1. ASSUME NEW i \in Places, Open(i)', NEW j \in streams'[i].want
        PROVE  ListenerWants(j)' \/ (Opening(i)' /\ (j \in StateKinds => shown'[i][j] = Never))
    <3>1. j \in Kinds /\ Open(i) /\ j \in streams[i].want BY <1>1, <1>7, <1>14, <2>1
    <3>2. CASE ListenerWants(j) BY <1>8, <3>1, <3>2
    <3>3. CASE Opening(i) /\ (j \in StateKinds => shown[i][j] = Never)
      BY <1>6, <1>7, <1>8, <1>15, <3>1, <3>3
    <3>4. QED BY <3>1, <3>2, <3>3 DEF StreamsAreHeard
  <2>2. QED BY <2>1 DEF StreamsAreHeard
<1>17. SentIsShown'
  <2>1. ASSUME NEW i \in Places, Open(i)', NEW j \in streams'[i].want \cap StateKinds, sent'[j] # -1
        PROVE  shown'[i][j] \in {sent'[j], Unmade}
    <3>1. shown[i][j] \in {sent[j], Unmade} BY <1>1, <1>7, <2>1 DEF SentIsShown
    <3>2. shown[i][j] # Never BY <1>1, <2>1, <3>1 DEF Never, Unmade
    <3>3. QED BY <1>1, <1>6, <3>1, <3>2
  <2>2. QED BY <2>1 DEF SentIsShown
<1>18. StatesOwed'
  <2>1. ASSUME NEW i \in Places, Open(i)', NEW j \in streams'[i].want \cap StateKinds
        PROVE  shown'[i][j] \in {Never, Unmade, value'[j]} \/ StateOwed(j)'
    <3>1. Open(i) /\ j \in streams[i].want BY <1>1, <1>7, <2>1
    <3>2. CASE shown[i][j] = Never /\ shown'[i][j] = Due /\ j = k /\ Heard(i, k)
      BY <1>1, <1>9, <1>15, <3>2 DEF StateOwed, ListenerWants
    <3>3. CASE shown'[i][j] = shown[i][j]
      <4>1. CASE shown[i][j] \in {Never, Unmade, value[j]} BY <1>1, <3>3, <4>1
      <4>2. CASE shown[i][j] \notin {Never, Unmade, value[j]}
        <5>1. StateOwed(j) BY <3>1, <4>2 DEF StatesOwed
        <5>2. CASE pub[p].kind = j
          <6>1. ListenerWants(k) BY <1>11, <3>1, <4>2, <5>2
          <6>2. QED BY <1>1, <1>9, <5>2, <6>1 DEF StateOwed, ListenerWants
        <5>3. CASE pub[p].kind # j
          <6>1. CASE \E q \in Publishers : pub[q].pc = "mark" /\ pub[q].kind = j
            BY <1>4, <5>3, <6>1 DEF StateOwed
          <6>2. CASE id[Web] # -1 /\ j \in sinks[id[Web]].dirty /\ FlushComes
            BY <1>1, <1>5, <1>10, <6>2 DEF StateOwed
          <6>3. CASE srv.pc = "states" /\ j \in srv.rest BY <1>1, <6>3 DEF StateOwed
          <6>4. QED BY <5>1, <6>1, <6>2, <6>3 DEF StateOwed
        <5>4. QED BY <5>2, <5>3
      <4>3. QED BY <4>1, <4>2
    <3>4. QED BY <1>6, <3>2, <3>3
  <2>2. QED BY <2>1 DEF StatesOwed
<1>19. MarksNumbered' BY <1>1, <1>3, <1>4 DEF MarksNumbered
<1>20. StreamsAreRead' BY <1>1, <1>7, ReadAsBefore
<1>21. HappeningsOwed'
  <2>1. ASSUME NEW i \in Places, Running(i)', NEW n \in 1 .. count', n > base'[i], n > upto'[i],
               kindOf'[n] \in streams'[i].want
        PROVE  ReadComes(i, n)'
    <3>1. Running(i) /\ Open(i) /\ n \in 1 .. count /\ kindOf[n] \in streams[i].want
      BY <1>1, <1>7, <2>1 DEF Running
    <3>2. ReadComes(i, n) BY <1>1, <2>1, <3>1 DEF HappeningsOwed
    <3>3. CASE pub[p].n = n
      <4>1. k = kindOf[n] BY <1>2, <3>1, <3>3 DEF MarksNumbered
      <4>2. ~Opening(i) BY <3>1 DEF Running, Opening
      <4>3. ListenerWants(k) BY <1>11, <3>1, <4>1, <4>2
      <4>4. QED BY <1>9, <4>3 DEF ReadComes
    <3>4. CASE pub[p].n # n
      BY <1>1, <1>4, <1>10, <3>2, <3>4 DEF ReadComes
    <3>5. QED BY <3>3, <3>4
  <2>2. QED BY <2>1 DEF HappeningsOwed
<1>22. QED BY <1>12, <1>13, <1>16, <1>17, <1>18, <1>19, <1>20, <1>21

\* queue_flush() leaves a flush to the one that is asked for, or asks for it: the message is
\* taken, refused, or swallowed.
LEMMA AskingKeeps ==
    ASSUME RingIInv, NotifyIInv, StreamsIInv, WebTyped', Placed', NEW p \in Publishers,
           \/ Returning(p)
           \/ \E s \in Slots : QueueFlush(p, s)
           \/ \E taken \in BOOLEAN : QueueWork(p, taken)
    PROVE  StreamsIInv'
<1> USE HubIs, WebIs DEF StreamsIInv
<1>1. \A i \in Places : Open(i) => streams[i].fd \in conns BY DEF StreamsAreConnections
<1>2. ASSUME UNCHANGED <<streams, sent, value, shown, delivery, count, kindOf, unkept, conns, srv, id, sinks>>,
             FlushComes => FlushComes', QueuedIsAsked',
             \A q \in Publishers : \/ pub'[q].pc = "call" \/ pub'[q].pc = "idle"
                                   \/ pub'[q] = pub[q],
             pub'[p].pc = pub[p].pc \/ pub[p].pc = "call",
             \A q \in Publishers : q # p => pub'[q] = pub[q],
             pub[p].pc \in {"store", "mark"} => pub'[p] = pub[p]
      PROVE  StreamsIInv'
  <2>1. \A i \in Places : Open(i)' <=> Open(i) BY <1>2 DEF Open
  <2>2. \A q \in Publishers : pub'[q].pc = "mark" => pub'[q] = pub[q] BY <1>2
  <2>3. \A k \in Kinds : ListenerWants(k) => ListenerWants(k)' BY <1>2 DEF ListenerWants
  <2>4. \A k \in StateKinds : StateOwed(k) => StateOwed(k)' BY <1>2 DEF StateOwed
  <2>5. \A i \in Places, n \in 1 .. count : ReadComes(i, n) => ReadComes(i, n)' BY <1>2 DEF ReadComes
  <2>6. QED BY <1>1, <1>2, <2>1, <2>2, <2>3, <2>4, <2>5, SrvAlone, Carried
<1>3. CASE Returning(p)
  <2>1. /\ pub[p].pc = "call" /\ pub[p].fns = NoFns /\ pub' = [pub EXCEPT ![p] = Idle]
        /\ UNCHANGED <<streams, sent, value, shown, delivery, count, kindOf, unkept, conns, srv, id, sinks,
                       asking, work, refused, queued>>
    BY <1>3 DEF Returning, Return, webVars, serverVars, streamVars, streamHistory, listenerVars, history
  <2>2. (\A q \in Publishers : q # p => pub'[q] = pub[q]) /\ pub'[p] = Idle BY <2>1
  <2>3. FlushWaits' <=> FlushWaits BY <2>1 DEF FlushWaits
  <2>4. \A s \in Slots : pub[p].fns[s] = None BY <2>1 DEF NoFns
  <2>5. FlushComes => FlushComes' BY <2>1, <2>2, <2>3, <2>4 DEF FlushComes
  <2>6. QueuedIsAsked' BY <2>1, <2>3 DEF QueuedIsAsked
  <2>7. pub'[p].pc = "idle" BY <2>2 DEF Idle
  <2>8. QED BY <1>2, <2>1, <2>2, <2>5, <2>6, <2>7
<1>4. ASSUME NEW s \in Slots, QueueFlush(p, s) PROVE StreamsIInv'
  <2> DEFINE r == [pub[p] EXCEPT !.fns[s] = None]
  <2>1. /\ pub[p].pc = "call" /\ pub' = [pub EXCEPT ![p] = r]
        /\ UNCHANGED <<streams, sent, value, shown, delivery, count, kindOf, unkept, conns, srv, id, sinks,
                       work, refused>>
    BY <1>4 DEF QueueFlush, Call, NextCall, streamVars, streamHistory, history
  <2>2. r.pc = "call" BY <2>1 DEF PubType
  <2> HIDE DEF r
  <2>3. (\A q \in Publishers : q # p => pub'[q] = pub[q]) /\ pub'[p] = r BY <2>1
  <2>4. FlushWaits' <=> FlushWaits BY <2>1 DEF FlushWaits
  <2>5. CASE httpd = "off"
    <3>1. \A i \in Places : ~Open(i)' BY <2>1, <2>5, OffHasNone DEF Open
    <3>2. queued' = queued /\ asking' = asking
      BY <1>4, <2>5 DEF QueueFlush, WebTyped
    <3>3. QueuedIsAsked' BY <2>1, <2>4, <3>2 DEF QueuedIsAsked
    <3>4. MarksNumbered' BY <2>1, <2>2, <2>3 DEF MarksNumbered
    <3>5. QED
      BY <3>1, <3>3, <3>4 DEF StreamsAreConnections, StreamsAreHeard, SentIsShown, StatesOwed, StreamsAreRead,
                              HappeningsOwed, Running
  <2>6. CASE httpd # "off"
    <3>1. CASE queued
      <4>1. asking' = asking BY <1>4, <3>1 DEF QueueFlush
      <4>2. asking # {} \/ FlushWaits \/ refused = "swallowed" BY <3>1 DEF QueuedIsAsked
      <4>3. QueuedIsAsked' /\ FlushComes' BY <2>1, <2>4, <4>1, <4>2 DEF QueuedIsAsked, FlushComes
      <4>4. QED BY <1>2, <2>1, <2>2, <2>3, <4>3
    <3>2. CASE ~queued
      <4>1. asking' # {} BY <1>4, <2>6, <3>2 DEF QueueFlush
      <4>2. QueuedIsAsked' /\ FlushComes' BY <4>1 DEF QueuedIsAsked, FlushComes
      <4>3. QED BY <1>2, <2>1, <2>2, <2>3, <4>2
    <3>3. QED BY <3>1, <3>2
  <2>7. QED BY <2>5, <2>6
<1>5. ASSUME NEW taken \in BOOLEAN, QueueWork(p, taken) PROVE StreamsIInv'
  <2>1. UNCHANGED <<streams, sent, value, shown, delivery, count, kindOf, unkept, conns, srv, id, sinks, pub>>
    BY <1>5 DEF QueueWork, streamVars, vars, hubVars, listenerVars, history
  <2>2. CASE taken /\ httpd = "on"
    <3>1. work' = Append(work, "flush") BY <1>5, <2>2 DEF QueueWork
    <3>2. FlushWaits' BY <3>1, FlushWaitsOn
    <3>3. QueuedIsAsked' /\ FlushComes' BY <3>2 DEF QueuedIsAsked, FlushComes
    <3>4. QED BY <1>2, <2>1, <3>3
  <2>3. CASE taken /\ httpd # "on"
    <3>1. refused' = "swallowed" BY <1>5, <2>3 DEF QueueWork
    <3>2. QueuedIsAsked' /\ FlushComes' BY <3>1 DEF QueuedIsAsked, FlushComes
    <3>3. QED BY <1>2, <2>1, <3>2
  <2>4. CASE ~taken
    <3>1. refused' = "refused" /\ ~queued' BY <1>5, <2>4 DEF QueueWork
    <3>2. QueuedIsAsked' /\ FlushComes' BY <3>1 DEF QueuedIsAsked, FlushComes
    <3>3. QED BY <1>2, <2>1, <3>2
  <2>5. QED BY <2>2, <2>3, <2>4
<1>6. QED BY <1>3, <1>4, <1>5

----------------------------------------------------------------------------
(* Steps of the server's task. *)

\* web_events_get(): the place was free, and the connection is new.
LEMMA OpenStreamKeeps ==
    ASSUME RingIInv, NotifyIInv, StreamsIInv, WebTyped', Placed',
           NEW i \in Places, NEW fd \in Fds, NEW want \in Masks, NEW after \in Afters,
           OpenStream(i, fd, want, after)
    PROVE  StreamsIInv'
<1> USE HubIs, WebIs DEF StreamsIInv
<1> DEFINE from == IF after = -1 THEN SeqOf(count) ELSE after
           stream == [fd |-> fd, want |-> want, seq |-> from]
<1>1. /\ ~Open(i) /\ fd \notin conns /\ srv.pc = "idle"
      /\ streams' = [streams EXCEPT ![i] = stream] /\ sent' = NotSent
      /\ conns' = conns \cup {fd}
      /\ srv' = [pc |-> IF after = -1 THEN "want" ELSE "wantReplay", rest |-> {}, at |-> i]
      /\ shown' = [shown EXCEPT ![i] = NotShown]
      /\ base' = [base EXCEPT ![i] = count] /\ upto' = [upto EXCEPT ![i] = count]
      /\ had' = [had EXCEPT ![i] = {}] /\ missed' = [missed EXCEPT ![i] = {}]
      /\ UNCHANGED <<httpd, work, queued, asking, con, closing, value, refused, sinks, id, pub, count,
                     kindOf, unkept>>
  BY DEF OpenStream, SentAtOpen, vars, hubVars, listenerVars, history
<1>2. /\ streams'[i] = stream /\ stream.fd = fd /\ fd # NoFd /\ stream.want = want /\ stream.seq = from
      /\ shown'[i] = NotShown /\ upto'[i] = count /\ base'[i] = count
      /\ \A j \in Places : j # i => /\ streams'[j] = streams[j] /\ shown'[j] = shown[j] /\ base'[j] = base[j]
                                    /\ upto'[j] = upto[j] /\ had'[j] = had[j] /\ missed'[j] = missed[j]
  BY <1>1 DEF WebTyped
<1> HIDE DEF stream
<1>3. srv'.at = i /\ srv'.pc \in {"want", "wantReplay"} /\ (srv'.pc = "want" => after = -1) BY <1>1
<1>4. /\ Open(i)' /\ Opening(i)' /\ ~Running(i)'
      /\ \A j \in Places : j # i => /\ (Open(j)' <=> Open(j)) /\ (Running(j)' <=> Running(j))
                                    /\ ~Opening(j)
  BY <1>1, <1>2, <1>3 DEF Open, Opening, Running
<1>5. FlushWaits' <=> FlushWaits BY <1>1 DEF FlushWaits
<1>6. \A k \in Kinds : ListenerWants(k)' <=> ListenerWants(k) BY <1>1 DEF ListenerWants
<1>7. FlushComes => FlushComes' BY <1>1, <1>5 DEF FlushComes
<1>8. StreamsAreConnections'
  <2>1. ASSUME NEW j \in Places, Open(j)'
        PROVE  streams'[j].fd \in conns' /\ \A l \in Places : streams'[l].fd = streams'[j].fd => j = l
    <3>1. CASE j = i
      <4>1. ASSUME NEW l \in Places, l # i PROVE streams[l].fd # fd
        <5>1. CASE Open(l) BY <1>1, <5>1 DEF StreamsAreConnections
        <5>2. CASE ~Open(l) BY <1>2, <5>2 DEF Open
        <5>3. QED BY <5>1, <5>2
      <4>2. QED BY <1>1, <1>2, <3>1, <4>1
    <3>2. CASE j # i
      <4>1. Open(j) /\ streams[j].fd \in conns /\ streams'[j] = streams[j] BY <1>2, <1>4, <2>1, <3>2 DEF StreamsAreConnections
      <4>2. streams[j].fd # fd BY <1>1, <4>1
      <4>3. ASSUME NEW l \in Places, streams'[l].fd = streams'[j].fd PROVE j = l
        <5>1. l # i BY <1>2, <4>1, <4>2, <4>3
        <5>2. QED BY <1>2, <4>1, <4>3, <5>1 DEF StreamsAreConnections
      <4>4. QED BY <1>1, <4>1, <4>3
    <3>3. QED BY <3>1, <3>2
  <2>2. QED BY <2>1 DEF StreamsAreConnections
<1>9. QueuedIsAsked' BY <1>1, <1>5 DEF QueuedIsAsked
<1>10. \A k \in StateKinds : shown'[i][k] = Never BY <1>2 DEF NotShown
<1>11. StreamsAreHeard'
  <2>1. ASSUME NEW j \in Places, Open(j)', NEW k \in streams'[j].want
        PROVE  ListenerWants(k)' \/ (Opening(j)' /\ (k \in StateKinds => shown'[j][k] = Never))
    <3>1. CASE j = i BY <1>4, <1>10, <3>1
    <3>2. CASE j # i
      <4>1. Open(j) /\ k \in streams[j].want /\ ~Opening(j) /\ k \in Kinds
        BY <1>2, <1>4, <2>1, <3>2 DEF WebTyped, StreamRecord
      <4>2. ListenerWants(k) BY <4>1 DEF StreamsAreHeard
      <4>3. QED BY <1>6, <4>1, <4>2
    <3>3. QED BY <3>1, <3>2
  <2>2. QED BY <2>1 DEF StreamsAreHeard
<1>12. SentIsShown' BY <1>1 DEF SentIsShown, NotSent
<1>13. \A k \in StateKinds : StateOwed(k) => StateOwed(k)' BY <1>1, <1>7 DEF StateOwed
<1>14. StatesOwed'
  <2>1. ASSUME NEW j \in Places, Open(j)', NEW k \in streams'[j].want \cap StateKinds
        PROVE  shown'[j][k] \in {Never, Unmade, value'[k]} \/ StateOwed(k)'
    <3>1. CASE j = i BY <1>10, <3>1
    <3>2. CASE j # i BY <1>1, <1>2, <1>4, <1>13, <2>1, <3>2 DEF StatesOwed
    <3>3. QED BY <3>1, <3>2
  <2>2. QED BY <2>1 DEF StatesOwed
<1>15. MarksNumbered' BY <1>1 DEF MarksNumbered
<1>16. StreamsAreRead'
  <2>1. ASSUME NEW j \in Places, Open(j)'
        PROVE  /\ upto'[j] <= count'
               /\ Running(j)' \/ srv'.pc = "want" => streams'[j].seq = SeqOf(upto'[j])
               /\ Running(j)' => \A n \in base'[j] + 1 .. upto'[j] :
                     n > count' - Kept /\ kindOf'[n] \in streams'[j].want
                        => n \in had'[j] \cup missed'[j] \cup unkept'
    <3>1. CASE j = i
      <4>1. upto'[j] <= count' BY <1>1, <1>2, <3>1
      <4>2. Running(j)' \/ srv'.pc = "want" => streams'[j].seq = SeqOf(upto'[j])
        BY <1>1, <1>2, <1>3, <1>4, <3>1
      <4>3. QED BY <1>4, <3>1, <4>1, <4>2
    <3>2. CASE j # i
      <4>1. Open(j) /\ (Running(j)' <=> Running(j)) /\ Running(j) BY <1>1, <1>4, <2>1, <3>2 DEF Running
      <4>2. /\ upto'[j] = upto[j] /\ base'[j] = base[j] /\ had'[j] = had[j] /\ missed'[j] = missed[j]
            /\ streams'[j] = streams[j] /\ count' = count /\ kindOf' = kindOf /\ unkept' = unkept
        BY <1>1, <1>2, <3>2
      <4>3. /\ upto[j] <= count /\ streams[j].seq = SeqOf(upto[j])
            /\ \A n \in base[j] + 1 .. upto[j] :
                  n > count - Kept /\ kindOf[n] \in streams[j].want
                     => n \in had[j] \cup missed[j] \cup unkept
        BY <4>1 DEF StreamsAreRead
      <4>4. QED BY ONLY <4>2, <4>3
    <3>3. QED BY <3>1, <3>2
  <2>2. QED BY <2>1 DEF StreamsAreRead
<1>17. HappeningsOwed'
  <2>1. ASSUME NEW j \in Places, Running(j)', NEW n \in 1 .. count', n > base'[j], n > upto'[j],
               kindOf'[n] \in streams'[j].want
        PROVE  ReadComes(j, n)'
    <3>1. j # i BY <1>4, <2>1
    <3>2. Running(j) /\ n \in 1 .. count /\ kindOf[n] \in streams[j].want /\ n > base[j] /\ n > upto[j]
      BY <1>1, <1>2, <1>4, <2>1, <3>1
    <3>3. ReadComes(j, n) BY <3>2 DEF HappeningsOwed
    <3>4. QED BY <1>1, <1>7, <3>3 DEF ReadComes
  <2>2. QED BY <2>1 DEF HappeningsOwed
<1>18. QED BY <1>8, <1>9, <1>11, <1>12, <1>14, <1>15, <1>16, <1>17

\* The union of what the streams want is the listener's from here on, and the stream that was being
\* opened is due what happens from here.
LEMMA UpdateWantKeeps ==
    ASSUME RingIInv, NotifyIInv, StreamsIInv, WebTyped', Placed', UpdateWant
    PROVE  StreamsIInv'
<1> USE HubIs, WebIs DEF StreamsIInv
<1>1. /\ srv.pc \in {"want", "wantReplay"} /\ srv.at \in Places
      /\ Wanting(Union) /\ Union \in SUBSET Kinds
      /\ srv' = IF srv.pc = "want" THEN Waiting ELSE [srv EXCEPT !.pc = "replay"]
      /\ base' = IF srv.pc = "want" THEN [base EXCEPT ![srv.at] = count] ELSE base
      /\ UNCHANGED <<httpd, work, queued, asking, conns, streams, sent, value, refused, shown, had, upto, missed>>
  BY UnionKinds DEF UpdateWant, streamVars, Placed
<1>2. /\ UNCHANGED <<count, pub, kindOf, unkept>>
      /\ id'[Web] # -1 /\ id'[Web] \in Slots /\ sinks'[id'[Web]].want = Union
      /\ id[Web] # -1 => id'[Web] = id[Web] /\ sinks'[id[Web]].dirty = sinks[id[Web]].dirty \cap Union
  BY <1>1, WantingIs
<1>3. /\ srv.pc = "want" => srv'.pc = "idle"
      /\ srv.pc = "wantReplay" => srv'.pc = "replay" /\ srv'.at = srv.at
  BY <1>1 DEF Waiting, WebTyped, SrvRecord
<1>4. /\ \A i \in Places : Open(i)' <=> Open(i)
      /\ FlushWaits' <=> FlushWaits
  BY <1>1 DEF Open, FlushWaits
<1>5. FlushComes => FlushComes' BY <1>1, <1>2, <1>4 DEF FlushComes
<1>6. ASSUME NEW i \in Places, Open(i), NEW k \in streams[i].want PROVE k \in Union
  BY <1>6 DEF Union
<1>7. StreamsAreConnections' BY <1>1, <1>4 DEF StreamsAreConnections
<1>8. QueuedIsAsked' BY <1>1, <1>4 DEF QueuedIsAsked
<1>9. StreamsAreHeard' BY <1>1, <1>2, <1>4, <1>6 DEF StreamsAreHeard, ListenerWants
<1>10. SentIsShown' BY <1>1, <1>4 DEF SentIsShown
<1>11. StatesOwed'
  <2>1. ASSUME NEW i \in Places, Open(i)', NEW k \in streams'[i].want \cap StateKinds
        PROVE  shown'[i][k] \in {Never, Unmade, value'[k]} \/ StateOwed(k)'
    <3>1. Open(i) /\ k \in streams[i].want /\ k \in Union BY <1>1, <1>4, <1>6, <2>1
    <3>2. StateOwed(k) => StateOwed(k)' BY <1>1, <1>2, <1>5, <3>1 DEF StateOwed
    <3>3. QED BY <1>1, <2>1, <3>1, <3>2 DEF StatesOwed
  <2>2. QED BY <2>1 DEF StatesOwed
<1>12. MarksNumbered' BY <1>2 DEF MarksNumbered
<1>13. ASSUME NEW i \in Places, i # srv.at \/ srv.pc = "wantReplay"
       PROVE  base'[i] = base[i] /\ (Running(i)' => Running(i))
  BY <1>1, <1>3, <1>4, <1>13 DEF Running, WebTyped
<1>14. srv.pc = "want" => base'[srv.at] = count BY <1>1 DEF WebTyped
<1>15. StreamsAreRead'
  <2>1. ASSUME NEW i \in Places, Open(i)'
        PROVE  /\ upto'[i] <= count'
               /\ Running(i)' \/ srv'.pc = "want" => streams'[i].seq = SeqOf(upto'[i])
               /\ Running(i)' => \A n \in base'[i] + 1 .. upto'[i] :
                     n > count' - Kept /\ kindOf'[n] \in streams'[i].want
                        => n \in had'[i] \cup missed'[i] \cup unkept'
    <3>1. /\ Open(i) /\ srv'.pc # "want" /\ upto'[i] = upto[i] /\ had'[i] = had[i] /\ missed'[i] = missed[i]
          /\ streams'[i] = streams[i] /\ count' = count /\ kindOf' = kindOf /\ unkept' = unkept
      BY <1>1, <1>2, <1>3, <1>4, <2>1
    <3>2. /\ upto[i] <= count /\ upto[i] \in Nat /\ base[i] \in Nat
          /\ Running(i) \/ srv.pc = "want" => streams[i].seq = SeqOf(upto[i])
          /\ Running(i) => \A n \in base[i] + 1 .. upto[i] :
                n > count - Kept /\ kindOf[n] \in streams[i].want
                   => n \in had[i] \cup missed[i] \cup unkept
      BY <3>1 DEF StreamsAreRead, WebTyped
    <3>3. CASE i # srv.at \/ srv.pc = "wantReplay"
      <4>1. base'[i] = base[i] /\ (Running(i)' => Running(i)) BY <1>13, <3>3
      <4>2. QED BY ONLY <3>1, <3>2, <4>1
    <3>4. CASE i = srv.at /\ srv.pc = "want"
      <4>1. base'[i] = count BY <1>14, <3>4
      <4>2. \A n \in base'[i] + 1 .. upto'[i] : FALSE BY <3>1, <3>2, <4>1
      <4>3. QED BY ONLY <3>1, <3>2, <3>4, <4>2
    <3>5. QED BY <1>1, <3>3, <3>4
  <2>2. QED BY <2>1 DEF StreamsAreRead
<1>16. HappeningsOwed'
  <2>1. ASSUME NEW i \in Places, Running(i)', NEW n \in 1 .. count', n > base'[i], n > upto'[i],
               kindOf'[n] \in streams'[i].want
        PROVE  ReadComes(i, n)'
    <3>1. i # srv.at \/ srv.pc = "wantReplay" BY <1>1, <1>2, <1>14, <2>1
    <3>2. Running(i) /\ n \in 1 .. count /\ n > base[i] /\ n > upto[i] /\ kindOf[n] \in streams[i].want
      BY <1>1, <1>2, <1>13, <2>1, <3>1
    <3>3. ReadComes(i, n) BY <3>2 DEF HappeningsOwed
    <3>4. QED BY <1>1, <1>2, <1>5, <3>3 DEF ReadComes
  <2>2. QED BY <2>1 DEF HappeningsOwed
<1>17. QED BY <1>7, <1>8, <1>9, <1>10, <1>11, <1>12, <1>15, <1>16

\* A flush starts, takes what is marked, and goes from the states to the happenings.
LEMMA FlushKeeps ==
    ASSUME RingIInv, NotifyIInv, StreamsIInv, WebTyped', Placed', StartFlush \/ TakeDirty \/ StatesDone
    PROVE  StreamsIInv'
<1> USE HubIs, WebIs DEF StreamsIInv
<1>1. \A i \in Places : Open(i) => streams[i].fd \in conns BY DEF StreamsAreConnections
<1>2. UNCHANGED <<streams, sent, value, shown, delivery, count, kindOf, unkept, conns, id, pub, asking>>
  BY DEF StartFlush, TakeDirty, StatesDone, Take, hubRest, streamVars, streamHistory, vars, hubVars,
         listenerVars, history
<1>3. \A i \in Places : Open(i)' <=> Open(i) BY <1>2 DEF Open
<1>4. CASE StartFlush
  <2>1. srv.pc = "idle" /\ srv' = [pc |-> "take", rest |-> {}, at |-> 0] /\ ~queued' /\ sinks' = sinks
    BY <1>4 DEF StartFlush, Serving, hubRest, vars, hubVars
  <2>2. FlushComes' BY <2>1 DEF FlushComes
  <2>3. QueuedIsAsked' BY <2>1 DEF QueuedIsAsked
  <2>4. \A k \in Kinds : ListenerWants(k) => ListenerWants(k)' BY <1>2, <2>1 DEF ListenerWants
  <2>5. \A k \in StateKinds : StateOwed(k) => StateOwed(k)' BY <1>2, <2>1, <2>2 DEF StateOwed
  <2>6. \A i \in Places, n \in 1 .. count : ReadComes(i, n)' BY <2>2 DEF ReadComes
  <2>7. \A i \in Places : ~Opening(i) /\ (Running(i)' => Running(i)) BY <1>3, <2>1 DEF Opening, Running
  <2>8. QED BY <1>1, <1>2, <1>3, <2>1, <2>3, <2>4, <2>5, <2>6, <2>7, Carried
<1>5. CASE TakeDirty
  <2>1. /\ srv.pc = "take" /\ srv' = [pc |-> "states", rest |-> sinks[id[Web]].dirty, at |-> 0]
        /\ id[Web] # -1 /\ sinks' = [sinks EXCEPT ![id[Web]].dirty = {}]
        /\ UNCHANGED <<work, queued, refused>>
    BY <1>5 DEF TakeDirty, Take, streamHistory
  <2>2. FlushWaits' <=> FlushWaits BY <2>1 DEF FlushWaits
  <2>3. QueuedIsAsked' BY <1>2, <2>1, <2>2 DEF QueuedIsAsked
  <2> DEFINE sink == [sinks[id[Web]] EXCEPT !.dirty = {}]
  <2>4. sinks' = [sinks EXCEPT ![id[Web]] = sink] /\ sink.want = sinks[id[Web]].want
    BY <2>1 DEF SinkType
  <2>5. \A k \in Kinds : ListenerWants(k) => ListenerWants(k)' BY <1>2, <2>1, <2>4 DEF ListenerWants
  <2>6. \A k \in StateKinds : StateOwed(k) => StateOwed(k)' BY <1>2, <2>1 DEF StateOwed
  <2>7. \A i \in Places, n \in 1 .. count : ReadComes(i, n)' BY <2>1 DEF ReadComes
  <2>8. \A i \in Places : ~Opening(i) /\ (Running(i)' => Running(i)) BY <1>3, <2>1 DEF Opening, Running
  <2>9. QED BY <1>1, <1>2, <1>3, <2>1, <2>3, <2>5, <2>6, <2>7, <2>8, Carried
<1>6. CASE StatesDone
  <2>1. /\ srv.pc = "states" /\ srv.rest = {} /\ srv' = [pc |-> "happenings", rest |-> {}, at |-> 1]
        /\ UNCHANGED <<sinks, work, queued, refused>>
    BY <1>6 DEF StatesDone, hubRest, vars, hubVars, streamHistory
  <2>2. FlushWaits' <=> FlushWaits BY <2>1 DEF FlushWaits
  <2>3. QueuedIsAsked' BY <1>2, <2>1, <2>2 DEF QueuedIsAsked
  <2>4. \A k \in Kinds : ListenerWants(k) => ListenerWants(k)' BY <1>2, <2>1 DEF ListenerWants
  <2>5. FlushComes => FlushComes' BY <1>2, <2>1, <2>2 DEF FlushComes
  <2>6. \A k \in StateKinds : StateOwed(k) => StateOwed(k)' BY <1>2, <2>1, <2>5 DEF StateOwed
  <2>7. \A i \in Places : 1 <= i BY DEF Places
  <2>8. \A i \in Places, n \in 1 .. count : ReadComes(i, n) => ReadComes(i, n)'
    BY <1>2, <2>1, <2>5, <2>7 DEF ReadComes
  <2>9. \A i \in Places : ~Opening(i) /\ (Running(i)' => Running(i)) BY <1>3, <2>1 DEF Opening, Running
  <2>10. QED BY <1>1, <1>2, <1>3, <2>1, <2>3, <2>4, <2>6, <2>8, <2>9, Carried
<1>7. QED BY <1>4, <1>5, <1>6

\* A stream that stays is on the connection it was on.
LEMMA OnConnections ==
    ASSUME StreamsAreConnections,
           \A i \in Places : Open(i)' => streams'[i].fd = streams[i].fd /\ streams[i].fd \in conns'
    PROVE  StreamsAreConnections'
<1>1. ASSUME NEW i \in Places, Open(i)'
      PROVE  streams'[i].fd \in conns' /\ \A j \in Places : streams'[j].fd = streams'[i].fd => i = j
  <2>1. ASSUME NEW j \in Places, streams'[j].fd = streams'[i].fd PROVE i = j
    <3>1. Open(j)' BY <1>1, <2>1 DEF Open
    <3>2. streams[j].fd = streams[i].fd /\ Open(i) BY <1>1, <2>1, <3>1 DEF Open
    <3>3. QED BY <3>2 DEF StreamsAreConnections
  <2>2. QED BY <1>1, <2>1
<1>2. QED BY <1>1 DEF StreamsAreConnections

\* A dirty state is sent to the streams that want it, or was sent to them last, or there is no
\* memory for it.
LEMMA SendStateKeeps ==
    ASSUME RingIInv, NotifyIInv, StreamsIInv, WebTyped', Placed',
           NEW k \in StateKinds, NEW made \in {"all", "json", "none"}, SendState(k, made)
    PROVE  StreamsIInv'
<1> USE HubIs, WebIs DEF StreamsIInv
<1> DEFINE to == {i \in Places : Open(i) /\ k \in streams[i].want}
           again == k # System /\ sent[k] = value[k]
           sends == to # {} /\ made # "none" /\ ~again
<1>1. /\ srv.pc = "states" /\ k \in srv.rest /\ srv' = [srv EXCEPT !.rest = @ \ {k}]
      /\ sent' = IF sends THEN [sent EXCEPT ![k] = value[k]] ELSE sent
      /\ shown' = [i \in Places |->
                        IF i \notin to \/ (again /\ made # "none") THEN shown[i]
                        ELSE [shown[i] EXCEPT ![k] = IF made = "all" THEN value[k] ELSE Unmade]]
      /\ UNCHANGED <<id, sinks, pub, count, kindOf, unkept, asking, conns, value, work, queued, refused,
                     base, had, upto, missed>>
  BY DEF SendState, hubRest, vars, hubVars, listenerVars, history, delivery
<1>2. PICK bad \in SUBSET IF sends /\ made = "all" THEN to ELSE {} : Drop(bad, streams)
  BY DEF SendState
<1>3. bad \in SUBSET Places /\ \A i \in bad : Open(i) BY <1>2
<1>4. \A i \in Places : streams'[i] = IF i \in bad THEN NoStream ELSE streams[i] BY <1>3, <1>2 DEF Drop
<1>5. \A i \in Places : Open(i)' => Open(i) /\ streams'[i] = streams[i] BY <1>4, NoStreamIs DEF Open
<1>6. srv'.pc = "states" /\ srv'.rest = srv.rest \ {k} BY <1>1 DEF WebTyped, SrvRecord
<1>7. \A i \in Places : ~Opening(i) /\ (Running(i)' => Running(i)) BY <1>1, <1>5 DEF Opening, Running
<1>8. FlushWaits' <=> FlushWaits BY <1>1 DEF FlushWaits
<1>9. FlushComes => FlushComes' BY <1>1, <1>8 DEF FlushComes
<1>10. ASSUME NEW i \in Places, NEW j \in StateKinds, j # k
       PROVE  /\ sent'[j] = sent[j] /\ shown'[i][j] = shown[i][j]
              /\ StateOwed(j) => StateOwed(j)'
  <2>1. sent'[j] = sent[j] /\ shown'[i][j] = shown[i][j] BY <1>1, <1>10 DEF WebTyped
  <2>2. StateOwed(j) => StateOwed(j)' BY <1>1, <1>6, <1>9, <1>10 DEF StateOwed
  <2>3. QED BY <2>1, <2>2
<1>11. ASSUME NEW i \in Places, i \in to
       PROVE  /\ sent'[k] # -1 => shown'[i][k] \in {sent'[k], Unmade}
              /\ shown'[i][k] \in {value[k], Unmade}
  <2>1. value[k] # -1 /\ Open(i) /\ k \in streams[i].want
    <3>1. value[k] \in 0 .. 1 BY DEF WebTyped
    <3>2. QED BY <1>11, <3>1
  <2>2. CASE again /\ made # "none"
    <3>1. shown'[i] = shown[i] /\ sent' = sent BY <1>1, <2>2
    <3>2. shown[i][k] \in {sent[k], Unmade} BY <2>1, <2>2 DEF SentIsShown
    <3>3. QED BY <2>2, <3>1, <3>2
  <2>3. CASE ~(again /\ made # "none")
    <3>1. shown'[i][k] = IF made = "all" THEN value[k] ELSE Unmade BY <1>1, <1>11, <2>3 DEF WebTyped
    <3>2. made = "none" \/ sent'[k] = value[k] BY <1>1, <1>11, <2>3 DEF WebTyped
    <3>3. QED BY <3>1, <3>2
  <2>4. QED BY <2>2, <2>3
<1>12. StreamsAreConnections' BY <1>1, <1>5, OnConnections DEF StreamsAreConnections
<1>13. QueuedIsAsked' BY <1>1, <1>8 DEF QueuedIsAsked
<1>14. StreamsAreHeard'
  <2>1. ASSUME NEW i \in Places, Open(i)', NEW j \in streams'[i].want PROVE ListenerWants(j)'
    <3>1. ListenerWants(j) BY <1>5, <1>7, <2>1 DEF StreamsAreHeard
    <3>2. QED BY <1>1, <3>1 DEF ListenerWants
  <2>2. QED BY <2>1 DEF StreamsAreHeard
<1>15. SentIsShown'
  <2>1. ASSUME NEW i \in Places, Open(i)', NEW j \in streams'[i].want \cap StateKinds, sent'[j] # -1
        PROVE  shown'[i][j] \in {sent'[j], Unmade}
    <3>1. Open(i) /\ j \in streams[i].want BY <1>5, <2>1
    <3>2. CASE j = k BY <1>11, <2>1, <3>1, <3>2
    <3>3. CASE j # k BY <1>10, <2>1, <3>1, <3>3 DEF SentIsShown
    <3>4. QED BY <3>2, <3>3
  <2>2. QED BY <2>1 DEF SentIsShown
<1>16. StatesOwed'
  <2>1. ASSUME NEW i \in Places, Open(i)', NEW j \in streams'[i].want \cap StateKinds
        PROVE  shown'[i][j] \in {Never, Unmade, value'[j]} \/ StateOwed(j)'
    <3>1. Open(i) /\ j \in streams[i].want BY <1>5, <2>1
    <3>2. CASE j = k BY <1>1, <1>11, <3>1, <3>2
    <3>3. CASE j # k BY <1>1, <1>10, <3>1, <3>3 DEF StatesOwed
    <3>4. QED BY <3>2, <3>3
  <2>2. QED BY <2>1 DEF StatesOwed
<1>17. MarksNumbered' BY <1>1 DEF MarksNumbered
<1>18. StreamsAreRead' BY <1>1, <1>5, <1>6, <1>7, ReadAsBefore
<1>19. HappeningsOwed' BY <1>1, <1>5, <1>6, <1>7 DEF HappeningsOwed, ReadComes
<1>20. QED BY <1>12, <1>13, <1>14, <1>15, <1>16, <1>17, <1>18, <1>19

\* events_since() for a stream: after the read it has what it is due up to the latest, and the others
\* are as they were.
LEMMA ReadKeeps ==
    ASSUME RingIInv, NotifyIInv, StreamsIInv, WebTyped', Placed', NEW made \in BOOLEAN,
           NEW i \in Places, i = srv.at,
           \/ Replay(made)
           \/ srv.pc = "happenings" /\ Open(i) /\ FlushHappenings(made)
    PROVE  StreamsIInv'
<1> USE HubIs, WebIs DEF StreamsIInv
<1> DEFINE new == Since(streams[i].seq, streams[i].want \ StateKinds)
           read == [streams EXCEPT ![i].seq = SeqOf(count)]
           next == IF srv.pc = "replay" \/ i = MaxStreams THEN Waiting ELSE [srv EXCEPT !.at = @ + 1]
<1>1. SendHappenings(i, made, next) /\ srv.pc \in {"replay", "happenings"}
  BY DEF Replay, FlushHappenings
<1>2. i \in Places /\ (srv.pc = "happenings" => Open(i)) BY <1>1 DEF Placed, Replay
<1>3. /\ had' = [had EXCEPT ![i] = IF made THEN @ \cup new ELSE @]
      /\ upto' = [upto EXCEPT ![i] = count]
      /\ missed' = [missed EXCEPT ![i] = @ \cup {n \in 1 .. count : InFlight(n)}
                                           \cup (IF made THEN {} ELSE new)
                                           \cup IF count - upto[i] < SeqMod THEN {} ELSE 1 .. count]
      /\ base' = IF srv.pc = "replay" THEN [base EXCEPT ![i] = From(streams[i].seq, count)] ELSE base
      /\ srv' = next
      /\ UNCHANGED <<id, sinks, pub, count, kindOf, unkept, asking, conns, value, work, queued, sent, refused,
                     shown>>
  BY <1>1 DEF SendHappenings, hubRest, vars, hubVars, listenerVars, history
<1>4. PICK bad \in SUBSET {i} : Drop(bad, read) BY <1>1 DEF SendHappenings
<1> DEFINE stream == [streams[i] EXCEPT !.seq = SeqOf(count)]
<1>5. stream.fd = streams[i].fd /\ stream.want = streams[i].want /\ stream.seq = SeqOf(count)
  BY <1>2 DEF WebTyped, StreamRecord
<1>6. /\ \A j \in Places : j # i => streams'[j] = streams[j]
      /\ streams'[i] \in {NoStream, stream}
  BY <1>2, <1>4 DEF Drop, WebTyped
<1> HIDE DEF stream, next
<1>7. ASSUME NEW j \in Places, Open(j)'
      PROVE  Open(j) /\ streams'[j].fd = streams[j].fd /\ streams'[j].want = streams[j].want
  <2>1. CASE j = i BY <1>5, <1>6, <1>7, <2>1, NoStreamIs DEF Open
  <2>2. CASE j # i BY <1>6, <1>7, <2>2 DEF Open
  <2>3. QED BY <2>1, <2>2
<1>8. Open(i)' => streams'[i].seq = SeqOf(count) BY <1>5, <1>6, NoStreamIs DEF Open
<1>9. srv'.pc \in {"idle", "happenings"} /\ (srv'.pc = "happenings" => srv'.at = i + 1 /\ i # MaxStreams)
  BY <1>3, <1>1 DEF next, Waiting, WebTyped, SrvRecord
<1>10. \A j \in Places : ~Opening(j) /\ (Open(j)' => Running(j)') /\ (Open(j) /\ j # i => Running(j))
  BY <1>1, <1>9 DEF Opening, Running
<1>11. srv.pc = "happenings" => Running(i) BY <1>2 DEF Running
<1>12. FlushWaits' <=> FlushWaits BY <1>3 DEF FlushWaits
<1>13. FlushComes => FlushComes' BY <1>1, <1>3, <1>12 DEF FlushComes
<1>14. StreamsAreConnections' BY <1>3, <1>7, OnConnections DEF StreamsAreConnections
<1>15. QueuedIsAsked' BY <1>3, <1>12 DEF QueuedIsAsked
<1>16. StreamsAreHeard'
  <2>1. ASSUME NEW j \in Places, Open(j)', NEW k \in streams'[j].want PROVE ListenerWants(k)'
    <3>1. ListenerWants(k) BY <1>7, <1>10, <2>1 DEF StreamsAreHeard
    <3>2. QED BY <1>3, <3>1 DEF ListenerWants
  <2>2. QED BY <2>1 DEF StreamsAreHeard
<1>17. SentIsShown' BY <1>3, <1>7 DEF SentIsShown
<1>18. \A k \in StateKinds : StateOwed(k) => StateOwed(k)' BY <1>1, <1>3, <1>13 DEF StateOwed
<1>19. StatesOwed' BY <1>3, <1>7, <1>18 DEF StatesOwed
<1>20. MarksNumbered' BY <1>3 DEF MarksNumbered
<1>21. ASSUME NEW n \in 1 .. count, Open(i), n > base'[i], n > count - Kept, kindOf[n] \in streams[i].want
       PROVE  n \in had'[i] \cup missed'[i] \cup unkept
  <2>1. /\ had[i] \subseteq had'[i] /\ missed[i] \subseteq missed'[i]
        /\ InFlight(n) => n \in missed'[i]
        /\ n \in new => n \in had'[i] \cup missed'[i]
        /\ ~(count - upto[i] < SeqMod) => n \in missed'[i]
    <3>1. had'[i] = (IF made THEN had[i] \cup new ELSE had[i]) BY <1>2, <1>3 DEF WebTyped
    <3>2. missed'[i] = missed[i] \cup {m \in 1 .. count : InFlight(m)} \cup (IF made THEN {} ELSE new)
                          \cup IF count - upto[i] < SeqMod THEN {} ELSE 1 .. count
      BY <1>2, <1>3 DEF WebTyped
    <3> HIDE DEF new
    <3>3. QED BY <3>1, <3>2
  <2>2. CASE n > From(streams[i].seq, count)
    <3>1. kindOf[n] \in streams[i].want \ StateKinds BY <1>21, KindsAssumption
    <3>2. n >= Oldest(count) BY <1>21, LimitsAssumption DEF Oldest
    <3>3. \/ ring[n % Kept].n = n /\ ring[n % Kept].kind = kindOf[n]
          \/ InFlight(n) \/ n \in unkept
      BY <1>21 DEF RingIInv, RingKeepsLatest
    <3>4. ring[n % Kept].n = n /\ ring[n % Kept].kind = kindOf[n] => n \in new
      BY <2>2, <3>1, <3>2 DEF Since
    <3> HIDE DEF new
    <3>5. QED BY <2>1, <3>3, <3>4
  <2>3. CASE ~(n > From(streams[i].seq, count))
    <3>1. From(streams[i].seq, count) \in Nat
      BY <1>2, FromType DEF WebTyped, StreamRecord
    <3>2. srv.pc = "happenings"
      <4>1. srv.pc = "replay" => base'[i] = From(streams[i].seq, count) BY <1>2, <1>3 DEF WebTyped
      <4>2. QED BY <1>1, <1>21, <2>3, <4>1
    <3>3. /\ Running(i) /\ base'[i] = base[i] /\ upto[i] <= count /\ upto[i] \in Nat /\ base[i] \in Nat
          /\ streams[i].seq = SeqOf(upto[i])
      BY <1>2, <1>3, <1>11, <3>2 DEF StreamsAreRead, WebTyped
    <3>4. count - upto[i] < SeqMod => From(streams[i].seq, count) = upto[i] BY <3>3, FromCursor
    <3>5. CASE count - upto[i] < SeqMod
      <4>1. n \in base[i] + 1 .. upto[i] BY <1>21, <2>3, <3>3, <3>4, <3>5
      <4>2. n \in had[i] \cup missed[i] \cup unkept
        BY <1>2, <1>21, <3>3, <4>1 DEF StreamsAreRead
      <4>3. QED BY <2>1, <4>2
    <3>6. QED BY <2>1, <3>5
  <2>4. QED BY <2>2, <2>3
<1> HIDE DEF new
<1>22. upto'[i] = count /\ \A j \in Places : j # i => /\ upto'[j] = upto[j] /\ base'[j] = base[j]
                                                      /\ had'[j] = had[j] /\ missed'[j] = missed[j]
  BY <1>2, <1>3 DEF WebTyped
<1>23. StreamsAreRead'
  <2>1. ASSUME NEW j \in Places, Open(j)'
        PROVE  /\ upto'[j] <= count'
               /\ Running(j)' \/ srv'.pc = "want" => streams'[j].seq = SeqOf(upto'[j])
               /\ Running(j)' => \A n \in base'[j] + 1 .. upto'[j] :
                     n > count' - Kept /\ kindOf'[n] \in streams'[j].want
                        => n \in had'[j] \cup missed'[j] \cup unkept'
    <3>1. CASE j = i
      <4>1. upto'[j] = count /\ streams'[j].seq = SeqOf(count) /\ Open(i) /\ streams'[j].want = streams[i].want
            /\ base'[i] \in Nat
        BY <1>2, <1>7, <1>8, <1>22, <2>1, <3>1 DEF WebTyped
      <4>2. ASSUME NEW n \in base'[i] + 1 .. count, n > count - Kept, kindOf[n] \in streams[i].want
            PROVE  n \in had'[i] \cup missed'[i] \cup unkept
        <5>1. n \in 1 .. count /\ n > base'[i] BY <4>1
        <5>2. QED BY <1>21, <4>1, <4>2, <5>1
      <4>3. count' = count /\ kindOf' = kindOf /\ unkept' = unkept /\ count <= count BY <1>3
      <4>4. QED BY ONLY <3>1, <4>1, <4>2, <4>3
    <3>2. CASE j # i
      <4>1. Open(j) /\ Running(j) /\ streams'[j] = streams[j] BY <1>6, <1>7, <1>10, <2>1, <3>2
      <4>2. /\ upto'[j] = upto[j] /\ base'[j] = base[j] /\ had'[j] = had[j] /\ missed'[j] = missed[j]
            /\ count' = count /\ kindOf' = kindOf /\ unkept' = unkept
        BY <1>3, <1>22, <3>2
      <4>3. /\ upto[j] <= count /\ streams[j].seq = SeqOf(upto[j])
            /\ \A n \in base[j] + 1 .. upto[j] :
                  n > count - Kept /\ kindOf[n] \in streams[j].want
                     => n \in had[j] \cup missed[j] \cup unkept
        BY <4>1 DEF StreamsAreRead
      <4>4. QED BY ONLY <4>1, <4>2, <4>3
    <3>3. QED BY <3>1, <3>2
  <2>2. QED BY <2>1 DEF StreamsAreRead
<1>24. HappeningsOwed'
  <2>1. ASSUME NEW j \in Places, Running(j)', NEW n \in 1 .. count', n > base'[j], n > upto'[j],
               kindOf'[n] \in streams'[j].want
        PROVE  ReadComes(j, n)'
    <3>1. j # i BY <1>3, <1>22, <2>1
    <3>2. Open(j)' BY <2>1 DEF Running
    <3>3. Running(j) /\ n \in 1 .. count /\ n > base[j] /\ n > upto[j] /\ kindOf[n] \in streams[j].want
      BY <1>3, <1>7, <1>10, <1>22, <2>1, <3>1, <3>2
    <3>4. ReadComes(j, n) BY <3>3 DEF HappeningsOwed
    <3>5. CASE srv.pc = "happenings" /\ i <= j
      <4>1. i # MaxStreams /\ i + 1 <= j BY <1>2, <3>1, <3>5 DEF Places
      <4>2. srv'.pc = "happenings" /\ srv'.at = i + 1
        BY <1>3, <3>5, <4>1 DEF next, WebTyped, SrvRecord
      <4>3. QED BY <4>1, <4>2 DEF ReadComes
    <3>6. CASE ~(srv.pc = "happenings" /\ i <= j)
      BY <1>1, <1>3, <1>13, <3>4, <3>6 DEF ReadComes
    <3>7. QED BY <3>5, <3>6
  <2>2. QED BY <2>1 DEF HappeningsOwed
<1>25. QED BY <1>14, <1>15, <1>16, <1>17, <1>19, <1>20, <1>23, <1>24

\* The steps that send nothing a stream is due, and those that close streams.
LEMMA ClosingKeeps ==
    ASSUME RingIInv, NotifyIInv, StreamsIInv, WebTyped', Placed',
           \/ SendBeat \/ Shutdown
           \/ srv.pc = "happenings" /\ ~Open(srv.at) /\ \E made \in BOOLEAN : FlushHappenings(made)
           \/ \E fd \in Fds : CloseOne(fd) \/ CloseLast(fd)
    PROVE  StreamsIInv'
<1> USE HubIs, WebIs DEF StreamsIInv
<1>1. \A i \in Places : Open(i) => streams[i].fd \in conns BY DEF StreamsAreConnections
<1>2. CASE SendBeat
  <2>1. UNCHANGED <<sent, value, shown, delivery, count, kindOf, unkept, conns, id, sinks, pub, asking, srv,
                    work, queued, refused>>
    BY <1>2 DEF SendBeat, hubRest, vars, hubVars, listenerVars, history, streamHistory
  <2>2. PICK bad \in SUBSET {i \in Places : Open(i) /\ System \notin streams[i].want} : Drop(bad, streams)
    BY <1>2 DEF SendBeat
  <2>3. \A i \in Places : Open(i)' => Open(i) /\ streams'[i] = streams[i]
    BY <2>2, NoStreamIs DEF Drop, Open
  <2>4. FlushWaits' <=> FlushWaits BY <2>1 DEF FlushWaits
  <2>5. FlushComes => FlushComes' BY <2>1, <2>4 DEF FlushComes
  <2>6. QueuedIsAsked' BY <2>1, <2>4 DEF QueuedIsAsked
  <2>7. /\ \A k \in StateKinds : StateOwed(k) => StateOwed(k)'
        /\ \A i \in Places, n \in 1 .. count : ReadComes(i, n) => ReadComes(i, n)'
    BY <2>1, <2>5, StillOwed
  <2>8. \A k \in Kinds : ListenerWants(k) => ListenerWants(k)' BY <2>1 DEF ListenerWants
  <2>9. QED BY <1>1, <2>1, <2>3, <2>6, <2>7, <2>8, SrvAlone, Carried
<1>3. CASE Shutdown
  <2>1. /\ work # <<>> /\ Head(work) = "shutdown"
        /\ refused' = IF "flush" \in {work[m] : m \in 2 .. Len(work)} THEN "swallowed" ELSE refused
        /\ UNCHANGED <<streams, sent, value, shown, delivery, count, kindOf, unkept, conns, id, sinks, pub,
                       asking, srv, queued>>
    BY <1>3 DEF Shutdown, Serving, closeRest, vars, hubVars, listenerVars, history
  <2>2. FlushWaits => refused' = "swallowed" BY <2>1, FlushWaitsOn
  <2>3. refused # "no" => refused' # "no" BY <2>1
  <2>4. FlushComes => FlushComes' BY <2>1, <2>2, <2>3 DEF FlushComes
  <2>5. QueuedIsAsked' BY <2>1, <2>2 DEF QueuedIsAsked
  <2>6. /\ \A k \in StateKinds : StateOwed(k) => StateOwed(k)'
        /\ \A i \in Places, n \in 1 .. count : ReadComes(i, n) => ReadComes(i, n)'
    BY <2>1, <2>4, StillOwed
  <2>7. \A k \in Kinds : ListenerWants(k) => ListenerWants(k)' BY <2>1 DEF ListenerWants
  <2>8. \A i \in Places : Open(i)' => Open(i) BY <2>1 DEF Open
  <2>9. QED BY <1>1, <2>1, <2>5, <2>6, <2>7, <2>8, SrvAlone, Carried
<1>4. ASSUME srv.pc = "happenings", ~Open(srv.at), NEW made \in BOOLEAN, FlushHappenings(made)
      PROVE  StreamsIInv'
  <2>1. /\ srv' = IF srv.at = MaxStreams THEN Waiting ELSE [srv EXCEPT !.at = @ + 1]
        /\ UNCHANGED <<streams, sent, value, shown, delivery, count, kindOf, unkept, conns, id, sinks, pub,
                       asking, work, queued, refused>>
    BY <1>4 DEF FlushHappenings, hubRest, vars, hubVars, listenerVars, history, streamHistory
  <2>2. \/ srv.at = MaxStreams /\ srv'.pc = "idle"
        \/ srv.at # MaxStreams /\ srv'.pc = "happenings" /\ srv'.at = srv.at + 1
    BY <1>4, <2>1 DEF Waiting, WebTyped, SrvRecord
  <2>3. FlushWaits' <=> FlushWaits BY <2>1 DEF FlushWaits
  <2>4. QueuedIsAsked' BY <2>1, <2>3 DEF QueuedIsAsked
  <2>5. FlushComes => FlushComes' BY <1>4, <2>1, <2>3 DEF FlushComes
  <2>6. \A k \in StateKinds : StateOwed(k) => StateOwed(k)' BY <1>4, <2>1, <2>5 DEF StateOwed
  <2>7. \A k \in Kinds : ListenerWants(k) => ListenerWants(k)' BY <2>1 DEF ListenerWants
  <2>8. \A i \in Places : Open(i)' <=> Open(i) BY <2>1 DEF Open
  <2>9. \A i \in Places : ~Opening(i) /\ (Running(i)' => Running(i))
    BY <1>4, <2>2, <2>8 DEF Opening, Running
  <2>10. ASSUME NEW i \in Places, NEW n \in 1 .. count, Open(i)', ReadComes(i, n) PROVE ReadComes(i, n)'
    <3>1. i # srv.at BY <1>4, <2>8, <2>10
    <3>2. srv.at \in Places BY <1>4 DEF Placed
    <3>3. srv.at <= i => srv.at # MaxStreams /\ srv.at + 1 <= i BY <3>1, <3>2 DEF Places
    <3>4. QED BY <1>4, <2>1, <2>2, <2>5, <2>10, <3>3 DEF ReadComes
  <2>11. QED BY <1>1, <1>4, <2>1, <2>2, <2>4, <2>6, <2>7, <2>8, <2>9, <2>10, Carried
<1>5. ASSUME NEW fd \in Fds, CloseOne(fd) \/ CloseLast(fd) PROVE StreamsIInv'
  <2> DEFINE on == {i \in Places : streams[i].fd = fd}
             left == Without(on)
             want == UNION {left[i].want : i \in {j \in Places : left[j].fd # NoFd}}
  <2>1. /\ streams' = left /\ conns' = conns \ {fd}
        /\ IF on = {} THEN UNCHANGED vars ELSE Wanting(want)
        /\ UNCHANGED <<work, srv, refused, queued, asking, sent, value, shown, delivery>>
    BY <1>5 DEF CloseOne, CloseLast, Close, closeRest
  <2>2. on \in SUBSET Places OBVIOUS
  <2>3. \A i \in Places : i \in on <=> streams[i].fd = fd OBVIOUS
  <2> HIDE DEF on
  <2>4. want \in SUBSET Kinds BY <2>2, WithoutIs
  <2>5. \A i \in Places : left[i] = IF i \in on THEN NoStream ELSE streams[i] BY <2>2, WithoutIs
  <2>6. \A i \in Places : Open(i)' => Open(i) /\ streams'[i] = streams[i] /\ streams[i].fd # fd
    BY <2>1, <2>3, <2>5, NoStreamIs DEF Open
  <2>7. ASSUME NEW i \in Places, Open(i)', NEW k \in streams[i].want PROVE k \in want
    <3>1. left[i].fd # NoFd /\ left[i].want = streams[i].want BY <2>1, <2>6, <2>7 DEF Open
    <3>2. QED BY <2>7, <3>1
  <2> HIDE DEF want, left
  <2>8. /\ UNCHANGED <<count, pub, kindOf, unkept>>
        /\ id[Web] # -1 => /\ id'[Web] = id[Web]
                           /\ \A k \in sinks[id[Web]].dirty : k \in want => k \in sinks'[id[Web]].dirty
        /\ \A k \in want : ListenerWants(k) => ListenerWants(k)'
    <3>1. CASE on = {} BY <2>1, <3>1 DEF vars, hubVars, listenerVars, history, ListenerWants
    <3>2. CASE on # {}
      <4>1. /\ UNCHANGED <<count, pub, kindOf, unkept>>
            /\ id'[Web] # -1 /\ sinks'[id'[Web]].want = want
            /\ id[Web] # -1 => id'[Web] = id[Web] /\ sinks'[id[Web]].dirty = sinks[id[Web]].dirty \cap want
        BY <2>1, <2>4, <3>2, WantingIs
      <4>2. QED BY <4>1 DEF ListenerWants
    <3>3. QED BY <3>1, <3>2
  <2>9. FlushWaits' <=> FlushWaits BY <2>1 DEF FlushWaits
  <2>10. FlushComes => FlushComes' BY <2>1, <2>8, <2>9 DEF FlushComes
  <2>11. QueuedIsAsked' BY <2>1, <2>9 DEF QueuedIsAsked
  <2>12. ASSUME NEW i \in Places, NEW k \in StateKinds, Open(i)', k \in streams[i].want, StateOwed(k)
         PROVE  StateOwed(k)'
    BY <2>1, <2>7, <2>8, <2>10, <2>12 DEF StateOwed
  <2>13. \A i \in Places, n \in 1 .. count : ReadComes(i, n) => ReadComes(i, n)'
    BY <2>1, <2>8, <2>10 DEF ReadComes
  <2>14. \A i \in Places : Open(i)' => streams'[i] = streams[i] /\ streams[i].fd \in conns'
    BY <1>1, <2>1, <2>6
  <2>15. \A i \in Places, k \in Kinds :
            Open(i)' /\ k \in streams[i].want /\ ListenerWants(k) => ListenerWants(k)'
    BY <2>7, <2>8
  <2>16. \A i \in Places : Open(i)' => Open(i) BY <2>6
  <2>17. \A i \in Places : (Opening(i) => Opening(i)') /\ (Running(i)' => Running(i))
    BY <2>1, <2>16, SrvAlone
  <2>18. QED BY <2>1, <2>8, <2>11, <2>12, <2>13, <2>14, <2>15, <2>17, Carried
<1>6. QED BY <1>2, <1>3, <1>4, <1>5

----------------------------------------------------------------------------
(* What the streams are promised. *)

LEMMA StreamsInit == WebInit => StreamsIInv
<1> SUFFICES ASSUME WebInit PROVE StreamsIInv OBVIOUS
<1>1. WebTyped /\ Placed BY WebTypedInit, WebIs DEF Placed, WebInit, Waiting
<1>2. \A i \in Places : ~Open(i) BY DEF WebInit, NoStream, Open
<1>3. /\ StreamsAreConnections /\ StreamsAreHeard /\ SentIsShown /\ StatesOwed
      /\ StreamsAreRead /\ HappeningsOwed
  BY <1>2 DEF StreamsAreConnections, StreamsAreHeard, SentIsShown, StatesOwed, StreamsAreRead,
              HappeningsOwed, Running
<1>4. QueuedIsAsked BY DEF WebInit, QueuedIsAsked
<1>5. MarksNumbered BY DEF WebInit, Init, Idle, MarksNumbered
<1>6. QED BY <1>1, <1>3, <1>4, <1>5 DEF StreamsIInv

LEMMA StreamsStep ==
    ASSUME RingIInv, NotifyIInv, StreamsIInv, [WebNext]_allVars
    PROVE  RingIInv' /\ NotifyIInv' /\ StreamsIInv'
<1>1. WebTyped' /\ Placed' BY WebTypedStep DEF StreamsIInv
<1>2. RingIInv' /\ NotifyIInv' BY HubStep, RingStep, NotifyStep DEF StreamsIInv
<1> SUFFICES StreamsIInv' BY <1>2
<1>3. CASE UNCHANGED allVars BY <1>1, <1>3, ConsoleKeeps
<1>4. CASE Console \/ Declaring BY <1>1, <1>4, ConsoleKeeps
<1>5. ASSUME NEW p \in Publishers, Publishing(p) \/ Notifying(p) PROVE StreamsIInv'
  <2>1. CASE Publishing(p) BY <1>1, <1>2, <2>1, PublishingKeeps
  <2>2. CASE Marking(p) BY <1>1, <2>2, MarkingKeeps
  <2>3. CASE Notifying(p) /\ ~Marking(p) BY <1>1, <2>3, AskingKeeps DEF Notifying
  <2>4. QED BY <1>5, <2>1, <2>2, <2>3
<1>6. CASE Clients BY <1>1, <1>6, OpenStreamKeeps DEF Clients
<1>7. CASE Server
  <2>1. CASE UpdateWant BY <1>1, <2>1, UpdateWantKeeps
  <2>2. CASE StartFlush \/ TakeDirty \/ StatesDone BY <1>1, <2>2, FlushKeeps
  <2>3. CASE SendBeat \/ Shutdown \/ \E fd \in Fds : CloseOne(fd) \/ CloseLast(fd)
    BY <1>1, <2>3, ClosingKeeps
  <2>4. ASSUME NEW k \in StateKinds, NEW made \in {"all", "json", "none"}, SendState(k, made)
        PROVE  StreamsIInv'
    BY <1>1, <2>4, SendStateKeeps
  <2>5. ASSUME NEW made \in BOOLEAN, Replay(made) \/ FlushHappenings(made) PROVE StreamsIInv'
    <3>1. srv.pc \in {"replay", "happenings"} BY <2>5 DEF Replay, FlushHappenings
    <3>2. PICK i \in Places : i = srv.at BY <3>1 DEF StreamsIInv, Placed
    <3>3. CASE Replay(made) BY <1>1, <3>2, <3>3, ReadKeeps
    <3>4. CASE FlushHappenings(made) /\ Open(i)
      <4>1. srv.pc = "happenings" BY <3>4 DEF FlushHappenings
      <4>2. QED BY <1>1, <3>2, <3>4, <4>1, ReadKeeps
    <3>5. CASE FlushHappenings(made) /\ ~Open(i)
      <4>1. srv.pc = "happenings" BY <3>5 DEF FlushHappenings
      <4>2. QED BY <1>1, <3>2, <3>5, <4>1, ClosingKeeps
    <3>6. QED BY <2>5, <3>3, <3>4, <3>5
  <2>6. QED BY <1>7, <2>1, <2>2, <2>3, <2>4, <2>5 DEF Server
<1>8. QED BY <1>3, <1>4, <1>5, <1>6, <1>7 DEF WebNext

\* When all is quiet nothing is owed to a stream that is open.
LEMMA StreamsPromises ==
    ASSUME RingIInv, NotifyIInv, StreamsIInv
    PROVE  WebTypeOK /\ StreamsAreConnections /\ QuietIsTold
<1> USE HubIs, WebIs DEF StreamsIInv
<1>1. WebTypeOK BY DEF WebTypeOK, WebTyped, SrvRecord, StreamRecord
<1>2. ASSUME Quiet
      PROVE  /\ \A k : ~StateOwed(k)
             /\ \A i \in Places, n \in 1 .. count : ~ReadComes(i, n)
             /\ \A i \in Places : Open(i) => Running(i)
  <2>1. /\ \A p \in Publishers : pub[p].pc = "idle"
        /\ asking = {} /\ srv.pc = "idle" /\ work = <<>> /\ refused = "no"
    BY <1>2 DEF Quiet
  <2>2. ~FlushWaits BY <2>1 DEF FlushWaits
  <2>3. \A p \in Publishers, s \in Slots : pub[p].fns[s] = None BY <2>1
  <2>4. ~FlushComes BY <2>1, <2>2, <2>3 DEF FlushComes
  <2>5. QED BY <2>1, <2>4 DEF StateOwed, ReadComes, Running
<1>3. QuietIsCurrent BY <1>2 DEF QuietIsCurrent, StatesOwed
<1>4. QuietIsDelivered
  <2>1. ASSUME Quiet, NEW i \in Places, Open(i), NEW n \in base[i] + 1 .. count, n > count - Kept,
               kindOf[n] \in streams[i].want
        PROVE  n \in had[i] \cup missed[i] \cup unkept
    <3>1. Running(i) /\ base[i] \in Nat /\ upto[i] \in Nat BY <1>2, <2>1 DEF WebTyped
    <3>2. n \in 1 .. count /\ n > base[i] BY <3>1
    <3>3. ~(n > upto[i]) BY <1>2, <2>1, <3>1, <3>2 DEF HappeningsOwed
    <3>4. n \in base[i] + 1 .. upto[i] BY <3>1, <3>2, <3>3
    <3>5. QED BY <2>1, <3>1, <3>4 DEF StreamsAreRead
  <2>2. QED BY <2>1 DEF QuietIsDelivered
<1>5. QED BY <1>1, <1>3, <1>4 DEF QuietIsTold

----------------------------------------------------------------------------
(* The settings and the routes. *)

StoredRecord ==
    [host : Hosts \cup {Unset}, off : BOOLEAN, cors : (SUBSET Origins) \cup {Unset}, password : BOOLEAN]
Names == Hosts \cup {DefaultHost}
CliRecord ==
    [pc : {"idle", "loadHost", "applyHost", "storeCors", "copyCors", "loadCors",
           "start", "starting", "stop", "wait"}, list : SUBSET Origins]
PatchRecord ==
    [pc : {"idle", "host", "loadHost", "loadHostOnly", "applyHost", "applyHostOnly",
           "password", "cors", "loadCors"}, body : Bodies]
RouteRecord ==
    [path : {r.path : r \in WebRoutes}, method : {r.method : r \in WebRoutes},
     live : BOOLEAN, preflight : BOOLEAN]
LoopRecord == [at : 0 .. MaxRoutes + 1, by : {"nobody", "app", "cli"}]

SettingsTyped ==
    /\ stored \in StoredRecord /\ hostname \in Names /\ mdns \in Names \cup {Unset}
    /\ cors \in SUBSET Origins
    /\ app \in {"start", "starting", "running", "look", "register"}
    /\ cli \in CliRecord /\ patch \in PatchRecord
    /\ {unsynced, unstored} \subseteq BOOLEAN

\* A request is at a member it has.  Nobody commands a board before its server was started, and a
\* server that is not up is asked nothing.
InTurn ==
    /\ patch.pc = "host" => patch.body.host # Missing
    /\ patch.pc = "password" => patch.body.password # Missing
    /\ patch.pc = "cors" => patch.body.cors # Missing
    /\ app \in {"start", "starting"} => cli.pc = "idle"
    /\ app = "start" => patch.pc = "idle" /\ serving = "off"

LoadedHost == IF stored.host = Unset THEN DefaultHost ELSE stored.host
LoadedCors == IF stored.cors = Unset THEN DefaultCors ELSE stored.cors

\* What is in effect is what is stored, or somebody who stored is about to put that in effect
HostFollows ==
    app # "start" =>
       /\ hostname = LoadedHost \/ cli.pc = "loadHost" \/ patch.pc \in {"loadHost", "loadHostOnly"}
       /\ \/ mdns \in {Unset, hostname} \/ cli.pc \in {"loadHost", "applyHost"}
          \/ patch.pc \in {"loadHost", "loadHostOnly", "applyHost", "applyHostOnly"}
CorsFollows ==
    app # "start" =>
       unsynced \/ cors = LoadedCors \/ cli.pc \in {"copyCors", "loadCors"} \/ patch.pc = "loadCors"

\* A server that runs, or is about to, was not stored to be off, but for a `web off` on its way
OffFollows ==
    /\ unstored \/ (serving = "on" => ~stored.off) \/ cli.pc = "stop"
    /\ cli.pc = "start" => unstored \/ ~stored.off
    /\ app = "starting" => ~stored.off

SettingsIInv == SettingsTyped /\ InTurn /\ HostFollows /\ CorsFollows /\ OffFollows

RoutesTyped ==
    /\ tables \in Seq(ApiRoutes) /\ routes \in Seq(RouteRecord) /\ Len(routes) <= MaxRoutes
    /\ serving \in {"off", "on", "stopping"} /\ loop \in LoopRecord
    /\ handlers \subseteq {Handled(r) : r \in WebRoutes} \cup {Preflight(r) : r \in WebRoutes}
    /\ unserved \in BOOLEAN

RoutesKnown == \A i \in 1 .. Len(routes) : \E r \in WebRoutes : Handled(routes[i]) = Handled(r)

\* The loop is the application's or the console's, for as long as the server runs
LoopOwned ==
    /\ loop.at = 0 => loop = NotStarting
    /\ loop.at > 0 => /\ serving = "on"
                      /\ \/ loop.by = "app" /\ app = "starting"
                         \/ loop.by = "cli" /\ cli.pc = "starting"
    /\ app \in {"look", "register"} => Len(routes) > 0

TablesFollow ==
    app # "start" =>
       \A i \in 1 .. Len(tables) : \E j \in 1 .. Len(routes) : Handled(routes[j]) = Handled(tables[i])

\* A path that is handled has its preflight
Preflighted ==
    /\ \A r \in WebRoutes : Handled(r) \in handlers => Preflight(r) \in handlers
    /\ \A i \in 1 .. Len(routes) : routes[i].live => Preflight(routes[i]) \in handlers

\* A route is with the server, or the loop has still to come to it, or who added it has
Handed(i) == {Handled(routes[i]), Preflight(routes[i])} \subseteq handlers
RoutesFollow ==
    serving = "on" /\ ~unserved =>
       \A i \in 1 .. Len(routes) :
          Handed(i) \/ (loop.at > 0 /\ loop.at <= i) \/ (app \in {"look", "register"} /\ i = Len(routes))

RoutesIInv ==
    RoutesTyped /\ RoutesKnown /\ LoopOwned /\ TablesFollow /\ Preflighted /\ RoutesFollow

----------------------------------------------------------------------------
LEMMA SettingsInit == WebServerInit => SettingsIInv
<1> SUFFICES ASSUME WebServerInit PROVE SettingsIInv OBVIOUS
<1>1. NoCommand \in CliRecord BY DEF NoCommand, CliRecord
<1>2. NoRequest \in PatchRecord BY DEF NoRequest, PatchRecord, Bodies
<1>3. SettingsTyped
  BY <1>1, <1>2, WebServerAssumption DEF WebServerInit, Fresh, Factory, SettingsTyped, StoredRecord, Names
<1>4. QED
  BY <1>3 DEF WebServerInit, Fresh, Factory, NoCommand, NoRequest, NotStarting, SettingsIInv, InTurn,
              HostFollows, CorsFollows, OffFollows

\* The step after one of a request's is at a member the request has.
LEMMA AfterIs ==
    ASSUME NEW pc \in {"host", "password", "cors"}, NEW body \in Bodies
    PROVE  /\ After(pc, body) \in {"host", "password", "cors", "idle"}
           /\ After(pc, body) = "host" => pc = "host" /\ body.host # Missing
           /\ After(pc, body) = "password" => body.password # Missing
           /\ After(pc, body) = "cors" => body.cors # Missing
<1> USE DEF After
<1>1. CASE pc = "host" /\ body.host # Missing BY <1>1
<1>2. CASE ~(pc = "host" /\ body.host # Missing) /\ pc \in {"host", "password"} /\ body.password # Missing
  BY <1>2
<1>3. CASE ~(pc = "host" /\ body.host # Missing)
           /\ ~(pc \in {"host", "password"} /\ body.password # Missing) /\ body.cors # Missing
  BY <1>3
<1>4. CASE ~(pc = "host" /\ body.host # Missing)
           /\ ~(pc \in {"host", "password"} /\ body.password # Missing) /\ ~(body.cors # Missing)
  BY <1>4
<1>5. QED BY <1>1, <1>2, <1>3, <1>4


\* What a restart loads is a name, or an allowlist.
LEMMA LoadedIs ==
    ASSUME SettingsTyped
    PROVE  /\ LoadedHost \in Names /\ LoadedCors \in SUBSET Origins
           /\ stored.host \in Hosts \cup {Unset} /\ stored.off \in BOOLEAN /\ stored.password \in BOOLEAN
           /\ stored.cors \in (SUBSET Origins) \cup {Unset}
           /\ cli.pc \in {"idle", "loadHost", "applyHost", "storeCors", "copyCors", "loadCors",
                          "start", "starting", "stop", "wait"}
           /\ cli.list \in SUBSET Origins /\ cli.list # Unset
           /\ patch.body \in Bodies
<1>1. stored \in StoredRecord BY DEF SettingsTyped
<1>2. /\ stored.host \in Hosts \cup {Unset} /\ stored.off \in BOOLEAN /\ stored.password \in BOOLEAN
      /\ stored.cors \in (SUBSET Origins) \cup {Unset}
  BY <1>1 DEF StoredRecord
<1>3. LoadedHost \in Names /\ LoadedCors \in SUBSET Origins
  BY <1>2, WebServerAssumption DEF LoadedHost, LoadedCors, Names
<1>4. cli.list \in SUBSET Origins BY DEF SettingsTyped, CliRecord
<1>5. cli.list # Unset BY <1>4, WebServerAssumption
<1>6. QED BY <1>2, <1>3, <1>4, <1>5 DEF SettingsTyped, CliRecord, PatchRecord

LEMMA SettingsCommanded ==
    ASSUME SettingsIInv, Settings
    PROVE  SettingsIInv'
<1> USE LoadedIs DEF SettingsIInv
<1>1. ASSUME NEW h \in Hosts \cup {Unset}, NEW ok \in BOOLEAN, HostnameCommand(h, ok)
      PROVE  SettingsIInv'
  <2>1. /\ stored' = IF ok THEN [stored EXCEPT !["host"] = h] ELSE stored
        /\ cli' = [cli EXCEPT !.pc = IF ok THEN "loadHost" ELSE "idle"]
        /\ app \notin {"start", "starting"} /\ cli.pc = "idle"
        /\ UNCHANGED <<hostname, cors, mdns, serving, app, patch, unsynced, unstored>>
    BY <1>1 DEF HostnameCommand, Commanded, Prompt, Put, routeVars, webHistory
  <2>2. cli' \in CliRecord /\ cli'.pc = IF ok THEN "loadHost" ELSE "idle"
    BY <2>1 DEF SettingsTyped, CliRecord
  <2>3. stored' \in StoredRecord /\ (~ok => stored' = stored) /\ stored'.off = stored.off /\ stored'.cors = stored.cors
    BY <2>1 DEF SettingsTyped, StoredRecord
  <2>4. SettingsTyped' BY <2>1, <2>2, <2>3 DEF SettingsTyped
  <2>5. InTurn' BY <2>1, <2>2 DEF InTurn
  <2>6. HostFollows' BY <2>1, <2>2, <2>3 DEF HostFollows, LoadedHost
  <2>7. CorsFollows' /\ OffFollows' BY <2>1, <2>2, <2>3 DEF CorsFollows, OffFollows, LoadedCors
  <2>8. QED BY <2>4, <2>5, <2>6, <2>7
<1>2. ASSUME NEW set \in BOOLEAN, PasswordCommand(set)
      PROVE  SettingsIInv'
  <2>1. /\ stored' = [stored EXCEPT !["password"] = set]
        /\ cli' = [cli EXCEPT !.pc = "idle"]
        /\ app \notin {"start", "starting"} /\ cli.pc = "idle"
        /\ UNCHANGED <<hostname, cors, mdns, serving, app, patch, unsynced, unstored>>
    BY <1>2 DEF PasswordCommand, Commanded, Prompt, Put, routeVars, webHistory
  <2>2. cli' \in CliRecord /\ cli'.pc = cli.pc
    BY <2>1 DEF SettingsTyped, CliRecord
  <2>3. stored' \in StoredRecord /\ stored'.host = stored.host /\ stored'.off = stored.off /\ stored'.cors = stored.cors
    BY <2>1 DEF SettingsTyped, StoredRecord
  <2>4. SettingsTyped' BY <2>1, <2>2, <2>3 DEF SettingsTyped
  <2>5. InTurn' BY <2>1, <2>2 DEF InTurn
  <2>6. HostFollows' BY <2>1, <2>2, <2>3 DEF HostFollows, LoadedHost
  <2>7. CorsFollows' /\ OffFollows' BY <2>1, <2>2, <2>3 DEF CorsFollows, OffFollows, LoadedCors
  <2>8. QED BY <2>4, <2>5, <2>6, <2>7
<1>3. ASSUME NEW list \in SUBSET Origins, CorsCommand(list)
      PROVE  SettingsIInv'
  <2>1. /\ cli' = [pc |-> "storeCors", list |-> list] /\ cli.pc = "idle" /\ app \notin {"start", "starting"}
        /\ UNCHANGED <<stored, hostname, cors, mdns, serving, app, patch, unsynced, unstored>>
    BY <1>3 DEF CorsCommand, Prompt, settingVars, routeVars, webHistory
  <2>2. cli' \in CliRecord /\ cli'.pc = "storeCors" BY <2>1 DEF CliRecord
  <2>4. SettingsTyped' BY <2>1, <2>2 DEF SettingsTyped
  <2>5. InTurn' BY <2>1, <2>2 DEF InTurn
  <2>6. HostFollows' BY <2>1, <2>2 DEF HostFollows, LoadedHost
  <2>7. CorsFollows' /\ OffFollows' BY <2>1, <2>2 DEF CorsFollows, OffFollows, LoadedCors
  <2>8. QED BY <2>4, <2>5, <2>6, <2>7
<1>4. ASSUME NEW ok \in BOOLEAN, StoreCors(ok)
      PROVE  SettingsIInv'
  <2>1. /\ stored' = IF ok THEN [stored EXCEPT !["cors"] = cli.list] ELSE stored
        /\ cli' = IF ok THEN [cli EXCEPT !.pc = "copyCors"] ELSE NoCommand
        /\ cli.pc = "storeCors"
        /\ UNCHANGED <<hostname, cors, mdns, serving, app, patch, unsynced, unstored>>
    BY <1>4 DEF StoreCors, Put, Ended, routeVars, webHistory
  <2>2. cli' \in CliRecord /\ cli'.pc = IF ok THEN "copyCors" ELSE "idle"
    BY <2>1 DEF SettingsTyped, CliRecord, NoCommand
  <2>3. stored' \in StoredRecord /\ stored'.host = stored.host /\ stored'.off = stored.off /\ (~ok => stored' = stored)
    BY <2>1 DEF SettingsTyped, StoredRecord
  <2>4. SettingsTyped' BY <2>1, <2>2, <2>3 DEF SettingsTyped
  <2>5. InTurn' BY <2>1, <2>2 DEF InTurn
  <2>6. HostFollows' BY <2>1, <2>2, <2>3 DEF HostFollows, LoadedHost
  <2>7. CorsFollows' /\ OffFollows' BY <2>1, <2>2, <2>3 DEF CorsFollows, OffFollows, LoadedCors
  <2>8. QED BY <2>4, <2>5, <2>6, <2>7
<1>5. ASSUME NEW ok \in BOOLEAN, ResetCors(ok)
      PROVE  SettingsIInv'
  <2>1. /\ stored' = IF ok THEN [stored EXCEPT !["cors"] = Unset] ELSE stored
        /\ cli' = [cli EXCEPT !.pc = "loadCors"]
        /\ cli.pc = "idle" /\ app \notin {"start", "starting"}
        /\ UNCHANGED <<hostname, cors, mdns, serving, app, patch, unsynced, unstored>>
    BY <1>5 DEF ResetCors, Commanded, Prompt, Put, routeVars, webHistory
  <2>2. cli' \in CliRecord /\ cli'.pc = "loadCors"
    BY <2>1 DEF SettingsTyped, CliRecord
  <2>3. stored' \in StoredRecord /\ stored'.host = stored.host /\ stored'.off = stored.off
    BY <2>1 DEF SettingsTyped, StoredRecord
  <2>4. SettingsTyped' BY <2>1, <2>2, <2>3 DEF SettingsTyped
  <2>5. InTurn' BY <2>1, <2>2 DEF InTurn
  <2>6. HostFollows' BY <2>1, <2>2, <2>3 DEF HostFollows, LoadedHost
  <2>7. CorsFollows' /\ OffFollows' BY <2>1, <2>2, <2>3 DEF CorsFollows, OffFollows, LoadedCors
  <2>8. QED BY <2>4, <2>5, <2>6, <2>7
<1>6. CASE LoadForConsole
  <2>1. /\ hostname' = LoadedHost /\ cli' = [cli EXCEPT !.pc = "applyHost"] /\ cli.pc = "loadHost"
        /\ UNCHANGED <<stored, cors, mdns, serving, app, patch, unsynced, unstored>>
    BY <1>6 DEF LoadForConsole, LoadHostname, LoadedHost, routeVars, webHistory
  <2>2. cli' \in CliRecord /\ cli'.pc = "applyHost"
    BY <2>1 DEF SettingsTyped, CliRecord
  <2>4. SettingsTyped' BY <2>1, <2>2 DEF SettingsTyped
  <2>5. InTurn' BY <2>1, <2>2 DEF InTurn
  <2>6. HostFollows' BY <2>1, <2>2 DEF HostFollows, LoadedHost
  <2>7. CorsFollows' /\ OffFollows' BY <2>1, <2>2 DEF CorsFollows, OffFollows, LoadedCors
  <2>8. QED BY <2>4, <2>5, <2>6, <2>7
<1>7. CASE ApplyForConsole
  <2>1. /\ mdns' = IF mdns = Unset THEN Unset ELSE hostname
        /\ cli' = NoCommand /\ cli.pc = "applyHost"
        /\ UNCHANGED <<stored, hostname, cors, serving, app, patch, unsynced, unstored>>
    BY <1>7 DEF ApplyForConsole, ApplyHostname, Ended, routeVars, webHistory
  <2>2. cli' \in CliRecord /\ cli'.pc = "idle" BY <2>1 DEF NoCommand, CliRecord
  <2>3. mdns' \in {Unset, hostname} BY <2>1
  <2>4. SettingsTyped' BY <2>1, <2>2, <2>3 DEF SettingsTyped
  <2>5. InTurn' BY <2>1, <2>2 DEF InTurn
  <2>6. HostFollows' BY <2>1, <2>2, <2>3 DEF HostFollows, LoadedHost
  <2>7. CorsFollows' /\ OffFollows' BY <2>1, <2>2 DEF CorsFollows, OffFollows, LoadedCors
  <2>8. QED BY <2>4, <2>5, <2>6, <2>7
<1>8. CASE CopyCors
  <2>1. /\ cors' = cli.list /\ unsynced' = (stored.cors # cli.list) /\ cli' = NoCommand /\ cli.pc = "copyCors"
        /\ UNCHANGED <<stored, hostname, mdns, serving, app, patch, unstored>>
    BY <1>8 DEF CopyCors, Ended, routeVars
  <2>2. cli' \in CliRecord /\ cli'.pc = "idle" BY <2>1 DEF NoCommand, CliRecord
  <2>3. unsynced' \/ cors' = LoadedCors' BY <2>1 DEF LoadedCors
  <2>4. SettingsTyped' BY <2>1, <2>2 DEF SettingsTyped
  <2>5. InTurn' BY <2>1, <2>2 DEF InTurn
  <2>6. HostFollows' BY <2>1, <2>2 DEF HostFollows, LoadedHost
  <2>7. CorsFollows' /\ OffFollows' BY <2>1, <2>2, <2>3 DEF CorsFollows, OffFollows
  <2>8. QED BY <2>4, <2>5, <2>6, <2>7
<1>9. CASE LoadCorsForConsole
  <2>1. /\ cors' = LoadedCors /\ unsynced' = FALSE /\ cli' = NoCommand /\ cli.pc = "loadCors"
        /\ UNCHANGED <<stored, hostname, mdns, serving, app, patch, unstored>>
    BY <1>9 DEF LoadCorsForConsole, LoadCors, LoadedCors, Ended, routeVars
  <2>2. cli' \in CliRecord /\ cli'.pc = "idle" BY <2>1 DEF NoCommand, CliRecord
  <2>3. cors' = LoadedCors' BY <2>1 DEF LoadedCors
  <2>4. SettingsTyped' BY <2>1, <2>2 DEF SettingsTyped
  <2>5. InTurn' BY <2>1, <2>2 DEF InTurn
  <2>6. HostFollows' BY <2>1, <2>2 DEF HostFollows, LoadedHost
  <2>7. CorsFollows' /\ OffFollows' BY <2>1, <2>2, <2>3 DEF CorsFollows, OffFollows
  <2>8. QED BY <2>4, <2>5, <2>6, <2>7
<1>10. QED BY <1>1, <1>2, <1>3, <1>4, <1>5, <1>6, <1>7, <1>8, <1>9 DEF Settings

LEMMA SettingsPatched ==
    ASSUME SettingsIInv, Patching
    PROVE  SettingsIInv'
<1> USE LoadedIs DEF SettingsIInv
<1>1. ASSUME NEW host \in {"address"} \cup Hosts, NEW authorised \in BOOLEAN, NEW body \in Bodies,
             Request(host, authorised, body)
      PROVE  SettingsIInv'
  <2>1. /\ patch' = [pc |-> After("host", body), body |-> body] /\ serving = "on"
        /\ UNCHANGED <<stored, hostname, cors, mdns, serving, app, cli, unsynced, unstored>>
        /\ patch.pc = "idle"
    BY <1>1 DEF Request, settingVars, patchRest, routeVars
  <2>2. /\ patch'.pc \in {"host", "password", "cors", "idle"} /\ patch'.body = body
        /\ patch'.pc = "host" => body.host # Missing
        /\ patch'.pc = "password" => body.password # Missing
        /\ patch'.pc = "cors" => body.cors # Missing
    BY <2>1, AfterIs
  <2>3. patch' \in PatchRecord BY <2>1, <2>2 DEF PatchRecord
  <2>4. SettingsTyped' BY <2>1, <2>3 DEF SettingsTyped
  <2>5. InTurn' BY <2>1, <2>2 DEF InTurn
  <2>6. HostFollows' BY <2>1, <2>2 DEF HostFollows, LoadedHost
  <2>7. CorsFollows' /\ OffFollows' BY <2>1, <2>2 DEF CorsFollows, OffFollows, LoadedCors
  <2>8. QED BY <2>4, <2>5, <2>6, <2>7
<1>2. ASSUME NEW ok \in BOOLEAN, PatchHost(ok)
      PROVE  SettingsIInv'
  <2>1. /\ stored' = IF ok THEN [stored EXCEPT !["host"] = patch.body.host] ELSE stored
        /\ patch' = [patch EXCEPT !.pc = IF ok THEN "loadHost" ELSE "loadHostOnly"] /\ patch.pc = "host"
        /\ UNCHANGED <<hostname, cors, mdns, serving, app, cli, unsynced, unstored>>
    BY <1>2 DEF PatchHost, Put, patchRest, routeVars
  <2>2. patch' \in PatchRecord /\ patch'.pc \in {"loadHost", "loadHostOnly"}
    BY <2>1 DEF SettingsTyped, PatchRecord
  <2>3. patch.body.host \in Hosts \cup {Unset} BY <2>1 DEF InTurn, Bodies
  <2>4. stored' \in StoredRecord /\ stored'.off = stored.off /\ stored'.cors = stored.cors
    BY <2>1, <2>3 DEF SettingsTyped, StoredRecord
  <2>5. SettingsTyped' BY <2>1, <2>2, <2>4 DEF SettingsTyped
  <2>6. InTurn' BY <2>1, <2>2 DEF InTurn
  <2>7. HostFollows' BY <2>1, <2>2 DEF HostFollows
  <2>8. CorsFollows' /\ OffFollows' BY <2>1, <2>2, <2>4 DEF CorsFollows, OffFollows, LoadedCors
  <2>9. QED BY <2>5, <2>6, <2>7, <2>8
<1>3. CASE PatchLoadHost
  <2>1. /\ hostname' = LoadedHost
        /\ patch' = [patch EXCEPT !.pc = IF patch.pc = "loadHost" THEN "applyHost" ELSE "applyHostOnly"]
        /\ patch.pc \in {"loadHost", "loadHostOnly"}
        /\ UNCHANGED <<stored, cors, mdns, serving, app, cli, unsynced, unstored>>
    BY <1>3 DEF PatchLoadHost, LoadHostname, LoadedHost, patchRest, routeVars
  <2>2. patch' \in PatchRecord /\ patch'.pc \in {"applyHost", "applyHostOnly"}
    BY <2>1 DEF SettingsTyped, PatchRecord
  <2>3. SettingsTyped' BY <2>1, <2>2 DEF SettingsTyped
  <2>4. InTurn' BY <2>1, <2>2 DEF InTurn
  <2>5. HostFollows' BY <2>1, <2>2 DEF HostFollows, LoadedHost
  <2>6. CorsFollows' /\ OffFollows' BY <2>1, <2>2 DEF CorsFollows, OffFollows, LoadedCors
  <2>7. QED BY <2>3, <2>4, <2>5, <2>6
<1>4. CASE PatchApplyHost
  <2>1. /\ mdns' = IF mdns = Unset THEN Unset ELSE hostname
        /\ patch' \in {[patch EXCEPT !.pc = After("password", patch.body)], NoRequest}
        /\ patch.pc \in {"applyHost", "applyHostOnly"}
        /\ UNCHANGED <<stored, hostname, cors, serving, app, cli, unsynced, unstored>>
    BY <1>4 DEF PatchApplyHost, ApplyHostname, GoOn, patchRest, routeVars
  <2>2. /\ patch' \in PatchRecord /\ patch'.pc \in {"password", "cors", "idle"}
        /\ patch'.pc = "password" => patch'.body.password # Missing
        /\ patch'.pc = "cors" => patch'.body.cors # Missing
    <3>1. CASE patch' = NoRequest BY <3>1 DEF NoRequest, PatchRecord, Bodies
    <3>2. CASE patch' = [patch EXCEPT !.pc = After("password", patch.body)]
      BY <3>2, AfterIs DEF SettingsTyped, PatchRecord
    <3>3. QED BY <2>1, <3>1, <3>2
  <2>3. mdns' \in {Unset, hostname} BY <2>1
  <2>4. SettingsTyped' BY <2>1, <2>2, <2>3 DEF SettingsTyped
  <2>5. InTurn' BY <2>1, <2>2 DEF InTurn
  <2>6. HostFollows' BY <2>1, <2>2, <2>3 DEF HostFollows, LoadedHost
  <2>7. CorsFollows' /\ OffFollows' BY <2>1, <2>2 DEF CorsFollows, OffFollows, LoadedCors
  <2>8. QED BY <2>4, <2>5, <2>6, <2>7
<1>5. ASSUME NEW ok \in BOOLEAN, PatchPassword(ok)
      PROVE  SettingsIInv'
  <2> DEFINE set == patch.body.password = TRUE
  <2>1. /\ stored' = IF ok THEN [stored EXCEPT !["password"] = set] ELSE stored
        /\ patch' \in {[patch EXCEPT !.pc = After("cors", patch.body)], NoRequest}
        /\ patch.pc = "password"
        /\ UNCHANGED <<hostname, cors, mdns, serving, app, cli, unsynced, unstored>>
    BY <1>5 DEF PatchPassword, Put, GoOn, patchRest, routeVars
  <2>2. /\ patch' \in PatchRecord /\ patch'.pc \in {"cors", "idle"}
        /\ patch'.pc = "cors" => patch'.body.cors # Missing
    <3>1. CASE patch' = NoRequest BY <3>1 DEF NoRequest, PatchRecord, Bodies
    <3>2. CASE patch' = [patch EXCEPT !.pc = After("cors", patch.body)]
      <4>1. After("cors", patch.body) \in {"cors", "idle"} BY DEF After
      <4>2. QED BY <3>2, <4>1, AfterIs DEF SettingsTyped, PatchRecord
    <3>3. QED BY <2>1, <3>1, <3>2
  <2>3. set \in BOOLEAN OBVIOUS
  <2> HIDE DEF set
  <2>4. stored' \in StoredRecord /\ stored'.off = stored.off /\ stored'.cors = stored.cors /\ stored'.host = stored.host
    BY <2>1, <2>3 DEF SettingsTyped, StoredRecord
  <2>5. SettingsTyped' BY <2>1, <2>2, <2>4 DEF SettingsTyped
  <2>6. InTurn' BY <2>1, <2>2 DEF InTurn
  <2>7. HostFollows' BY <2>1, <2>2, <2>4 DEF HostFollows, LoadedHost
  <2>8. CorsFollows' /\ OffFollows' BY <2>1, <2>2, <2>4 DEF CorsFollows, OffFollows, LoadedCors
  <2>9. QED BY <2>5, <2>6, <2>7, <2>8
<1>6. ASSUME NEW ok \in BOOLEAN, PatchCors(ok)
      PROVE  SettingsIInv'
  <2>1. /\ stored' = IF ok THEN [stored EXCEPT !["cors"] = patch.body.cors] ELSE stored
        /\ patch' = [patch EXCEPT !.pc = "loadCors"] /\ patch.pc = "cors"
        /\ UNCHANGED <<hostname, cors, mdns, serving, app, cli, unsynced, unstored>>
    BY <1>6 DEF PatchCors, Put, patchRest, routeVars
  <2>2. patch' \in PatchRecord /\ patch'.pc = "loadCors" BY <2>1 DEF SettingsTyped, PatchRecord
  <2>3. patch.body.cors \in (SUBSET Origins) \cup {Unset} BY <2>1 DEF InTurn, Bodies
  <2>4. stored' \in StoredRecord /\ stored'.off = stored.off /\ stored'.host = stored.host
    BY <2>1, <2>3 DEF SettingsTyped, StoredRecord
  <2>5. SettingsTyped' BY <2>1, <2>2, <2>4 DEF SettingsTyped
  <2>6. InTurn' BY <2>1, <2>2 DEF InTurn
  <2>7. HostFollows' BY <2>1, <2>2, <2>4 DEF HostFollows, LoadedHost
  <2>8. CorsFollows' /\ OffFollows' BY <2>1, <2>2, <2>4 DEF CorsFollows, OffFollows
  <2>9. QED BY <2>5, <2>6, <2>7, <2>8
<1>7. CASE PatchLoadCors
  <2>1. /\ cors' = LoadedCors /\ unsynced' = FALSE /\ patch' = NoRequest /\ patch.pc = "loadCors"
        /\ UNCHANGED <<stored, hostname, mdns, serving, app, cli, unstored>>
    BY <1>7 DEF PatchLoadCors, LoadCors, LoadedCors, patchRest, routeVars
  <2>2. patch' \in PatchRecord /\ patch'.pc = "idle" BY <2>1 DEF NoRequest, PatchRecord, Bodies
  <2>3. cors' = LoadedCors' BY <2>1 DEF LoadedCors
  <2>4. SettingsTyped' BY <2>1, <2>2 DEF SettingsTyped
  <2>5. InTurn' BY <2>1, <2>2 DEF InTurn
  <2>6. HostFollows' BY <2>1, <2>2 DEF HostFollows, LoadedHost
  <2>7. CorsFollows' /\ OffFollows' BY <2>1, <2>2, <2>3 DEF CorsFollows, OffFollows
  <2>8. QED BY <2>4, <2>5, <2>6, <2>7
<1>8. QED BY <1>1, <1>2, <1>3, <1>4, <1>5, <1>6, <1>7 DEF Patching

\* Of what is done with routes only the start, and `web on` and `web off`, are about settings.
LEMMA SettingsRouted ==
    ASSUME SettingsIInv, LoopOwned, Routing \/ WebRestart
    PROVE  SettingsIInv'
<1> USE LoadedIs DEF SettingsIInv
<1>1. ASSUME app' = app \/ (app # "start" /\ app' \in {"running", "look", "register"}),
             \/ cli' = cli
             \/ (cli' = NoCommand /\ cli.pc \in {"start", "starting", "wait", "stop"})
             \/ (cli' = [cli EXCEPT !.pc = "starting"] /\ cli.pc = "start")
             \/ (cli' = [cli EXCEPT !.pc = "wait"] /\ cli.pc = "stop"),
             \/ serving' \in {serving, "off", "stopping"}
             \/ serving' = "on" /\ (app = "starting" \/ cli.pc = "start"),
             cli.pc = "stop" => cli' = cli \/ serving' # "on",
             app = "start" => serving' = serving,
             UNCHANGED <<stored, hostname, cors, mdns, patch, unsynced, unstored>>
      PROVE  SettingsIInv'
  <2>1. /\ cli' \in CliRecord
        /\ cli'.pc \in {"loadHost", "applyHost", "storeCors", "copyCors", "loadCors", "start", "stop"}
             => cli' = cli
        /\ cli.pc \in {"idle", "loadHost", "applyHost", "storeCors", "copyCors", "loadCors"} => cli' = cli
        /\ cli.pc = "idle" => cli'.pc = "idle"
    BY <1>1 DEF SettingsTyped, CliRecord, NoCommand
  <2>2. SettingsTyped' BY <1>1, <2>1 DEF SettingsTyped
  <2>3. InTurn' BY <1>1, <2>1 DEF InTurn
  <2>4. HostFollows' BY <1>1, <2>1 DEF HostFollows, LoadedHost
  <2>5. CorsFollows' BY <1>1, <2>1 DEF CorsFollows, LoadedCors
  <2>6. OffFollows' BY <1>1, <2>1 DEF OffFollows
  <2>7. QED BY <2>2, <2>3, <2>4, <2>5, <2>6
<1>2. ASSUME NEW r \in WebRoutes, Register(r) \/ AddRoutes(r)
      PROVE  SettingsIInv'
  <2>1. app' = app \/ (app # "start" /\ app' = "look") BY <1>2 DEF Register, AddRoutes
  <2>2. UNCHANGED <<stored, hostname, cors, mdns, patch, unsynced, unstored, cli, serving>>
    BY <1>2 DEF Register, AddRoutes, settingVars, webHistory
  <2>3. QED BY <1>1, <2>1, <2>2
<1>3. CASE Look
  BY <1>1, <1>3 DEF Look, settingVars, routeVars, webHistory
<1>4. ASSUME NEW made \in BOOLEAN, RegisterNew(made)
      PROVE  SettingsIInv'
  BY <1>1, <1>4 DEF RegisterNew, settingVars
<1>5. ASSUME NEW made \in BOOLEAN, StartNext(made)
      PROVE  SettingsIInv'
  <2>1. UNCHANGED <<stored, hostname, cors, mdns, patch, unsynced, unstored, serving>> /\ loop.at > 0
    BY <1>5 DEF StartNext, settingVars
  <2>2. \/ app' = app /\ cli' = cli
        \/ /\ app' = IF loop.by = "app" THEN "running" ELSE app
           /\ cli' = IF loop.by = "cli" THEN NoCommand ELSE cli
    BY <1>5 DEF StartNext, Returned, Ended
  <2>3. (loop.by = "app" /\ app = "starting") \/ (loop.by = "cli" /\ cli.pc = "starting")
    BY <2>1 DEF LoopOwned
  <2>4. QED BY <1>1, <2>1, <2>2, <2>3
<1>6. ASSUME NEW ok \in BOOLEAN, BootStart(ok)
      PROVE  SettingsIInv'
  <2>1. /\ app = "starting" /\ app' \in {"running", app} /\ serving' \in {serving, "on"}
        /\ UNCHANGED <<stored, hostname, cors, mdns, patch, unsynced, unstored, cli>>
    BY <1>6 DEF BootStart, StartHttpd, Returned, settingVars, webHistory
  <2>2. QED BY <1>1, <2>1 DEF InTurn
<1>7. ASSUME NEW ok \in BOOLEAN, OnStart(ok)
      PROVE  SettingsIInv'
  <2>1. /\ cli.pc = "start" /\ app' = app /\ serving' \in {serving, "on"}
        /\ cli' \in {NoCommand, [cli EXCEPT !.pc = "starting"]}
        /\ UNCHANGED <<stored, hostname, cors, mdns, patch, unsynced, unstored>>
    BY <1>7 DEF OnStart, StartHttpd, Returned, Ended, settingVars, webHistory
  <2>2. QED BY <1>1, <2>1 DEF InTurn
<1>8. CASE OffStop
  <2>1. /\ cli.pc = "stop" /\ app' = app /\ serving' \in {"off", "stopping"}
        /\ cli' \in {NoCommand, [cli EXCEPT !.pc = "wait"]}
        /\ UNCHANGED <<stored, hostname, cors, mdns, patch, unsynced, unstored>>
    BY <1>8 DEF OffStop, Ended, settingVars, webHistory
  <2>2. QED BY <1>1, <2>1 DEF InTurn
<1>9. CASE Stopped
  <2>1. /\ cli.pc = "wait" /\ app' = app /\ serving' = "off" /\ cli' = NoCommand
        /\ UNCHANGED <<stored, hostname, cors, mdns, patch, unsynced, unstored>>
    BY <1>9 DEF Stopped, Ended, settingVars
  <2>2. QED BY <1>1, <2>1 DEF InTurn
<1>10. ASSUME NEW up \in BOOLEAN, WebServerStart(up)
       PROVE  SettingsIInv'
  <2>1. /\ hostname' = LoadedHost /\ cors' = LoadedCors /\ unsynced' = FALSE
        /\ mdns' \in {hostname', Unset} /\ app = "start"
        /\ app' = IF stored.off THEN "running" ELSE "starting"
        /\ UNCHANGED <<stored, serving, cli, patch, unstored>>
    BY <1>10 DEF WebServerStart, LoadHostname, LoadCors, LoadedHost, LoadedCors
  <2>2. SettingsTyped' BY <2>1 DEF SettingsTyped
  <2>3. InTurn' BY <2>1 DEF InTurn
  <2>4. HostFollows' BY <2>1 DEF HostFollows, LoadedHost
  <2>5. CorsFollows' BY <2>1 DEF CorsFollows, LoadedCors
  <2>6. OffFollows' BY <2>1 DEF OffFollows, InTurn
  <2>7. QED BY <2>2, <2>3, <2>4, <2>5, <2>6
<1>11. ASSUME NEW ok \in BOOLEAN, NEW off \in BOOLEAN,
              stored' = IF ok THEN [stored EXCEPT !["off"] = off] ELSE stored,
              unstored' = ~ok, cli.pc = "idle", app \notin {"start", "starting"},
              cli' = [cli EXCEPT !.pc = IF off THEN "stop" ELSE "start"],
              UNCHANGED <<hostname, cors, mdns, app, patch, unsynced, serving>>
       PROVE  SettingsIInv'
  <2>1. cli' \in CliRecord /\ cli'.pc = IF off THEN "stop" ELSE "start"
    BY <1>11 DEF SettingsTyped, CliRecord
  <2>2. /\ stored' \in StoredRecord /\ stored'.host = stored.host /\ stored'.cors = stored.cors
        /\ ok => stored'.off = off
    BY <1>11 DEF SettingsTyped, StoredRecord
  <2>3. SettingsTyped' BY <1>11, <2>1, <2>2 DEF SettingsTyped
  <2>4. InTurn' BY <1>11, <2>1 DEF InTurn
  <2>5. HostFollows' BY <1>11, <2>1, <2>2 DEF HostFollows, LoadedHost
  <2>6. CorsFollows' BY <1>11, <2>1, <2>2 DEF CorsFollows, LoadedCors
  <2>7. OffFollows' BY <1>11, <2>1, <2>2 DEF OffFollows
  <2>8. QED BY <2>3, <2>4, <2>5, <2>6, <2>7
<1>12. ASSUME NEW ok \in BOOLEAN, OnCommand(ok)
       PROVE  SettingsIInv'
  <2>1. stored' = IF ok THEN [stored EXCEPT !["off"] = FALSE] ELSE stored
    BY <1>12 DEF OnCommand, Put
  <2>2. /\ unstored' = ~ok /\ cli.pc = "idle" /\ app \notin {"start", "starting"}
        /\ cli' = [cli EXCEPT !.pc = "start"]
        /\ UNCHANGED <<hostname, cors, mdns, app, patch, unsynced, serving>>
    BY <1>12 DEF OnCommand, Commanded, Prompt, routeVars
  <2>3. QED BY <1>11, <2>1, <2>2
<1>13. ASSUME NEW ok \in BOOLEAN, OffCommand(ok)
       PROVE  SettingsIInv'
  <2>1. stored' = IF ok THEN [stored EXCEPT !["off"] = TRUE] ELSE stored
    BY <1>13 DEF OffCommand, Put
  <2>2. /\ unstored' = ~ok /\ cli.pc = "idle" /\ app \notin {"start", "starting"}
        /\ cli' = [cli EXCEPT !.pc = "stop"]
        /\ UNCHANGED <<hostname, cors, mdns, app, patch, unsynced, serving>>
    BY <1>13 DEF OffCommand, Commanded, Prompt, routeVars
  <2>3. QED BY <1>11, <2>1, <2>2
<1>14. CASE WebRestart
  <2>1. NoCommand \in CliRecord /\ NoRequest \in PatchRecord
    BY DEF NoCommand, CliRecord, NoRequest, PatchRecord, Bodies
  <2>2. SettingsTyped' BY <1>14, <2>1 DEF WebRestart, SettingsTyped, Names
  <2>3. QED
    BY <1>14, <2>2 DEF WebRestart, NoCommand, NoRequest, InTurn, HostFollows, CorsFollows, OffFollows
<1>15. QED
  BY <1>2, <1>3, <1>4, <1>5, <1>6, <1>7, <1>8, <1>9, <1>10, <1>12, <1>13, <1>14 DEF Routing

----------------------------------------------------------------------------
LEMMA RouteIs ==
    ASSUME RoutesTyped
    PROVE  /\ Len(routes) \in Nat /\ DOMAIN routes = 1 .. Len(routes) /\ MaxRoutes \in Nat
           /\ Len(tables) \in Nat /\ DOMAIN tables = 1 .. Len(tables)
           /\ \A i \in 1 .. Len(routes) : routes[i] \in RouteRecord
           /\ \A i \in 1 .. Len(tables) : tables[i] \in WebRoutes
           /\ loop.at \in Nat /\ loop \in LoopRecord
<1>1. routes \in Seq(RouteRecord) /\ tables \in Seq(ApiRoutes) BY DEF RoutesTyped
<1>2. \A i \in 1 .. Len(routes) : routes[i] \in RouteRecord BY <1>1
<1>3. \A i \in 1 .. Len(tables) : tables[i] \in WebRoutes BY <1>1, WebServerAssumption
<1>4. loop.at \in Nat BY WebServerAssumption DEF RoutesTyped, LoopRecord
<1>5. QED BY <1>1, <1>2, <1>3, <1>4, WebServerAssumption DEF RoutesTyped

\* Routes with the same path and method have the same handlers.
LEMMA SameHandled ==
    ASSUME NEW r, NEW w
    PROVE  /\ (Handled(r) = Handled(w)) <=> (r.path = w.path /\ r.method = w.method)
           /\ Handled(r) = Handled(w) => Preflight(r) = Preflight(w)
           /\ Handled(r) = Preflight(w) => Preflight(r) = Preflight(w)
  BY DEF Handled, Preflight

\* A route registered with the running server is handled there, and its path's preflight is, whether
\* it or an earlier route of the path brought it.
LEMMA RegisterIs ==
    ASSUME RoutesTyped, RoutesKnown, Preflighted,
           NEW i \in 1 .. Len(routes), NEW made \in BOOLEAN, RegisterLive(i, made)
    PROVE  /\ routes' \in Seq(RouteRecord) /\ Len(routes') = Len(routes)
           /\ \A j \in 1 .. Len(routes) : Handled(routes'[j]) = Handled(routes[j])
           /\ handlers \subseteq handlers'
           /\ handlers' \subseteq {Handled(r) : r \in WebRoutes} \cup {Preflight(r) : r \in WebRoutes}
           /\ unserved' \in BOOLEAN /\ (unserved => unserved')
           /\ serving = "on" /\ ~unserved' => {Handled(routes[i]), Preflight(routes[i])} \subseteq handlers'
           /\ RoutesKnown' /\ Preflighted'
<1> DEFINE r == routes[i]
           live == made /\ serving = "on" /\ Handled(r) \notin handlers
           first == ~\E j \in 1 .. i - 1 :
                        routes[j].preflight /\ routes[j].live /\ routes[j].path = r.path
           added == first /\ Preflight(r) \notin handlers
           new == [r EXCEPT !.live = live, !.preflight = IF live THEN added ELSE @]
<1> USE RouteIs
<1>1. r \in RouteRecord OBVIOUS
<1>2. PICK w \in WebRoutes : Handled(r) = Handled(w) BY DEF RoutesKnown
<1>3. Preflight(r) = Preflight(w) BY <1>2, SameHandled
<1>4. new \in RouteRecord /\ Handled(new) = Handled(r) /\ Preflight(new) = Preflight(r) /\ (new.live <=> live)
  <2>1. live \in BOOLEAN /\ added \in BOOLEAN OBVIOUS
  <2> HIDE DEF live, added
  <2>2. r.preflight \in BOOLEAN BY <1>1 DEF RouteRecord
  <2>3. new.path = r.path /\ new.method = r.method BY <1>1 DEF RouteRecord
  <2>4. new \in RouteRecord /\ new.live = live BY <1>1, <2>1, <2>2 DEF RouteRecord
  <2>5. QED BY <2>3, <2>4 DEF Handled, Preflight
<1>5. /\ routes' = [routes EXCEPT ![i] = new]
      /\ handlers' = handlers \cup IF ~live THEN {} ELSE {Handled(r)} \cup IF added THEN {Preflight(r)} ELSE {}
      /\ unserved' = (unserved \/ (serving = "on" /\ ~made))
  BY DEF RegisterLive
<1> HIDE DEF new
<1>6. routes' \in Seq(RouteRecord) /\ Len(routes') = Len(routes) /\ DOMAIN routes' = 1 .. Len(routes)
  BY <1>4, <1>5 DEF RoutesTyped
<1>7. routes'[i] = new /\ \A j \in 1 .. Len(routes) : j # i => routes'[j] = routes[j] BY <1>5
<1>8. \A j \in 1 .. Len(routes) : Handled(routes'[j]) = Handled(routes[j]) BY <1>4, <1>7
<1>9. RoutesKnown' BY <1>6, <1>8 DEF RoutesKnown
<1>10. live => Preflight(r) \in handlers'
  <2> SUFFICES ASSUME live, ~added PROVE Preflight(r) \in handlers BY <1>5
  <2>1. CASE Preflight(r) \in handlers BY <2>1
  <2>2. CASE ~first
    <3>1. PICK j \in 1 .. i - 1 : routes[j].live /\ routes[j].path = r.path BY <2>2
    <3>2. j \in 1 .. Len(routes) OBVIOUS
    <3>3. Preflight(routes[j]) \in handlers BY <3>1, <3>2 DEF Preflighted
    <3>4. QED BY <3>1, <3>3 DEF Preflight
  <2>3. QED BY <2>1, <2>2
<1>11. Handled(r) \in handlers => Preflight(r) \in handlers BY <1>2, <1>3 DEF Preflighted
<1>12. handlers \subseteq handlers' /\ handlers' \subseteq handlers \cup {Handled(r), Preflight(r)}
  BY <1>5
<1>13. handlers' \subseteq {Handled(v) : v \in WebRoutes} \cup {Preflight(v) : v \in WebRoutes}
  BY <1>2, <1>3, <1>12 DEF RoutesTyped
<1>14. ASSUME NEW v \in WebRoutes, Handled(v) \in handlers' PROVE Preflight(v) \in handlers'
  <2>1. CASE Handled(v) \in handlers BY <2>1, <1>12 DEF Preflighted
  <2>2. CASE Handled(v) \notin handlers
    <3>1. live BY <1>5, <1>14, <2>2
    <3>2. Handled(v) \in {Handled(r), Preflight(r)} BY <1>12, <1>14, <2>2
    <3>3. Preflight(v) = Preflight(r) BY <3>2, SameHandled
    <3>4. QED BY <1>10, <3>1, <3>3
  <2>3. QED BY <2>1, <2>2
<1>15. ASSUME NEW j \in 1 .. Len(routes), routes'[j].live PROVE Preflight(routes'[j]) \in handlers'
  <2>1. CASE j = i
    <3>1. live BY <1>4, <1>7, <1>15, <2>1
    <3>2. QED BY <1>4, <1>7, <1>10, <2>1, <3>1
  <2>2. CASE j # i BY <1>7, <1>12, <1>15, <2>2 DEF Preflighted
  <2>3. QED BY <2>1, <2>2
<1>16. Preflighted' BY <1>6, <1>14, <1>15 DEF Preflighted
<1>17. ASSUME serving = "on", ~unserved' PROVE {Handled(r), Preflight(r)} \subseteq handlers'
  <2>1. made BY <1>5, <1>17
  <2>2. CASE live BY <1>5, <1>10, <2>2
  <2>3. CASE ~live BY <1>11, <1>12, <1>17, <2>1, <2>3
  <2>4. QED BY <2>2, <2>3
<1>18. unserved' \in BOOLEAN /\ (unserved => unserved') BY <1>5 DEF RoutesTyped
<1>19. QED BY <1>6, <1>8, <1>9, <1>12, <1>13, <1>16, <1>17, <1>18

LEMMA RoutesInit == WebServerInit => RoutesIInv
<1> SUFFICES ASSUME WebServerInit PROVE RoutesIInv OBVIOUS
<1>1. /\ tables = <<>> /\ routes = <<>> /\ serving = "off" /\ handlers = {} /\ loop = NotStarting
      /\ unserved = FALSE
  BY DEF WebServerInit, Fresh
<1>2. NotStarting \in LoopRecord /\ MaxRoutes \in Nat BY WebServerAssumption DEF NotStarting, LoopRecord
<1>3. <<>> \in Seq(ApiRoutes) /\ <<>> \in Seq(RouteRecord) /\ Len(<<>>) <= MaxRoutes BY <1>2
<1>5. RoutesTyped BY <1>1, <1>2, <1>3 DEF RoutesTyped
<1>4. QED
  BY <1>5 DEF WebServerInit, Fresh, RoutesIInv, RoutesKnown, LoopOwned, NotStarting, TablesFollow,
              Preflighted, RoutesFollow

\* A step that leaves the routes and the application's task alone.
LEMMA RoutesUntouched ==
    ASSUME RoutesIInv, UNCHANGED <<routeVars, app, unserved>>, cli' = cli \/ cli.pc # "starting"
    PROVE  RoutesIInv'
<1> USE DEF RoutesIInv, routeVars
<1>1. RoutesTyped' BY DEF RoutesTyped
<1>2. RoutesKnown' /\ TablesFollow' /\ Preflighted' BY DEF RoutesKnown, TablesFollow, Preflighted
<1>3. LoopOwned' BY DEF LoopOwned
<1>4. RoutesFollow' BY DEF RoutesFollow, Handed
<1>5. QED BY <1>1, <1>2, <1>3, <1>4

\* A route that is added at the end is whoever adds it's to hand over, or the start's.
LEMMA RouteAdded ==
    ASSUME RoutesIInv, InTurn, NEW r \in WebRoutes,
           app \in {"start", "running"}, Len(routes) < MaxRoutes,
           routes' = Append(routes, Unregistered(r)),
           UNCHANGED <<serving, handlers, loop, cli, unserved>>,
           tables' \in Seq(ApiRoutes),
           app # "start" => \A i \in 1 .. Len(tables') :
               (i \in 1 .. Len(tables) /\ tables'[i] = tables[i]) \/ tables'[i] = r,
           app' = IF app = "start" THEN "start" ELSE "look"
    PROVE  RoutesIInv'
<1> USE RouteIs DEF RoutesIInv
<1> DEFINE new == Unregistered(r)
<1>1. new \in RouteRecord /\ Handled(new) = Handled(r) /\ ~new.live
  BY DEF Unregistered, RouteRecord, Handled
<1> HIDE DEF new
<1>2. /\ routes' \in Seq(RouteRecord) /\ Len(routes') = Len(routes) + 1
      /\ \A i \in 1 .. Len(routes) : routes'[i] = routes[i]
      /\ routes'[Len(routes) + 1] = new
  BY <1>1 DEF RoutesTyped, new
<1>3. RoutesTyped' BY <1>2 DEF RoutesTyped
<1>4. RoutesKnown' BY <1>1, <1>2 DEF RoutesKnown
<1>5. LoopOwned' BY <1>2 DEF LoopOwned
<1>6. TablesFollow'
  <2> SUFFICES ASSUME app # "start", NEW i \in 1 .. Len(tables')
               PROVE  \E j \in 1 .. Len(routes') : Handled(routes'[j]) = Handled(tables'[i])
    BY DEF TablesFollow
  <2>1. CASE i \in 1 .. Len(tables) /\ tables'[i] = tables[i]
    <3>1. PICK j \in 1 .. Len(routes) : Handled(routes[j]) = Handled(tables[i])
      BY <2>1 DEF TablesFollow
    <3>2. QED BY <1>2, <2>1, <3>1
  <2>2. CASE tables'[i] = r BY <1>1, <1>2, <2>2
  <2>3. QED BY <2>1, <2>2
<1>7. Preflighted'
  <2>1. \A i \in 1 .. Len(routes') : routes'[i].live => i \in 1 .. Len(routes) BY <1>1, <1>2
  <2>2. QED BY <1>2, <2>1 DEF Preflighted
<1>8. RoutesFollow'
  <2> SUFFICES ASSUME serving = "on", ~unserved, NEW i \in 1 .. Len(routes')
               PROVE  \/ Handed(i)' \/ (loop'.at > 0 /\ loop'.at <= i)
                      \/ (app' \in {"look", "register"} /\ i = Len(routes'))
    BY DEF RoutesFollow
  <2>1. app = "running" BY DEF InTurn
  <2>2. CASE i \in 1 .. Len(routes) BY <1>2, <2>1, <2>2 DEF RoutesFollow, Handed
  <2>3. CASE i = Len(routes) + 1 BY <1>2, <2>1, <2>3
  <2>4. QED BY <1>2, <2>2, <2>3
<1>9. QED BY <1>3, <1>4, <1>5, <1>6, <1>7, <1>8

\* No step of the server, its commands, its requests or the application's registrations takes a
\* route, or a handler of one that is served, away.
LEMMA RoutesStep ==
    ASSUME SettingsIInv, RoutesIInv, WebServerNext
    PROVE  RoutesIInv'
<1> USE RouteIs DEF RoutesIInv
<1>1. InTurn /\ SettingsTyped BY DEF SettingsIInv
<1>2. ASSUME Settings \/ Patching \/ (\E ok \in BOOLEAN : OnCommand(ok) \/ OffCommand(ok))
      PROVE  RoutesIInv'
  <2>1. CASE Settings
    <3>1. UNCHANGED <<routeVars, app, unserved>>
      BY <2>1 DEF Settings, HostnameCommand, PasswordCommand, CorsCommand, StoreCors, ResetCors,
                  LoadForConsole, ApplyForConsole, CopyCors, LoadCorsForConsole, webHistory
    <3>2. cli.pc # "starting"
      BY <2>1 DEF Settings, HostnameCommand, PasswordCommand, CorsCommand, StoreCors, ResetCors,
                  LoadForConsole, ApplyForConsole, CopyCors, LoadCorsForConsole, Commanded, Prompt
    <3>3. QED BY <3>1, <3>2, RoutesUntouched
  <2>2. CASE Patching
    <3>1. UNCHANGED <<routeVars, app, cli, unserved>>
      BY <2>2 DEF Patching, Request, PatchHost, PatchLoadHost, PatchApplyHost, PatchPassword, PatchCors,
                  PatchLoadCors, patchRest
    <3>2. QED BY <3>1, RoutesUntouched
  <2>3. CASE \E ok \in BOOLEAN : OnCommand(ok) \/ OffCommand(ok)
    <3>1. UNCHANGED <<routeVars, app, unserved>> /\ cli.pc # "starting"
      BY <2>3 DEF OnCommand, OffCommand, Commanded, Prompt
    <3>2. QED BY <3>1, RoutesUntouched
  <2>4. QED BY <1>2, <2>1, <2>2, <2>3
<1>3. ASSUME NEW r \in WebRoutes, Register(r)
      PROVE  RoutesIInv'
  BY <1>1, <1>3, RouteAdded DEF Register, webHistory, RoutesTyped
<1>4. ASSUME NEW r \in WebRoutes, AddRoutes(r)
      PROVE  RoutesIInv'
  <2>1. /\ r \in ApiRoutes /\ tables' = Append(tables, r) /\ tables' \in Seq(ApiRoutes)
        /\ UNCHANGED <<serving, handlers, loop, cli, unserved>>
    BY <1>4 DEF AddRoutes, webHistory, RoutesTyped
  <2>2. \A i \in 1 .. Len(tables') :
           (i \in 1 .. Len(tables) /\ tables'[i] = tables[i]) \/ tables'[i] = r
    BY <2>1 DEF RoutesTyped
  <2>3. CASE app = "start"
    <3>1. routes' = routes /\ app' = app BY <1>4, <2>3 DEF AddRoutes
    <3>2. RoutesTyped' BY <2>1, <3>1 DEF RoutesTyped
    <3>3. RoutesKnown' /\ Preflighted' BY <2>1, <3>1 DEF RoutesKnown, Preflighted
    <3>4. LoopOwned' BY <2>1, <3>1 DEF LoopOwned
    <3>5. TablesFollow' BY <2>3, <3>1 DEF TablesFollow
    <3>6. RoutesFollow' BY <2>1, <3>1 DEF RoutesFollow, Handed
    <3>7. QED BY <3>2, <3>3, <3>4, <3>5, <3>6
  <2>4. CASE app # "start"
    <3>1. /\ app = "running" /\ Len(routes) < MaxRoutes /\ app' = "look"
          /\ routes' = Append(routes, Unregistered(r))
      BY <1>4, <2>4 DEF AddRoutes
    <3>2. QED BY <1>1, <2>1, <2>2, <3>1, RouteAdded
  <2>5. QED BY <2>3, <2>4
<1>5. CASE Look
  <2>1. /\ UNCHANGED <<tables, routes, serving, handlers, loop, cli, unserved>> /\ app = "look"
        /\ app' = IF serving = "off" THEN "running" ELSE "register"
    BY <1>5 DEF Look, routeVars, webHistory
  <2>2. RoutesTyped' BY <2>1 DEF RoutesTyped
  <2>3. RoutesKnown' /\ Preflighted' BY <2>1 DEF RoutesKnown, Preflighted
  <2>4. LoopOwned' BY <2>1 DEF LoopOwned
  <2>5. TablesFollow' BY <2>1 DEF TablesFollow
  <2>6. RoutesFollow' BY <2>1 DEF RoutesFollow, Handed
  <2>7. QED BY <2>2, <2>3, <2>4, <2>5, <2>6
<1>6. ASSUME NEW made \in BOOLEAN, RegisterNew(made)
      PROVE  RoutesIInv'
  <2> DEFINE last == Len(routes)
  <2>1. /\ app = "register" /\ app' = "running" /\ RegisterLive(last, made)
        /\ UNCHANGED <<tables, serving, loop, cli>>
    BY <1>6 DEF RegisterNew
  <2>2. last \in 1 .. Len(routes) BY <2>1 DEF LoopOwned
  <2>3. /\ routes' \in Seq(RouteRecord) /\ Len(routes') = Len(routes)
        /\ \A j \in 1 .. Len(routes) : Handled(routes'[j]) = Handled(routes[j])
        /\ handlers \subseteq handlers'
        /\ handlers' \subseteq {Handled(r) : r \in WebRoutes} \cup {Preflight(r) : r \in WebRoutes}
        /\ unserved' \in BOOLEAN /\ (unserved => unserved')
        /\ serving = "on" /\ ~unserved' => {Handled(routes[last]), Preflight(routes[last])} \subseteq handlers'
        /\ RoutesKnown' /\ Preflighted'
    BY <2>1, <2>2, RegisterIs
  <2>4. RoutesTyped' BY <2>1, <2>3 DEF RoutesTyped
  <2>5. LoopOwned' BY <2>1 DEF LoopOwned
  <2>6. TablesFollow' BY <2>1, <2>3 DEF TablesFollow
  <2>7. RoutesFollow'
    <3> SUFFICES ASSUME serving = "on", ~unserved', NEW i \in 1 .. Len(routes)
                 PROVE  Handed(i)' \/ (loop.at > 0 /\ loop.at <= i)
      BY <2>1, <2>3 DEF RoutesFollow
    <3>1. Handled(routes'[i]) = Handled(routes[i]) /\ Preflight(routes'[i]) = Preflight(routes[i])
      BY <2>3, SameHandled
    <3>2. CASE i = last BY <2>3, <3>1, <3>2 DEF Handed
    <3>3. CASE i # last
      <4>1. Handed(i) \/ (loop.at > 0 /\ loop.at <= i) BY <2>3, <3>3 DEF RoutesFollow
      <4>2. QED BY <2>3, <3>1, <4>1 DEF Handed
    <3>4. QED BY <3>2, <3>3
  <2>8. QED BY <2>3, <2>4, <2>5, <2>6, <2>7
<1>7. ASSUME NEW made \in BOOLEAN, StartNext(made)
      PROVE  RoutesIInv'
  <2>1. UNCHANGED <<tables, serving>> /\ loop.at > 0 BY <1>7 DEF StartNext
  <2>2. CASE loop.at <= Len(routes)
    <3> DEFINE at == loop.at
    <3>1. RegisterLive(at, made) /\ loop' = [loop EXCEPT !.at = at + 1] /\ UNCHANGED <<app, cli>>
      BY <1>7, <2>2 DEF StartNext
    <3>2. at \in 1 .. Len(routes) BY <2>1, <2>2
    <3>3. /\ routes' \in Seq(RouteRecord) /\ Len(routes') = Len(routes)
          /\ \A j \in 1 .. Len(routes) : Handled(routes'[j]) = Handled(routes[j])
          /\ handlers \subseteq handlers'
          /\ handlers' \subseteq {Handled(r) : r \in WebRoutes} \cup {Preflight(r) : r \in WebRoutes}
          /\ unserved' \in BOOLEAN /\ (unserved => unserved')
          /\ serving = "on" /\ ~unserved' => {Handled(routes[at]), Preflight(routes[at])} \subseteq handlers'
          /\ RoutesKnown' /\ Preflighted'
      BY <3>1, <3>2, RegisterIs
    <3>4. loop' \in LoopRecord /\ loop'.at = at + 1 /\ loop'.by = loop.by
      BY <3>1, <3>2 DEF LoopRecord, RoutesTyped
    <3>5. RoutesTyped' BY <2>1, <3>3, <3>4 DEF RoutesTyped
    <3>6. LoopOwned' BY <2>1, <3>1, <3>3, <3>4 DEF LoopOwned
    <3>7. TablesFollow' BY <2>1, <3>1, <3>3 DEF TablesFollow
    <3>8. RoutesFollow'
      <4> SUFFICES ASSUME serving = "on", ~unserved', NEW i \in 1 .. Len(routes)
                   PROVE  \/ Handed(i)' \/ at + 1 <= i
                          \/ (app \in {"look", "register"} /\ i = Len(routes))
        BY <2>1, <3>1, <3>3, <3>4 DEF RoutesFollow
      <4>1. Handled(routes'[i]) = Handled(routes[i]) /\ Preflight(routes'[i]) = Preflight(routes[i])
        BY <3>3, SameHandled
      <4>2. CASE i = at BY <3>3, <4>1, <4>2 DEF Handed
      <4>3. CASE i # at
        <5>1. Handed(i) \/ at <= i \/ (app \in {"look", "register"} /\ i = Len(routes))
          BY <3>3 DEF RoutesFollow
        <5>2. QED BY <3>3, <4>1, <4>3, <5>1 DEF Handed
      <4>4. QED BY <4>2, <4>3
    <3>9. QED BY <3>3, <3>5, <3>6, <3>7, <3>8
  <2>3. CASE ~(loop.at <= Len(routes))
    <3>1. /\ UNCHANGED <<routes, handlers, unserved>> /\ loop' = NotStarting
          /\ app' = IF loop.by = "app" THEN "running" ELSE app
      BY <1>7, <2>3 DEF StartNext, Returned
    <3>2. app' \in {"look", "register"} <=> app \in {"look", "register"}
      BY <2>1, <3>1 DEF LoopOwned
    <3>3. RoutesTyped' BY <2>1, <3>1, WebServerAssumption DEF RoutesTyped, NotStarting, LoopRecord
    <3>4. RoutesKnown' /\ Preflighted' BY <3>1 DEF RoutesKnown, Preflighted
    <3>5. LoopOwned' BY <3>1, <3>2 DEF LoopOwned, NotStarting
    <3>6. TablesFollow' BY <2>1, <3>1 DEF TablesFollow, LoopOwned
    <3>7. RoutesFollow'
      <4> SUFFICES ASSUME serving = "on", ~unserved, NEW i \in 1 .. Len(routes)
                   PROVE  Handed(i)' \/ (app \in {"look", "register"} /\ i = Len(routes))
        BY <2>1, <3>1, <3>2 DEF RoutesFollow
      <4>1. ~(loop.at <= i) BY <2>3
      <4>2. Handed(i)' <=> Handed(i) BY <3>1 DEF Handed
      <4>3. QED BY <4>1, <4>2 DEF RoutesFollow
    <3>8. QED BY <3>3, <3>4, <3>5, <3>6, <3>7
  <2>4. QED BY <2>2, <2>3
<1>8. ASSUME NEW by \in {"app", "cli"}, NEW ok \in BOOLEAN, StartHttpd(by, ok),
             UNCHANGED <<tables, routes, handlers, unserved>>, loop.at = 0,
             \/ (by = "app" /\ app = "starting" /\ cli' = cli)
             \/ (by = "cli" /\ app \notin {"start", "starting"} /\ (loop' # loop => cli'.pc = "starting"))
      PROVE  RoutesIInv'
  <2>1. loop = NotStarting BY <1>8 DEF LoopOwned
  <2>2. CASE serving # "off" \/ ~ok
    <3>1. UNCHANGED <<serving, loop>> /\ app' = IF by = "app" THEN "running" ELSE app
      BY <1>8, <2>2 DEF StartHttpd, Returned
    <3>2. RoutesTyped' BY <1>8, <3>1 DEF RoutesTyped
    <3>3. RoutesKnown' /\ Preflighted' BY <1>8, <3>1 DEF RoutesKnown, Preflighted
    <3>4. LoopOwned' BY <1>8, <3>1 DEF LoopOwned
    <3>5. TablesFollow' BY <1>8, <3>1 DEF TablesFollow
    <3>6. RoutesFollow' BY <1>8, <3>1 DEF RoutesFollow, Handed
    <3>7. QED BY <3>2, <3>3, <3>4, <3>5, <3>6
  <2>3. CASE ~(serving # "off" \/ ~ok)
    <3>1. serving' = "on" /\ loop' = [at |-> 1, by |-> by] /\ app' = app
      BY <1>8, <2>3 DEF StartHttpd
    <3>2. loop' \in LoopRecord /\ loop' # loop
      BY <2>1, <3>1, WebServerAssumption DEF LoopRecord, NotStarting
    <3>3. RoutesTyped' BY <1>8, <3>1, <3>2 DEF RoutesTyped
    <3>4. RoutesKnown' /\ Preflighted' BY <1>8, <3>1 DEF RoutesKnown, Preflighted
    <3>5. LoopOwned' BY <1>8, <3>1, <3>2 DEF LoopOwned
    <3>6. TablesFollow' BY <1>8, <3>1 DEF TablesFollow
    <3>7. RoutesFollow'
      <4>1. \A i \in 1 .. Len(routes) : loop'.at > 0 /\ loop'.at <= i BY <3>1
      <4>2. QED BY <1>8, <4>1 DEF RoutesFollow
    <3>8. QED BY <3>3, <3>4, <3>5, <3>6, <3>7
  <2>4. QED BY <2>2, <2>3
<1>9. ASSUME NEW ok \in BOOLEAN, BootStart(ok)
      PROVE  RoutesIInv'
  <2>1. /\ StartHttpd("app", ok) /\ app = "starting" /\ loop = NotStarting
        /\ UNCHANGED <<tables, routes, handlers, unserved, cli>>
    BY <1>9 DEF BootStart, webHistory
  <2>2. QED BY <1>8, <2>1 DEF NotStarting
<1>10. ASSUME NEW ok \in BOOLEAN, OnStart(ok)
       PROVE  RoutesIInv'
  <2>1. /\ StartHttpd("cli", ok) /\ cli.pc = "start"
        /\ UNCHANGED <<tables, routes, handlers, unserved>>
        /\ loop' # loop => cli' = [cli EXCEPT !.pc = "starting"]
    BY <1>10 DEF OnStart, webHistory
  <2>2. app \notin {"start", "starting"} BY <1>1, <2>1 DEF InTurn
  <2>3. loop.at = 0 BY <2>1, <2>2 DEF LoopOwned
  <2>4. loop' # loop => cli'.pc = "starting" BY <1>1, <2>1 DEF SettingsTyped, CliRecord
  <2>5. QED BY <1>8, <2>1, <2>2, <2>3, <2>4
<1>11. CASE OffStop
  <2>1. /\ cli.pc = "stop" /\ serving' \in {"off", "stopping"}
        /\ UNCHANGED <<tables, routes, handlers, loop, app, unserved>>
    BY <1>11 DEF OffStop, webHistory
  <2>2. RoutesTyped' BY <2>1 DEF RoutesTyped
  <2>3. RoutesKnown' /\ Preflighted' BY <2>1 DEF RoutesKnown, Preflighted
  <2>4. LoopOwned' BY <1>1, <2>1 DEF LoopOwned, InTurn
  <2>5. TablesFollow' BY <2>1 DEF TablesFollow
  <2>6. RoutesFollow' BY <2>1 DEF RoutesFollow
  <2>7. QED BY <2>2, <2>3, <2>4, <2>5, <2>6
<1>12. CASE Stopped
  <2>1. /\ cli.pc = "wait" /\ serving' = "off" /\ handlers' = {} /\ unserved' = FALSE
        /\ routes' = [i \in 1 .. Len(routes) |-> Unregistered(routes[i])]
        /\ UNCHANGED <<tables, loop, app>>
    BY <1>12 DEF Stopped
  <2>2. \A i \in 1 .. Len(routes) : /\ Unregistered(routes[i]) \in RouteRecord
                                    /\ Handled(Unregistered(routes[i])) = Handled(routes[i])
                                    /\ ~Unregistered(routes[i]).live
    BY DEF Unregistered, RouteRecord, Handled
  <2>3. routes' \in Seq(RouteRecord) /\ Len(routes') = Len(routes)
        /\ \A i \in 1 .. Len(routes) : Handled(routes'[i]) = Handled(routes[i]) /\ ~routes'[i].live
    BY <2>1, <2>2
  <2>4. RoutesTyped' BY <2>1, <2>3 DEF RoutesTyped
  <2>5. RoutesKnown' /\ Preflighted' BY <2>1, <2>3 DEF RoutesKnown, Preflighted
  <2>6. LoopOwned' BY <1>1, <2>1, <2>3 DEF LoopOwned, InTurn
  <2>7. TablesFollow' BY <2>1, <2>3 DEF TablesFollow
  <2>8. RoutesFollow' BY <2>1 DEF RoutesFollow
  <2>9. QED BY <2>4, <2>5, <2>6, <2>7, <2>8
<1>13. ASSUME NEW up \in BOOLEAN, WebServerStart(up)
       PROVE  RoutesIInv'
  <2> DEFINE old == [i \in 1 .. Len(tables) |-> Unregistered(tables[i])]
             last == Unregistered(BuiltIn)
  <2>1. /\ app = "start" /\ Len(routes) + Len(tables) < MaxRoutes
        /\ routes' = routes \o old \o <<last>> /\ app' \in {"running", "starting"}
        /\ UNCHANGED <<tables, serving, handlers, loop, cli, unserved>>
    BY <1>13 DEF WebServerStart
  <2>2. \A r \in WebRoutes : /\ Unregistered(r) \in RouteRecord /\ Handled(Unregistered(r)) = Handled(r)
                             /\ ~Unregistered(r).live
    BY DEF Unregistered, RouteRecord, Handled
  <2>3. old \in Seq(RouteRecord) /\ Len(old) = Len(tables) /\ last \in RouteRecord
    BY <2>2, WebServerAssumption
  <2>4. \A i \in 1 .. Len(tables) : old[i] = Unregistered(tables[i]) OBVIOUS
  <2> DEFINE both == routes \o old
  <2> HIDE DEF old, last
  <2>14. /\ both \in Seq(RouteRecord) /\ Len(both) = Len(routes) + Len(tables)
         /\ \A i \in 1 .. Len(routes) : both[i] = routes[i]
         /\ \A i \in 1 .. Len(tables) : both[Len(routes) + i] = old[i]
    <3>1. routes \in Seq(RouteRecord) BY DEF RoutesTyped
    <3>2. /\ both \in Seq(RouteRecord) /\ Len(both) = Len(routes) + Len(tables)
          /\ \A i \in 1 .. Len(routes) + Len(tables) :
                both[i] = IF i <= Len(routes) THEN routes[i] ELSE old[i - Len(routes)]
      <4>1. /\ both \in Seq(RouteRecord) /\ Len(both) = Len(routes) + Len(old)
            /\ \A i \in 1 .. Len(routes) + Len(old) :
                  both[i] = IF i <= Len(routes) THEN routes[i] ELSE old[i - Len(routes)]
        BY ONLY <2>3, <3>1, ConcatProperties, Zenon
      <4>2. QED BY <2>3, <4>1
    <3> HIDE DEF both
    <3>3. ASSUME NEW i \in 1 .. Len(tables) PROVE both[Len(routes) + i] = old[i]
      <4>1. Len(routes) + i \in 1 .. Len(routes) + Len(tables) /\ Len(routes) + i - Len(routes) = i OBVIOUS
      <4>2. QED BY <3>2, <4>1
    <3>4. QED BY <3>2, <3>3
  <2>15. routes' = Append(both, last) BY <2>1, <2>3, <2>14
  <2> HIDE DEF both
  <2>5. /\ routes' \in Seq(RouteRecord) /\ Len(routes') = Len(routes) + Len(tables) + 1
        /\ \A i \in 1 .. Len(routes) : routes'[i] = routes[i]
        /\ \A i \in 1 .. Len(tables) : routes'[Len(routes) + i] = old[i]
        /\ routes'[Len(routes) + Len(tables) + 1] = last
    BY <2>3, <2>14, <2>15
  <2>6. ASSUME NEW i \in 1 .. Len(routes')
        PROVE  \/ i \in 1 .. Len(routes) /\ routes'[i] = routes[i]
               \/ \E r \in WebRoutes : routes'[i] = Unregistered(r)
    <3>1. CASE i \in 1 .. Len(routes) BY <2>5, <3>1
    <3>2. CASE i \in Len(routes) + 1 .. Len(routes) + Len(tables)
      <4>1. i - Len(routes) \in 1 .. Len(tables) /\ i = Len(routes) + (i - Len(routes)) BY <3>2
      <4>2. routes'[i] = Unregistered(tables[i - Len(routes)]) BY <2>4, <2>5, <4>1
      <4>3. QED BY <4>1, <4>2
    <3>3. CASE i = Len(routes) + Len(tables) + 1 BY <2>5, <3>3, WebServerAssumption DEF last
    <3>4. QED BY <2>5, <3>1, <3>2, <3>3
  <2>7. RoutesTyped'
    <3>1. Len(routes') <= MaxRoutes BY <2>1, <2>5
    <3>2. QED BY <2>1, <2>5, <3>1 DEF RoutesTyped
  <2>8. RoutesKnown' BY <2>2, <2>6 DEF RoutesKnown
  <2>9. Preflighted' BY <2>1, <2>2, <2>6 DEF Preflighted
  <2>10. LoopOwned' BY <1>1, <2>1 DEF LoopOwned, InTurn
  <2>11. TablesFollow'
    <3> SUFFICES ASSUME NEW i \in 1 .. Len(tables)
                 PROVE  \E j \in 1 .. Len(routes') : Handled(routes'[j]) = Handled(tables[i])
      BY <2>1 DEF TablesFollow
    <3>1. Len(routes) + i \in 1 .. Len(routes') BY <2>5
    <3>2. Handled(routes'[Len(routes) + i]) = Handled(tables[i]) BY <2>2, <2>4, <2>5
    <3>3. QED BY <3>1, <3>2
  <2>12. RoutesFollow' BY <1>1, <2>1 DEF RoutesFollow, InTurn
  <2>13. QED BY <2>7, <2>8, <2>9, <2>10, <2>11, <2>12
<1>14. CASE WebRestart
  <2>1. /\ tables' = <<>> /\ routes' = <<>> /\ serving' = "off" /\ handlers' = {}
        /\ loop' = NotStarting /\ unserved' = FALSE
    BY <1>14 DEF WebRestart
  <2>2. NotStarting \in LoopRecord BY WebServerAssumption DEF NotStarting, LoopRecord
  <2>3. <<>> \in Seq(ApiRoutes) /\ <<>> \in Seq(RouteRecord) /\ Len(<<>>) <= MaxRoutes OBVIOUS
  <2>5. RoutesTyped' BY <2>1, <2>2, <2>3 DEF RoutesTyped
  <2>4. RoutesKnown' /\ Preflighted' BY <2>1, <2>3 DEF RoutesKnown, Preflighted
  <2>6. LoopOwned' BY <1>14, <2>1 DEF LoopOwned, WebRestart, NotStarting
  <2>7. TablesFollow' /\ RoutesFollow' BY <1>14, <2>1 DEF TablesFollow, RoutesFollow, WebRestart
  <2>8. QED BY <2>4, <2>5, <2>6, <2>7
<1>15. QED
  BY <1>2, <1>3, <1>4, <1>5, <1>6, <1>7, <1>9, <1>10, <1>11, <1>12, <1>13, <1>14
  DEF WebServerNext, Routing

LEMMA ServerPromises ==
    ASSUME SettingsIInv, RoutesIInv
    PROVE  WebServerTypeOK /\ ServedAsAsked
<1> USE RouteIs, LoadedIs DEF SettingsIInv, RoutesIInv
<1>1. WebServerTypeOK
  <2>1. {routes[i] : i \in DOMAIN routes} \subseteq RouteRecord OBVIOUS
  <2>2. hostname \in Names /\ mdns \in Names \cup {Unset} /\ stored \in StoredRecord BY DEF SettingsTyped
  <2>3. patch.body \in Bodies BY DEF SettingsTyped, PatchRecord
  <2>4. /\ stored \in [host : Hosts \cup {Unset}, off : BOOLEAN,
                       cors : (SUBSET Origins) \cup {Unset}, password : BOOLEAN]
        /\ hostname \in Hosts \cup {DefaultHost} /\ mdns \in Hosts \cup {DefaultHost, Unset}
    BY <2>2 DEF StoredRecord, Names
  <2>5. {unsynced, unstored, unserved} \subseteq BOOLEAN BY DEF SettingsTyped, RoutesTyped
  <2>6. {routes[i] : i \in DOMAIN routes} \subseteq
           [path : {r.path : r \in WebRoutes}, method : {r.method : r \in WebRoutes},
            live : BOOLEAN, preflight : BOOLEAN]
    BY <2>1 DEF RouteRecord
  <2>7. QED BY <2>3, <2>4, <2>5, <2>6 DEF WebServerTypeOK, RoutesTyped, SettingsTyped, LoopRecord
<1>2. ASSUME Settled PROVE InEffect /\ Served
  <2>1. app = "running" /\ cli.pc = "idle" /\ patch.pc = "idle" /\ loop.at = 0
    BY <1>2 DEF Settled, NoCommand, NotStarting
  <2>2. InEffect BY <2>1 DEF InEffect, HostFollows, CorsFollows, LoadedHost, LoadedCors
  <2>3. unstored \/ (serving = "on" => ~stored.off) BY <2>1 DEF OffFollows
  <2>5. \A i \in DOMAIN tables : \E j \in DOMAIN routes : Handled(routes[j]) = Handled(tables[i])
    BY <2>1 DEF TablesFollow
  <2>6. ASSUME serving = "on", ~unserved, NEW i \in DOMAIN routes
        PROVE  {Handled(routes[i]), Preflight(routes[i])} \subseteq handlers
    <3>1. Handed(i) BY <2>1, <2>6 DEF RoutesFollow
    <3>2. QED BY <3>1 DEF Handed
  <2>7. Served BY <2>3, <2>5, <2>6 DEF Served
  <2>8. QED BY <2>2, <2>7
<1>3. QED BY <1>1, <1>2 DEF ServedAsAsked
----------------------------------------------------------------------------
(* The streams, the settings and the routes. *)

PartsIInv == RingIInv /\ NotifyIInv /\ StreamsIInv /\ SettingsIInv /\ RoutesIInv

LEMMA PartsInit == PartsSpec => PartsIInv
<1>1. WebPartsInit => PartsIInv
  BY RingInit, NotifyInit, StreamsInit, SettingsInit, RoutesInit DEF WebPartsInit, WebInit, PartsIInv
<1>2. QED BY <1>1 DEF PartsSpec

LEMMA SettingsUntouched == ASSUME SettingsIInv, UNCHANGED webServerVars PROVE SettingsIInv'
  BY DEF SettingsIInv, SettingsTyped, InTurn, HostFollows, CorsFollows, OffFollows, LoadedHost, LoadedCors,
         webServerVars, settingVars, routeVars, taskVars, webHistory

LEMMA PartsStep == ASSUME PartsIInv, [WebPartsNext]_AllVars PROVE PartsIInv'
<1> USE DEF PartsIInv
<1>1. ASSUME UNCHANGED webServerVars PROVE SettingsIInv' /\ RoutesIInv'
  BY <1>1, SettingsUntouched, RoutesUntouched DEF webServerVars, taskVars, webHistory
<1>2. ASSUME UNCHANGED allVars PROVE RingIInv' /\ NotifyIInv' /\ StreamsIInv'
  BY <1>2, StreamsStep
<1>3. CASE UNCHANGED AllVars BY <1>1, <1>2, <1>3 DEF AllVars
<1>4. CASE WebNext /\ UNCHANGED webServerVars BY <1>1, <1>4, StreamsStep
<1>5. CASE WebServerNext /\ UNCHANGED allVars
  <2>1. RoutesIInv' BY <1>5, RoutesStep
  <2>2. LoopOwned BY DEF RoutesIInv
  <2>3. SettingsIInv'
    BY <1>5, <2>2, SettingsCommanded, SettingsPatched, SettingsRouted DEF WebServerNext
  <2>4. QED BY <1>2, <1>5, <2>1, <2>3
<1>6. QED BY <1>3, <1>4, <1>5 DEF WebPartsNext, WebServerNext

LEMMA PartsHold == PartsSpec => []PartsIInv
<1>1. PartsIInv /\ [WebPartsNext]_AllVars => PartsIInv' BY PartsStep
<1>2. QED BY <1>1, PartsInit, PTL DEF PartsSpec

\* Every variable of the streams, the settings and the routes keeps its type: a state a stream was
\* shown is one the builders describe, a connection told to close is open (web_events.c:74-84),
\* and the list never holds more routes than it has room for (web_server.c:787-799).
THEOREM PartsTyped == PartsSpec => []WebPartsTypeOK
<1>1. PartsIInv => WebPartsTypeOK BY StreamsPromises, ServerPromises DEF PartsIInv, WebPartsTypeOK
<1>2. QED BY <1>1, PartsHold, PTL

\* When all is quiet an open stream has been sent the present value of every state that changed
\* since it opened and every happening it is due: no coalescing of flushes, no stream opened
\* between the send and the list of what is wanted, and no order of marks loses one
\* (web_events.c:140-218, 267-327).
THEOREM QuietTold == PartsSpec => []QuietIsTold
<1>1. PartsIInv => QuietIsTold BY StreamsPromises DEF PartsIInv
<1>2. QED BY <1>1, PartsHold, PTL

\* An open stream is on a connection of its own, whoever starts, stops or closes what meanwhile
\* (web_events.c:74-84, 267-327, 349-380).
THEOREM StreamsConnected == PartsSpec => []StreamsAreConnections
<1>1. PartsIInv => StreamsAreConnections BY StreamsPromises DEF PartsIInv
<1>2. QED BY <1>1, PartsHold, PTL

\* When nothing is under way, what is in effect is what is stored and each route is served, however
\* the console's commands, a PATCH /api/v1/web and registrations came (web_server.c:759-799,
\* 1094-1229, 1300-1440).
THEOREM SettledServed == PartsSpec => []ServedAsAsked
<1>1. PartsIInv => ServedAsAsked BY ServerPromises DEF PartsIInv
<1>2. QED BY <1>1, PartsHold, PTL

=============================================================================
