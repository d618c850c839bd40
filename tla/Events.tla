------------------------------- MODULE Events -------------------------------
(***************************************************************************)
(* The event hub, events/events.c: kinds, the ring of kept happenings, and *)
(* the listeners.  Every function of the file takes one recursive mutex,   *)
(* so a critical section is one step here; what a function does between    *)
(* two critical sections is between two steps, and any other task's steps  *)
(* may come there.                                                         *)
(*                                                                         *)
(* A mask of kinds is a set of kinds and a bit is an element.  The JSON of *)
(* an event is left out; what remains of it is that it may not be made     *)
(* (out of memory).                                                        *)
(***************************************************************************)
EXTENDS Integers, FiniteSets, Sequences

CONSTANTS
    StateKinds,     \* names declared with a builder
    HappeningKinds, \* names declared without one
    MaxKinds,       \* EVENTS_MAX_KINDS
    MaxSinks,       \* EVENTS_MAX_SINKS
    Kept,           \* EVENTS_KEPT
    SeqMod,         \* 65535: a seq is 1..SeqMod, then 1 again
    Publishers,     \* the tasks that publish
    Listeners,      \* those who call events_listen(), each with its own callback
    None,           \* no callback
    MaxCount        \* bound on the happenings of one behaviour

ASSUME KindsAssumption == StateKinds \cap HappeningKinds = {}
ASSUME LimitsAssumption ==
    /\ MaxKinds \in Nat /\ MaxSinks \in Nat /\ MaxCount \in Nat
    /\ Kept \in Nat \ {0}
    /\ SeqMod \in Nat /\ SeqMod > Kept
ASSUME NoneAssumption == None \notin Listeners

Kinds == StateKinds \cup HappeningKinds
Slots == 0 .. MaxSinks - 1

VARIABLES
    kinds,      \* s_kinds: the kinds declared
    count,      \* s_count: happenings so far
    ring,       \* s_ring: slot -> the number kept there, 0 for none, and its kind
    sinks,      \* s_sinks: slot -> callback (None: not used), want, dirty
    pub,        \* each publisher: where it is, and the locals it carries
    id,         \* each listener's slot, -1 while it has none
    cursor,     \* each listener's `after`: the seq its last events_since() returned
    told,       \* each listener: called since it last took
    kindOf,     \* history: the kind of each number
    unkept,     \* history: the numbers there was no memory to keep
    pos,        \* history: each listener's cursor as a count
    got,        \* history: the numbers each listener was handed
    lost        \* history: how many it was told it lost, in all

hubVars == <<kinds, count, ring, sinks, pub>>
listenerVars == <<id, cursor, told>>
history == <<kindOf, unkept, pos, got, lost>>
vars == <<hubVars, listenerVars, history>>

----------------------------------------------------------------------------
(* Sequence numbers and the arithmetic of events_since(). *)

\* seq for the n-th happening: 1..SeqMod, then round again
SeqOf(n) == IF n = 0 THEN 0 ELSE ((n - 1) % SeqMod) + 1

\* The count a seq stands for, told back from the latest one
From(after, latest) ==
    IF after = 0 \/ latest = 0 THEN 0
    ELSE LET back == (SeqOf(latest) - after + SeqMod) % SeqMod
         IN  IF back <= latest THEN latest - back ELSE 0

\* Mutant: as if the ring kept one fewer
OldestOff(latest) == IF latest > Kept THEN latest - Kept + 2 ELSE 1

Oldest(latest) == IF latest > Kept THEN latest - Kept + 1 ELSE 1

\* Mutant: the difference taken whether or not anything was lost
LostAlways(after, latest) == Oldest(latest) - (From(after, latest) + 1)

Lost(after, latest) ==
    IF Oldest(latest) > From(after, latest) + 1 /\ latest >= Oldest(latest)
    THEN Oldest(latest) - (From(after, latest) + 1) ELSE 0

\* Mutant: from the one the listener already has
SinceAgain(after, mask) ==
    {n \in 1 .. count : /\ n >= From(after, count)
                        /\ n >= Oldest(count)
                        /\ ring[n % Kept].n = n
                        /\ ring[n % Kept].kind \in mask}

\* The numbers events_since() hands to its callback
Since(after, mask) ==
    {n \in 1 .. count : /\ n > From(after, count)
                        /\ n >= Oldest(count)
                        /\ ring[n % Kept].n = n
                        /\ ring[n % Kept].kind \in mask}

----------------------------------------------------------------------------
NoFns == [s \in Slots |-> None]
NoSink == [fn |-> None, want |-> {}, dirty |-> {}]
Idle == [pc |-> "idle", kind |-> None, n |-> 0, fns |-> NoFns]

Init ==
    /\ kinds = {}
    /\ count = 0
    /\ ring = [i \in 0 .. Kept - 1 |-> [n |-> 0, kind |-> None]]
    /\ sinks = [s \in Slots |-> NoSink]
    /\ pub = [p \in Publishers |-> Idle]
    /\ id = [l \in Listeners |-> -1]
    /\ cursor = [l \in Listeners |-> 0]
    /\ told = [l \in Listeners |-> FALSE]
    /\ kindOf = <<>> /\ unkept = {}
    /\ pos = [l \in Listeners |-> 0]
    /\ got = [l \in Listeners |-> {}]
    /\ lost = [l \in Listeners |-> 0]

\* events_declare(): a new name takes the next bit, if there is one
Declare(k) ==
    /\ k \notin kinds
    /\ Cardinality(kinds) < MaxKinds
    /\ kinds' = kinds \cup {k}
    /\ UNCHANGED <<count, ring, sinks, pub, listenerVars, history>>

----------------------------------------------------------------------------
(* Publishing.  events_happened() has three critical sections -- number,   *)
(* store, and notify()'s -- and then calls the callbacks it collected;     *)
(* events_changed() has notify()'s only.                                   *)

\* ++s_count, if the kind is declared; the JSON is built after the unlock
Happened(p, k) ==
    /\ pub[p].pc = "idle"
    /\ k \in kinds \cap HappeningKinds
    /\ count < MaxCount
    /\ count' = count + 1
    /\ pub' = [pub EXCEPT ![p] = [pc |-> "store", kind |-> k, n |-> count + 1, fns |-> NoFns]]
    /\ kindOf' = Append(kindOf, k)
    /\ UNCHANGED <<kinds, ring, sinks, listenerVars, unkept, pos, got, lost>>

\* Mutant: a publisher that was overtaken takes the slot all the same
StoreOver(p, made) ==
    LET n == pub[p].n
        i == n % Kept
    IN  /\ pub[p].pc = "store"
        /\ ring' = [ring EXCEPT ![i] = [n |-> IF made THEN n ELSE 0, kind |-> pub[p].kind]]
        /\ unkept' = IF made THEN unkept ELSE unkept \cup {n}
        /\ pub' = [pub EXCEPT ![p].pc = "mark"]
        /\ UNCHANGED <<kinds, count, sinks, listenerVars, kindOf, pos, got, lost>>

\* The slot is taken unless a later one has it; `made` is whether there was memory for the JSON
Store(p, made) ==
    LET n == pub[p].n
        i == n % Kept
    IN  /\ pub[p].pc = "store"
        /\ ring' = IF ring[i].n < n
                   THEN [ring EXCEPT ![i] = [n |-> IF made THEN n ELSE 0, kind |-> pub[p].kind]]
                   ELSE ring
        /\ unkept' = IF made THEN unkept ELSE unkept \cup {n}
        /\ pub' = [pub EXCEPT ![p].pc = "mark"]
        /\ UNCHANGED <<kinds, count, sinks, listenerVars, kindOf, pos, got, lost>>

\* events_changed(): the kind's bit is looked up under a lock of its own
Changed(p, k) ==
    /\ pub[p].pc = "idle"
    /\ k \in kinds \cap StateKinds
    /\ pub' = [pub EXCEPT ![p] = [pc |-> "mark", kind |-> k, n |-> 0, fns |-> NoFns]]
    /\ UNCHANGED <<kinds, count, ring, sinks, listenerVars, history>>

Wants(s, k) == sinks[s].fn # None /\ k \in sinks[s].want

\* notify() under the lock: mark who wants a state kind, and collect their callbacks
Mark(p) ==
    LET k == pub[p].kind
    IN  /\ pub[p].pc = "mark"
        /\ sinks' = [s \in Slots |->
                        IF Wants(s, k) /\ k \in StateKinds
                        THEN [sinks[s] EXCEPT !.dirty = @ \cup {k}] ELSE sinks[s]]
        /\ pub' = [pub EXCEPT ![p].pc = "call",
                              ![p].fns = [s \in Slots |-> IF Wants(s, k) THEN sinks[s].fn ELSE None]]
        /\ UNCHANGED <<kinds, count, ring, listenerVars, history>>

\* The slot whose callback notify() comes to next, the lock no longer held
NextCall(p, s) ==
    /\ pub[p].pc = "call"
    /\ pub[p].fns[s] # None
    /\ \A t \in Slots : t < s => pub[p].fns[t] = None

Call(p, s) ==
    /\ NextCall(p, s)
    /\ told' = [told EXCEPT ![pub[p].fns[s]] = TRUE]
    /\ pub' = [pub EXCEPT ![p].fns[s] = None]
    /\ UNCHANGED <<kinds, count, ring, sinks, id, cursor, history>>

Return(p) ==
    /\ pub[p].pc = "call"
    /\ pub[p].fns = NoFns
    /\ pub' = [pub EXCEPT ![p] = Idle]
    /\ UNCHANGED <<kinds, count, ring, sinks, listenerVars, history>>

----------------------------------------------------------------------------
(* Listening. *)

\* events_listen(): the first free slot.  The listener starts after events_seq(), as a new
\* event stream does.
Listen(l, want, s) ==
    /\ id[l] = -1
    /\ sinks[s].fn = None
    /\ \A t \in Slots : t < s => sinks[t].fn # None
    /\ sinks' = [sinks EXCEPT ![s] = [fn |-> l, want |-> want, dirty |-> {}]]
    /\ id' = [id EXCEPT ![l] = s]
    /\ cursor' = [cursor EXCEPT ![l] = SeqOf(count)]
    /\ told' = [told EXCEPT ![l] = FALSE]
    /\ pos' = [pos EXCEPT ![l] = count]
    /\ UNCHANGED <<kinds, count, ring, pub, kindOf, unkept, got, lost>>

\* Mutant: what was due stays due
WantKeepsDirty(l, want) ==
    /\ id[l] # -1
    /\ sinks' = [sinks EXCEPT ![id[l]].want = want]
    /\ UNCHANGED <<kinds, count, ring, pub, listenerVars, history>>

\* events_want(): a kind no longer wanted is no longer due
Want(l, want) ==
    /\ id[l] # -1
    /\ sinks' = [sinks EXCEPT ![id[l]].want = want, ![id[l]].dirty = @ \cap want]
    /\ UNCHANGED <<kinds, count, ring, pub, listenerVars, history>>

Unlisten(l) ==
    /\ id[l] # -1
    /\ sinks' = [sinks EXCEPT ![id[l]] = NoSink]
    /\ id' = [id EXCEPT ![l] = -1]
    /\ UNCHANGED <<kinds, count, ring, pub, cursor, told, history>>

\* Mutant: the calls are answered and the marks left
TakeLeaves(l) ==
    /\ id[l] # -1
    /\ told' = [told EXCEPT ![l] = FALSE]
    /\ UNCHANGED <<kinds, count, ring, sinks, pub, id, cursor, history>>

\* events_take(): the listener has answered its calls up to here
Take(l) ==
    /\ id[l] # -1
    /\ sinks' = [sinks EXCEPT ![id[l]].dirty = {}]
    /\ told' = [told EXCEPT ![l] = FALSE]
    /\ UNCHANGED <<kinds, count, ring, pub, id, cursor, history>>

Mask(l) == sinks[id[l]].want \ StateKinds

\* events_since() from the listener's cursor, which moves on to the latest seq
Read(l) ==
    /\ id[l] # -1
    /\ cursor' = [cursor EXCEPT ![l] = SeqOf(count)]
    /\ pos' = [pos EXCEPT ![l] = count]
    /\ got' = [got EXCEPT ![l] = @ \cup Since(cursor[l], Mask(l))]
    /\ lost' = [lost EXCEPT ![l] = @ + Lost(cursor[l], count)]
    /\ UNCHANGED <<hubVars, id, told, kindOf, unkept>>

----------------------------------------------------------------------------
Publish(p) ==
    \/ \E k \in Kinds : Happened(p, k) \/ Changed(p, k)
    \/ \E made \in BOOLEAN : Store(p, made)
    \/ Mark(p)
    \/ \E s \in Slots : Call(p, s)
    \/ Return(p)

Listener(l) ==
    \/ \E want \in SUBSET Kinds : Want(l, want) \/ \E s \in Slots : Listen(l, want, s)
    \/ Unlisten(l) \/ Take(l) \/ Read(l)

Next ==
    \/ \E k \in Kinds : Declare(k)
    \/ \E p \in Publishers : Publish(p)
    \/ \E l \in Listeners : Listener(l)

Spec == Init /\ [][Next]_vars

----------------------------------------------------------------------------
(* What is promised. *)

KindOrNone == Kinds \cup {None}
FnOrNone == Listeners \cup {None}

TypeOK ==
    /\ kinds \subseteq Kinds
    /\ count \in Nat
    /\ ring \in [0 .. Kept - 1 -> [n : Nat, kind : KindOrNone]]
    /\ sinks \in [Slots -> [fn : FnOrNone, want : SUBSET Kinds, dirty : SUBSET Kinds]]
    /\ pub \in [Publishers -> [pc : {"idle", "store", "mark", "call"}, kind : KindOrNone,
                               n : Nat, fns : [Slots -> FnOrNone]]]
    /\ id \in [Listeners -> Slots \cup {-1}]
    /\ cursor \in [Listeners -> Nat]
    /\ told \in [Listeners -> BOOLEAN]
    /\ kindOf \in Seq(HappeningKinds) /\ unkept \in SUBSET Nat
    /\ pos \in [Listeners -> Nat]
    /\ got \in [Listeners -> SUBSET Nat]
    /\ lost \in [Listeners -> Nat]

InFlight(n) == \E p \in Publishers : pub[p].pc = "store" /\ pub[p].n = n

\* events.h:12-14: the ring keeps the last EVENTS_KEPT.  A happening of the last Kept is in
\* its slot, under its own kind, whatever order the publishers' second critical sections came
\* in: all that can be missing is one whose publisher has not stored it yet, or could not make it.
RingKeepsLatest ==
    \A n \in 1 .. count :
        n > count - Kept =>
            \/ ring[n % Kept].n = n /\ ring[n % Kept].kind = kindOf[n]
            \/ InFlight(n)
            \/ n \in unkept

\* A listener that has state kinds to take has been called since its last take, or is about to
\* be: no interleaving of notify()'s two halves with events_take() leaves a change unannounced.
DirtyIsAnnounced ==
    \A l \in Listeners :
        id[l] # -1 /\ sinks[id[l]].dirty # {} =>
            told[l] \/ \E p \in Publishers : pub[p].fns[id[l]] = l

\* events_want() narrows what is due with what is wanted: a listener is never handed a state
\* kind it does not want now, however its wants changed since the mark.
DueIsWanted ==
    \A s \in Slots : sinks[s].dirty \subseteq sinks[s].want \cap StateKinds

\* A read hands over nothing the listener already had: each happening reaches it at most once,
\* the seq going round included.
AtMostOnce ==
    [][\A l \in Listeners :
        got'[l] # got[l] => \A n \in got'[l] \ got[l] : n > pos[l]]_vars

\* What a read says is lost is what left the ring since the listener's last read, as long as the
\* listener is less than a round of seqs behind.
LostIsCounted ==
    [][\A l \in Listeners :
        cursor'[l] # cursor[l] /\ id[l] # -1 /\ id'[l] # -1 /\ count - pos[l] < SeqMod =>
            lost'[l] - lost[l]
                = Cardinality({n \in pos[l] + 1 .. count : n <= count - Kept})]_vars

\* events.h:14: "so a listener that missed some can catch up".  Whatever is still in the ring's
\* reach when a listener's cursor passes it, and wanted, has been handed over.
CatchesUp ==
    [][\A l \in Listeners : id[l] # -1 /\ id'[l] = id[l] =>
        \A n \in pos[l] + 1 .. pos'[l] :
            n > count - Kept /\ n \notin unkept /\ kindOf[n] \in Mask(l)
                => n \in got'[l]]_vars
=============================================================================
