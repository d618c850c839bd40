---------------------------- MODULE EventsProofs ----------------------------
(***************************************************************************)
(* What the event hub promises, for any number of publishers, listeners,   *)
(* slots and kinds and any ring length.                                    *)
(*                                                                         *)
(* RingKeepsLatest and DirtyIsAnnounced are not inductive.  The first needs *)
(* to know where a stored number sits (RingInv) and what a publisher       *)
(* between its two critical sections carries (PubInv); the second that a   *)
(* slot and its listener know each other (SlotInv) and that a publisher    *)
(* not calling has nobody left to call (FnsInv).                           *)
(***************************************************************************)
EXTENDS Events, FiniteSetTheorems, TLAPS

RingInv ==
    \A i \in 0 .. Kept - 1 :
        ring[i].n # 0 =>
            /\ ring[i].n <= count
            /\ ring[i].n % Kept = i
            /\ ring[i].kind = kindOf[ring[i].n]

PubInv ==
    \A p \in Publishers :
        pub[p].pc = "store" =>
            /\ pub[p].n \in 1 .. count
            /\ pub[p].kind = kindOf[pub[p].n]

KindsNumbered == Len(kindOf) = count

SlotInv ==
    /\ \A l \in Listeners : id[l] # -1 => sinks[id[l]].fn = l
    /\ \A s \in Slots : sinks[s].fn # None => id[sinks[s].fn] = s

FnsInv == \A p \in Publishers : pub[p].pc # "call" => pub[p].fns = NoFns

----------------------------------------------------------------------------
(* Arithmetic of the ring and of the seqs. *)

\* Division with remainder, for the modulus of a constant.
LEMMA DivMod ==
    ASSUME NEW M \in Nat \ {0}, NEW a \in Int
    PROVE  /\ a % M \in 0 .. M - 1
           /\ a = M * (a \div M) + (a % M)
           /\ a \div M \in Int
  BY SMT

\* Two numbers that share a slot are a whole ring apart.
LEMMA SlotGap ==
    ASSUME NEW K \in Nat \ {0}, NEW m \in Nat, NEW n \in Nat, m < n, m % K = n % K
    PROVE  n >= m + K
<1> DEFINE q == m \div K
           r == n \div K
<1>1. m = K * q + (m % K) /\ n = K * r + (n % K) /\ q \in Int /\ r \in Int
  BY DivMod
<1>2. m % K \in Int
  BY DivMod
<1> HIDE DEF q, r
<1>3. K * r > K * q
  BY <1>1, <1>2
<1>4. r >= q + 1
  BY <1>1, <1>3
<1>5. K * r >= K * (q + 1) /\ K * (q + 1) = K * q + K
  BY <1>1, <1>4
<1> QED
  BY <1>1, <1>2, <1>5

\* Going back from b to a by their remainders never goes back further than a itself.
LEMMA BackFits ==
    ASSUME NEW M \in Nat \ {0}, NEW a \in Nat, NEW b \in Nat, a <= b
    PROVE  /\ ((b % M) - (a % M) + M) % M \in 0 .. b - a
           /\ b - a < M => ((b % M) - (a % M) + M) % M = b - a
<1> DEFINE q == a \div M
           r == b \div M
           x == a % M
           y == b % M
<1>1. a = M * q + x /\ b = M * r + y /\ q \in Int /\ r \in Int
  BY DivMod
<1>2. x \in 0 .. M - 1 /\ y \in 0 .. M - 1
  BY DivMod
<1> HIDE DEF q, r, x, y
<1>3. CASE y >= x
  <2>1. (y - x + M) % M = y - x
    BY <1>2, <1>3
  <2>2. r >= q
    <3>1. SUFFICES ASSUME r + 1 <= q PROVE FALSE
      BY <1>1
    <3>2. M * (r + 1) <= M * q /\ M * (r + 1) = M * r + M
      BY <1>1, <3>1
    <3> QED
      BY <1>1, <1>2, <3>2
  <2>3. M * r >= M * q
    BY <1>1, <2>2
  <2>4. ASSUME b - a < M PROVE r = q
    <3>1. SUFFICES ASSUME r >= q + 1 PROVE FALSE
      BY <1>1, <2>2
    <3>2. M * r >= M * (q + 1) /\ M * (q + 1) = M * q + M
      BY <1>1, <3>1
    <3> QED
      BY <1>1, <1>2, <1>3, <2>4, <3>2
  <2> QED
    BY <1>1, <1>2, <1>3, <2>1, <2>3, <2>4 DEF x, y
<1>4. CASE y < x
  <2>1. (y - x + M) % M = y - x + M
    BY <1>2, <1>4
  <2>2. r >= q + 1
    <3>1. SUFFICES ASSUME r <= q PROVE FALSE
      BY <1>1
    <3>2. M * r <= M * q
      BY <1>1, <3>1
    <3> QED
      BY <1>1, <1>2, <1>4, <3>2
  <2>3. M * r >= M * (q + 1) /\ M * (q + 1) = M * q + M
    BY <1>1, <2>2
  <2>4. ASSUME b - a < M PROVE r = q + 1
    <3>1. SUFFICES ASSUME r >= q + 2 PROVE FALSE
      BY <1>1, <2>2
    <3>2. M * r >= M * (q + 2) /\ M * (q + 2) = M * q + M + M
      BY <1>1, <3>1
    <3> QED
      BY <1>1, <1>2, <1>4, <2>4, <3>2
  <2> QED
    BY <1>1, <1>2, <1>4, <2>1, <2>3, <2>4 DEF x, y
<1> QED
  BY <1>2, <1>3, <1>4

----------------------------------------------------------------------------
(* Type correctness. *)

LEMMA SinceType ==
    ASSUME TypeOK, NEW after \in Nat, NEW mask
    PROVE  Since(after, mask) \in SUBSET Nat
  BY DEF TypeOK, Since

LEMMA SeqType ==
    ASSUME NEW n \in Nat
    PROVE  SeqOf(n) \in Nat
<1>1. n # 0 => (n - 1) % SeqMod \in Nat
  BY LimitsAssumption, DivMod
<1> QED
  BY <1>1 DEF SeqOf

LEMMA LostType ==
    ASSUME NEW after \in Nat, NEW latest \in Nat
    PROVE  Lost(after, latest) \in Nat
<1> DEFINE behind == SeqOf(latest) - after + SeqMod
           back == behind % SeqMod
<1>1. behind \in Int
  BY SeqType, LimitsAssumption
<1> HIDE DEF behind
<1>2. back \in Nat
  BY <1>1, LimitsAssumption, DivMod
<1>3. From(after, latest)
        = IF after = 0 \/ latest = 0 THEN 0 ELSE IF back <= latest THEN latest - back ELSE 0
  BY DEF From, behind
<1> HIDE DEF back
<1>4. From(after, latest) \in Nat
  BY <1>2, <1>3
<1> QED
  BY <1>4, LimitsAssumption DEF Lost, Oldest

LEMMA TypeInit == Init => TypeOK
  BY LimitsAssumption DEF Init, TypeOK, NoSink, Idle, NoFns, KindOrNone, FnOrNone

PubType ==
    [pc : {"idle", "store", "mark", "call"}, kind : KindOrNone, n : Nat,
     fns : [Slots -> FnOrNone]]
SinkType == [fn : FnOrNone, want : SUBSET Kinds, dirty : SUBSET Kinds]
CellType == [n : Nat, kind : KindOrNone]

LEMMA NoFnsType == NoFns \in [Slots -> FnOrNone]
  BY DEF NoFns, FnOrNone

LEMMA IdleType == Idle \in PubType
  BY NoFnsType DEF Idle, PubType, KindOrNone

LEMMA NoSinkType == NoSink \in SinkType
  BY DEF NoSink, SinkType, FnOrNone

LEMMA TypeStep ==
    ASSUME TypeOK, [Next]_vars
    PROVE  TypeOK'
<1>0. /\ ring \in [0 .. Kept - 1 -> CellType]
      /\ sinks \in [Slots -> SinkType]
      /\ pub \in [Publishers -> PubType]
  BY DEF TypeOK, CellType, SinkType, PubType
<1>1. ASSUME NEW k \in Kinds, Declare(k) PROVE TypeOK'
  BY <1>1 DEF Declare, TypeOK, listenerVars, history
<1>2. ASSUME NEW p \in Publishers, NEW k \in Kinds, Happened(p, k) PROVE TypeOK'
  <2> DEFINE new == [pc |-> "store", kind |-> k, n |-> count + 1, fns |-> NoFns]
  <2>1. new \in PubType
    BY NoFnsType DEF PubType, KindOrNone, TypeOK
  <2> HIDE DEF new
  <2>2. pub' \in [Publishers -> PubType]
    BY <1>0, <1>2, <2>1 DEF Happened, new
  <2>3. count' \in Nat
    BY <1>2 DEF Happened, TypeOK
  <2>4. kindOf' \in Seq(HappeningKinds)
    BY <1>2 DEF Happened, TypeOK
  <2> QED
    BY <1>2, <2>2, <2>3, <2>4 DEF Happened, TypeOK, PubType, listenerVars
<1>3. ASSUME NEW p \in Publishers, NEW k \in Kinds, Changed(p, k) PROVE TypeOK'
  <2> DEFINE new == [pc |-> "mark", kind |-> k, n |-> 0, fns |-> NoFns]
  <2>1. new \in PubType
    BY NoFnsType DEF PubType, KindOrNone
  <2> HIDE DEF new
  <2>2. pub' \in [Publishers -> PubType]
    BY <1>0, <1>3, <2>1 DEF Changed, new
  <2> QED
    BY <1>3, <2>2 DEF Changed, TypeOK, PubType, listenerVars, history
<1>4. ASSUME NEW p \in Publishers, NEW made \in BOOLEAN, Store(p, made) PROVE TypeOK'
  <2> DEFINE cell == [n |-> IF made THEN pub[p].n ELSE 0, kind |-> pub[p].kind]
  <2>1. pub[p] \in PubType
    BY <1>0
  <2>2. cell \in CellType
    BY <2>1 DEF PubType, CellType
  <2> HIDE DEF cell
  <2>3. ring' \in [0 .. Kept - 1 -> CellType]
    BY <1>0, <1>4, <2>2 DEF Store, cell
  <2>4. [pub[p] EXCEPT !.pc = "mark"] \in PubType
    BY <2>1 DEF PubType
  <2>5. pub' \in [Publishers -> PubType]
    BY <1>0, <1>4, <2>4 DEF Store
  <2>6. unkept' \in SUBSET Nat
    BY <1>4, <2>1 DEF Store, TypeOK, PubType
  <2> QED
    BY <1>4, <2>3, <2>5, <2>6 DEF Store, TypeOK, CellType, PubType, listenerVars
<1>5. ASSUME NEW p \in Publishers, Mark(p) PROVE TypeOK'
  <2> DEFINE k == pub[p].kind
             called == [s \in Slots |-> IF Wants(s, k) THEN sinks[s].fn ELSE None]
  <2>1. pub[p] \in PubType
    BY <1>0
  <2>2. ASSUME NEW s \in Slots
        PROVE  /\ sinks[s] \in SinkType
               /\ k \in StateKinds => [sinks[s] EXCEPT !.dirty = @ \cup {k}] \in SinkType
    BY <1>0 DEF SinkType, Kinds
  <2>3. sinks' \in [Slots -> SinkType]
    BY <1>5, <2>2 DEF Mark
  <2>4. called \in [Slots -> FnOrNone]
    BY <2>2 DEF SinkType, FnOrNone
  <2> HIDE DEF called
  <2>5. [pub[p] EXCEPT !.pc = "call", !.fns = called] \in PubType
    BY <2>1, <2>4 DEF PubType
  <2>6. pub' = [pub EXCEPT ![p] = [pub[p] EXCEPT !.pc = "call", !.fns = called]]
    BY <1>5 DEF Mark, called
  <2>7. pub' \in [Publishers -> PubType]
    BY <1>0, <2>5, <2>6
  <2> QED
    BY <1>5, <2>3, <2>7 DEF Mark, TypeOK, SinkType, PubType, listenerVars, history
<1>6. ASSUME NEW p \in Publishers, NEW s \in Slots, Call(p, s) PROVE TypeOK'
  <2> DEFINE fns == [pub[p].fns EXCEPT ![s] = None]
  <2>1. pub[p] \in PubType
    BY <1>0
  <2>2. fns \in [Slots -> FnOrNone]
    BY <2>1 DEF PubType, FnOrNone
  <2>3. pub' = [pub EXCEPT ![p] = [pub[p] EXCEPT !.fns = fns]]
    BY <1>6 DEF Call
  <2> HIDE DEF fns
  <2>4. [pub[p] EXCEPT !.fns = fns] \in PubType
    BY <2>1, <2>2 DEF PubType
  <2>5. pub' \in [Publishers -> PubType]
    BY <1>0, <2>3, <2>4
  <2>6. told' \in [Listeners -> BOOLEAN]
    BY <1>6 DEF Call, TypeOK
  <2> QED
    BY <1>6, <2>5, <2>6 DEF Call, TypeOK, PubType, history
<1>7. ASSUME NEW p \in Publishers, Return(p) PROVE TypeOK'
  <2>1. pub' \in [Publishers -> PubType]
    BY <1>0, <1>7, IdleType DEF Return
  <2> QED
    BY <1>7, <2>1 DEF Return, TypeOK, PubType, listenerVars, history
<1>8. ASSUME NEW l \in Listeners, NEW want \in SUBSET Kinds, NEW s \in Slots, Listen(l, want, s)
      PROVE  TypeOK'
  <2>1. [fn |-> l, want |-> want, dirty |-> {}] \in SinkType
    BY DEF SinkType, FnOrNone
  <2>2. sinks' \in [Slots -> SinkType]
    BY <1>0, <1>8, <2>1 DEF Listen
  <2>3. SeqOf(count) \in Nat
    BY SeqType DEF TypeOK
  <2>4. /\ id' \in [Listeners -> Slots \cup {-1}]
        /\ cursor' \in [Listeners -> Nat]
        /\ told' \in [Listeners -> BOOLEAN]
        /\ pos' \in [Listeners -> Nat]
    BY <1>8, <2>3 DEF Listen, TypeOK
  <2> QED
    BY <1>8, <2>2, <2>4 DEF Listen, TypeOK, SinkType
<1>9. ASSUME NEW l \in Listeners, NEW want \in SUBSET Kinds, Want(l, want) PROVE TypeOK'
  <2> DEFINE i == id[l]
             sink == [sinks[i] EXCEPT !.want = want, !.dirty = @ \cap want]
  <2>1. i \in Slots
    BY <1>9 DEF Want, TypeOK
  <2>2. sinks' = [sinks EXCEPT ![i] = sink]
    BY <1>9 DEF Want
  <2>3. sink \in SinkType
    BY <1>0, <2>1 DEF SinkType
  <2> HIDE DEF i, sink
  <2>4. sinks' \in [Slots -> SinkType]
    BY <1>0, <2>1, <2>2, <2>3
  <2> QED
    BY <1>9, <2>4 DEF Want, TypeOK, SinkType, listenerVars, history
<1>10. ASSUME NEW l \in Listeners, Unlisten(l) PROVE TypeOK'
  <2>1. sinks' \in [Slots -> SinkType]
    BY <1>0, <1>10, NoSinkType DEF Unlisten
  <2>2. id' \in [Listeners -> Slots \cup {-1}]
    BY <1>10 DEF Unlisten, TypeOK
  <2> QED
    BY <1>10, <2>1, <2>2 DEF Unlisten, TypeOK, SinkType, history
<1>11. ASSUME NEW l \in Listeners, Take(l) PROVE TypeOK'
  <2> DEFINE i == id[l]
             sink == [sinks[i] EXCEPT !.dirty = {}]
  <2>1. i \in Slots
    BY <1>11 DEF Take, TypeOK
  <2>2. sinks' = [sinks EXCEPT ![i] = sink]
    BY <1>11 DEF Take
  <2>3. sink \in SinkType
    BY <1>0, <2>1 DEF SinkType
  <2> HIDE DEF i, sink
  <2>4. sinks' \in [Slots -> SinkType]
    BY <1>0, <2>1, <2>2, <2>3
  <2>5. told' \in [Listeners -> BOOLEAN]
    BY <1>11 DEF Take, TypeOK
  <2> QED
    BY <1>11, <2>4, <2>5 DEF Take, TypeOK, SinkType, history
<1>12. ASSUME NEW l \in Listeners, Read(l) PROVE TypeOK'
  <2>1. /\ Since(cursor[l], Mask(l)) \in SUBSET Nat
        /\ Lost(cursor[l], count) \in Nat
        /\ SeqOf(count) \in Nat
    BY SinceType, LostType, SeqType DEF TypeOK
  <2>2. /\ cursor' \in [Listeners -> Nat]
        /\ pos' \in [Listeners -> Nat]
        /\ got' \in [Listeners -> SUBSET Nat]
        /\ lost' \in [Listeners -> Nat]
    BY <1>12, <2>1 DEF Read, TypeOK
  <2> QED
    BY <1>12, <2>2 DEF Read, TypeOK, hubVars
<1>13. CASE UNCHANGED vars
  BY <1>13 DEF vars, hubVars, listenerVars, history, TypeOK
<1> QED
  BY <1>1, <1>2, <1>3, <1>4, <1>5, <1>6, <1>7, <1>8, <1>9, <1>10, <1>11, <1>12, <1>13
  DEF Next, Publish, Listener

\* Every variable keeps its type, for every value of the constants.
THEOREM Typed == Spec => []TypeOK
  BY TypeInit, TypeStep, PTL DEF Spec

----------------------------------------------------------------------------
(* The ring. *)

RingIInv == TypeOK /\ KindsNumbered /\ RingInv /\ PubInv /\ RingKeepsLatest

LEMMA RingInit == Init => RingIInv
<1> SUFFICES ASSUME Init PROVE RingIInv
  OBVIOUS
<1>1. TypeOK
  BY TypeInit
<1> QED
  BY <1>1 DEF Init, RingIInv, KindsNumbered, RingInv, PubInv, RingKeepsLatest, Idle

\* A step that leaves the count, the ring, the kinds of the numbers and who is in flight alone.
LEMMA RingUntouched ==
    ASSUME RingIInv, TypeOK', count' = count, ring' = ring,
           kindOf' = kindOf, unkept' = unkept,
           \A p \in Publishers : pub[p].pc = "store" \/ pub'[p].pc = "store" => pub'[p] = pub[p]
    PROVE  RingIInv'
<1> USE DEF RingIInv
<1>1. KindsNumbered' /\ RingInv'
  BY DEF KindsNumbered, RingInv
<1>2. PubInv'
  BY DEF PubInv
<1>3. RingKeepsLatest'
  BY DEF RingKeepsLatest, InFlight
<1> QED
  BY <1>1, <1>2, <1>3

LEMMA RingHappened ==
    ASSUME RingIInv, TypeOK', NEW p \in Publishers, NEW k \in Kinds, Happened(p, k)
    PROVE  RingIInv'
<1> USE DEF RingIInv
<1>1. /\ count' = count + 1 /\ ring' = ring /\ count \in Nat
      /\ pub' = [pub EXCEPT ![p] = [pc |-> "store", kind |-> k, n |-> count + 1, fns |-> NoFns]]
      /\ pub[p].pc = "idle"
      /\ kindOf' = Append(kindOf, k) /\ unkept' = unkept
  BY DEF Happened, TypeOK
<1>2. kindOf \in Seq(HappeningKinds) /\ Len(kindOf) = count
  BY DEF TypeOK, KindsNumbered
<1>3. k \in HappeningKinds
  BY DEF Happened
<1>4. /\ Len(kindOf') = count + 1
      /\ \A n \in 1 .. count : kindOf'[n] = kindOf[n]
      /\ kindOf'[count + 1] = k
  BY <1>1, <1>2, <1>3
<1>5. KindsNumbered'
  BY <1>1, <1>4 DEF KindsNumbered
<1>6. RingInv'
  <2> SUFFICES ASSUME NEW j \in 0 .. Kept - 1, ring[j].n # 0
               PROVE  /\ ring[j].n <= count + 1
                      /\ ring[j].n % Kept = j
                      /\ ring[j].kind = kindOf'[ring[j].n]
    BY <1>1 DEF RingInv
  <2>1. /\ ring[j].n <= count /\ ring[j].n % Kept = j
        /\ ring[j].kind = kindOf[ring[j].n]
    BY DEF RingInv
  <2>2. ring[j].n \in Nat
    BY DEF TypeOK
  <2> QED
    BY <1>1, <1>4, <2>1, <2>2
<1>7. PubInv'
  <2> SUFFICES ASSUME NEW q \in Publishers, pub'[q].pc = "store"
               PROVE  pub'[q].n \in 1 .. count' /\ pub'[q].kind = kindOf'[pub'[q].n]
    BY DEF PubInv
  <2>1. CASE q = p
    BY <1>1, <1>4, <2>1 DEF TypeOK
  <2>2. CASE q # p
    <3>1. pub'[q] = pub[q]
      BY <1>1, <2>2 DEF TypeOK
    <3>2. pub[q].n \in 1 .. count /\ pub[q].kind = kindOf[pub[q].n]
      BY <3>1 DEF PubInv
    <3> QED
      BY <1>1, <1>4, <3>1, <3>2
  <2> QED
    BY <2>1, <2>2
<1>8. RingKeepsLatest'
  <2> SUFFICES ASSUME NEW n \in 1 .. count', n > count' - Kept
               PROVE  \/ ring'[n % Kept].n = n /\ ring'[n % Kept].kind = kindOf'[n]
                      \/ InFlight(n)'
                      \/ n \in unkept'
    BY DEF RingKeepsLatest
  <2>1. CASE n = count + 1
    <3>1. pub'[p].pc = "store" /\ pub'[p].n = n
      BY <1>1, <2>1 DEF TypeOK
    <3> QED
      BY <3>1 DEF InFlight
  <2>2. CASE n \in 1 .. count
    <3>1. n > count - Kept
      BY <1>1, <2>2, LimitsAssumption
    <3>2. \/ ring[n % Kept].n = n /\ ring[n % Kept].kind = kindOf[n]
          \/ InFlight(n)
          \/ n \in unkept
      BY <2>2, <3>1 DEF RingKeepsLatest
    <3>3. ASSUME InFlight(n) PROVE InFlight(n)'
      <4>1. PICK q \in Publishers : pub[q].pc = "store" /\ pub[q].n = n
        BY <3>3 DEF InFlight
      <4>2. pub'[q] = pub[q]
        BY <1>1, <4>1 DEF TypeOK
      <4> QED
        BY <4>1, <4>2 DEF InFlight
    <3> QED
      BY <1>1, <1>4, <2>2, <3>2, <3>3
  <2>3. n = count + 1 \/ n \in 1 .. count
    BY <1>1
  <2> QED
    BY <2>1, <2>2, <2>3
<1> QED
  BY <1>5, <1>6, <1>7, <1>8

LEMMA RingStore ==
    ASSUME RingIInv, TypeOK', NEW p \in Publishers, NEW made \in BOOLEAN, Store(p, made)
    PROVE  RingIInv'
<1> USE DEF RingIInv
<1> DEFINE n == pub[p].n
           i == n % Kept
           kept == [n |-> IF made THEN n ELSE 0, kind |-> pub[p].kind]
<1>1. pub[p].pc = "store" /\ count' = count /\ count \in Nat
  BY DEF Store, TypeOK
<1>2. n \in 1 .. count /\ pub[p].kind = kindOf[n] /\ n \in Nat
  BY <1>1 DEF PubInv
<1>3. i \in 0 .. Kept - 1
  <2> HIDE DEF n
  <2> QED
    BY <1>2, DivMod, LimitsAssumption
<1>4. ring' = IF ring[i].n < n THEN [ring EXCEPT ![i] = kept] ELSE ring
  BY DEF Store
<1>5. /\ kindOf' = kindOf
      /\ unkept' = IF made THEN unkept ELSE unkept \cup {n}
  BY DEF Store, TypeOK
<1>6. /\ pub'[p].pc = "mark"
      /\ \A q \in Publishers : q # p => pub'[q] = pub[q]
  BY DEF Store, TypeOK
<1>7. KindsNumbered'
  BY <1>1, <1>5 DEF KindsNumbered
<1>8. RingInv'
  <2> SUFFICES ASSUME NEW j \in 0 .. Kept - 1, ring'[j].n # 0
               PROVE  /\ ring'[j].n <= count'
                      /\ ring'[j].n % Kept = j
                      /\ ring'[j].kind = kindOf'[ring'[j].n]
    BY DEF RingInv
  <2>1. CASE ring[i].n < n /\ j = i
    <3>1. ring'[j] = kept
      BY <1>3, <1>4, <2>1 DEF TypeOK
    <3>2. made /\ ring'[j].n = n /\ ring'[j].kind = pub[p].kind
      BY <3>1
    <3> QED
      BY <1>1, <1>2, <1>5, <2>1, <3>2
  <2>2. CASE ~(ring[i].n < n /\ j = i)
    <3>1. ring'[j] = ring[j]
      BY <1>3, <1>4, <2>2 DEF TypeOK
    <3> QED
      BY <1>1, <1>5, <3>1 DEF RingInv
  <2> QED
    BY <2>1, <2>2
<1>9. PubInv'
  BY <1>1, <1>5, <1>6 DEF PubInv
<1>10. RingKeepsLatest'
  <2> SUFFICES ASSUME NEW m \in 1 .. count, m > count - Kept
               PROVE  \/ ring'[m % Kept].n = m /\ ring'[m % Kept].kind = kindOf[m]
                      \/ InFlight(m)'
                      \/ m \in unkept'
    BY <1>1, <1>5 DEF RingKeepsLatest
  <2>1. \/ ring[m % Kept].n = m /\ ring[m % Kept].kind = kindOf[m]
        \/ InFlight(m)
        \/ m \in unkept
    BY DEF RingKeepsLatest
  <2>2. m % Kept \in 0 .. Kept - 1
    BY DivMod, LimitsAssumption
  <2>3. CASE m \in unkept
    BY <1>5, <2>3
  <2>4. CASE ring[m % Kept].n = m /\ ring[m % Kept].kind = kindOf[m]
    <3>1. CASE ring[i].n < n /\ i = m % Kept
      <4>1. m \in Nat /\ n \in Nat /\ m < n /\ m % Kept = n % Kept
        BY <1>2, <2>4, <3>1
      <4> HIDE DEF n
      <4>2. n >= m + Kept
        BY <4>1, SlotGap, LimitsAssumption
      <4> QED
        BY <1>1, <1>2, <4>2, LimitsAssumption
    <3>2. CASE ~(ring[i].n < n /\ i = m % Kept)
      <4>1. ring'[m % Kept] = ring[m % Kept]
        BY <1>3, <1>4, <2>2, <3>2 DEF TypeOK
      <4> QED
        BY <2>4, <4>1
    <3> QED
      BY <3>1, <3>2
  <2>5. CASE InFlight(m)
    <3>1. PICK q \in Publishers : pub[q].pc = "store" /\ pub[q].n = m
      BY <2>5 DEF InFlight
    <3>2. CASE q # p
      BY <1>6, <3>1, <3>2 DEF InFlight
    <3>3. CASE q = p /\ ~made
      BY <1>5, <3>1, <3>3
    <3>4. CASE q = p /\ made /\ ring[i].n < n
      <4>1. ring'[i] = kept
        BY <1>3, <1>4, <3>4 DEF TypeOK
      <4> QED
        BY <1>2, <3>1, <3>4, <4>1
    <3>5. CASE q = p /\ made /\ ~(ring[i].n < n)
      <4>1. ring' = ring /\ m = n
        BY <1>4, <3>1, <3>5
      <4>2. ring[i].n \in Nat
        BY <1>3 DEF TypeOK
      <4>3. ring[i].n # 0
        BY <1>2, <3>5, <4>2
      <4>4. /\ ring[i].n <= count /\ ring[i].n % Kept = i
            /\ ring[i].kind = kindOf[ring[i].n]
        BY <1>3, <4>3 DEF RingInv
      <4>5. ASSUME n < ring[i].n PROVE FALSE
        <5>1. ring[i].n >= n + Kept
          BY <1>2, <4>2, <4>4, <4>5, SlotGap, LimitsAssumption
        <5> QED
          BY <1>1, <1>2, <4>1, <4>2, <4>4, <5>1, LimitsAssumption
      <4>6. ring[i].n = n
        BY <1>2, <3>5, <4>2, <4>5
      <4> QED
        BY <4>1, <4>4, <4>6
    <3> QED
      BY <3>2, <3>3, <3>4, <3>5
  <2> QED
    BY <2>1, <2>3, <2>4, <2>5
<1> QED
  BY <1>7, <1>8, <1>9, <1>10

LEMMA RingStep ==
    ASSUME RingIInv, [Next]_vars
    PROVE  RingIInv'
<1> USE DEF RingIInv
<1>0. TypeOK'
  BY TypeStep
<1>1. ASSUME NEW k \in Kinds, Declare(k) PROVE RingIInv'
  BY <1>0, <1>1, RingUntouched DEF Declare, history
<1>2. ASSUME NEW p \in Publishers, NEW k \in Kinds, Happened(p, k) PROVE RingIInv'
  BY <1>0, <1>2, RingHappened
<1>3. ASSUME NEW p \in Publishers, NEW k \in Kinds, Changed(p, k) PROVE RingIInv'
  BY <1>0, <1>3, RingUntouched DEF Changed, TypeOK, history
<1>4. ASSUME NEW p \in Publishers, NEW made \in BOOLEAN, Store(p, made) PROVE RingIInv'
  BY <1>0, <1>4, RingStore
<1>5. ASSUME NEW p \in Publishers, Mark(p) PROVE RingIInv'
  <2>1. /\ pub[p].pc = "mark" /\ pub'[p].pc = "call"
        /\ \A q \in Publishers : q # p => pub'[q] = pub[q]
    BY <1>5 DEF Mark, TypeOK
  <2>2. count' = count /\ ring' = ring /\ kindOf' = kindOf /\ unkept' = unkept
    BY <1>5 DEF Mark, history
  <2> QED
    BY <1>0, <2>1, <2>2, RingUntouched
<1>6. ASSUME NEW p \in Publishers, NEW s \in Slots, Call(p, s) PROVE RingIInv'
  BY <1>0, <1>6, RingUntouched DEF Call, NextCall, TypeOK, history
<1>7. ASSUME NEW p \in Publishers, Return(p) PROVE RingIInv'
  BY <1>0, <1>7, RingUntouched DEF Return, Idle, TypeOK, history
<1>8. ASSUME NEW l \in Listeners, NEW want \in SUBSET Kinds, NEW s \in Slots, Listen(l, want, s)
      PROVE  RingIInv'
  BY <1>0, <1>8, RingUntouched DEF Listen, TypeOK
<1>9. ASSUME NEW l \in Listeners, NEW want \in SUBSET Kinds, Want(l, want) PROVE RingIInv'
  BY <1>0, <1>9, RingUntouched DEF Want, history
<1>10. ASSUME NEW l \in Listeners, Unlisten(l) \/ Take(l) PROVE RingIInv'
  BY <1>0, <1>10, RingUntouched DEF Unlisten, Take, history
<1>11. ASSUME NEW l \in Listeners, Read(l) PROVE RingIInv'
  BY <1>0, <1>11, RingUntouched DEF Read, hubVars, TypeOK
<1>12. CASE UNCHANGED vars
  BY <1>0, <1>12, RingUntouched DEF vars, hubVars, history
<1> QED
  BY <1>1, <1>2, <1>3, <1>4, <1>5, <1>6, <1>7, <1>8, <1>9, <1>10, <1>11, <1>12
  DEF Next, Publish, Listener

\* The ring keeps the last Kept happenings but for those not stored yet, whatever the order in
\* which any number of publishers store them: events.c:245-255.
THEOREM RingKeeps == Spec => []RingKeepsLatest
<1>1. RingIInv => RingKeepsLatest
  BY DEF RingIInv
<1> QED
  BY <1>1, RingInit, RingStep, PTL DEF Spec

----------------------------------------------------------------------------
(* Listeners and their slots. *)

NotifyIInv == TypeOK /\ SlotInv /\ FnsInv /\ DirtyIsAnnounced /\ DueIsWanted

LEMMA NotifyInit == Init => NotifyIInv
<1> SUFFICES ASSUME Init PROVE NotifyIInv
  OBVIOUS
<1>1. TypeOK
  BY TypeInit
<1> QED
  BY <1>1 DEF Init, NotifyIInv, SlotInv, FnsInv, DirtyIsAnnounced, DueIsWanted, NoSink, Idle

\* A step that leaves the sinks, the slots and who has been called alone, and whom a publisher
\* has still to call.
LEMMA NotifyUntouched ==
    ASSUME NotifyIInv, TypeOK', sinks' = sinks, id' = id, told' = told,
           \A p \in Publishers :
              /\ pub'[p].fns = pub[p].fns
              /\ pub'[p].pc # "call" => pub[p].pc # "call" \/ pub[p].fns = NoFns
    PROVE  NotifyIInv'
<1> USE DEF NotifyIInv
<1>1. SlotInv' /\ DueIsWanted'
  BY DEF SlotInv, DueIsWanted
<1>2. FnsInv'
  BY DEF FnsInv
<1>3. DirtyIsAnnounced'
  BY DEF DirtyIsAnnounced
<1> QED
  BY <1>1, <1>2, <1>3

LEMMA NotifyMark ==
    ASSUME NotifyIInv, TypeOK', NEW p \in Publishers, Mark(p)
    PROVE  NotifyIInv'
<1> USE DEF NotifyIInv
<1> DEFINE k == pub[p].kind
           called == [s \in Slots |-> IF Wants(s, k) THEN sinks[s].fn ELSE None]
<1>1. pub[p].pc = "mark" /\ pub[p].fns = NoFns /\ id' = id /\ told' = told
  BY DEF Mark, FnsInv, listenerVars
<1>2. /\ pub'[p].pc = "call" /\ pub'[p].fns = called
      /\ \A q \in Publishers : q # p => pub'[q] = pub[q]
  BY DEF Mark, TypeOK
<1> HIDE DEF called
<1>3. ASSUME NEW s \in Slots
      PROVE  /\ sinks'[s].fn = sinks[s].fn /\ sinks'[s].want = sinks[s].want
             /\ \/ sinks'[s].dirty = sinks[s].dirty
                \/ /\ Wants(s, k) /\ k \in StateKinds
                   /\ sinks'[s].dirty = sinks[s].dirty \cup {k}
  <2>1. sinks'[s] = IF Wants(s, k) /\ k \in StateKinds
                    THEN [sinks[s] EXCEPT !.dirty = @ \cup {k}] ELSE sinks[s]
    BY DEF Mark
  <2>2. sinks[s] \in [fn : FnOrNone, want : SUBSET Kinds, dirty : SUBSET Kinds]
    BY DEF TypeOK
  <2> HIDE DEF k
  <2> QED
    BY <2>1, <2>2
<1>4. SlotInv'
  BY <1>1, <1>3 DEF SlotInv, TypeOK
<1>5. FnsInv'
  BY <1>2 DEF FnsInv
<1>6. DueIsWanted'
  <2> SUFFICES ASSUME NEW s \in Slots
               PROVE  sinks'[s].dirty \subseteq sinks'[s].want \cap StateKinds
    BY DEF DueIsWanted
  <2>1. sinks[s].dirty \subseteq sinks[s].want \cap StateKinds
    BY DEF DueIsWanted
  <2> HIDE DEF k
  <2> QED
    BY <1>3, <2>1 DEF Wants
<1>7. DirtyIsAnnounced'
  <2> SUFFICES ASSUME NEW l \in Listeners, id[l] # -1, sinks'[id[l]].dirty # {}
               PROVE  told[l] \/ \E q \in Publishers : pub'[q].fns[id[l]] = l
    BY <1>1 DEF DirtyIsAnnounced
  <2>1. id[l] \in Slots /\ sinks[id[l]].fn = l
    BY DEF TypeOK, SlotInv
  <2>2. CASE sinks'[id[l]].dirty = sinks[id[l]].dirty
    <3>1. told[l] \/ \E q \in Publishers : pub[q].fns[id[l]] = l
      BY <2>2 DEF DirtyIsAnnounced
    <3>2. ASSUME NEW q \in Publishers, pub[q].fns[id[l]] = l PROVE q # p
      BY <1>1, <2>1, <3>2, NoneAssumption DEF NoFns
    <3> QED
      BY <1>2, <3>1, <3>2
  <2>3. CASE Wants(id[l], k)
    <3>1. called[id[l]] = l
      BY <2>1, <2>3 DEF called
    <3> QED
      BY <1>2, <3>1
  <2> QED
    BY <1>3, <2>1, <2>2, <2>3
<1> QED
  BY <1>4, <1>5, <1>6, <1>7

LEMMA NotifyCall ==
    ASSUME NotifyIInv, TypeOK', NEW p \in Publishers, NEW s \in Slots, Call(p, s)
    PROVE  NotifyIInv'
<1> USE DEF NotifyIInv
<1> DEFINE f == pub[p].fns[s]
<1>1. /\ pub[p].pc = "call" /\ sinks' = sinks /\ id' = id
      /\ told' = [told EXCEPT ![f] = TRUE]
      /\ f # None
  BY DEF Call, NextCall
<1>2. f \in Listeners
  BY <1>1 DEF TypeOK, FnOrNone
<1>3. /\ pub'[p].pc = "call"
      /\ pub'[p].fns = [pub[p].fns EXCEPT ![s] = None]
      /\ \A q \in Publishers : q # p => pub'[q] = pub[q]
  BY <1>1 DEF Call, TypeOK
<1>4. SlotInv' /\ DueIsWanted'
  BY <1>1 DEF SlotInv, DueIsWanted
<1>5. FnsInv'
  BY <1>3 DEF FnsInv
<1>6. DirtyIsAnnounced'
  <2> SUFFICES ASSUME NEW l \in Listeners, id[l] # -1, sinks[id[l]].dirty # {}, ~told'[l]
               PROVE  \E q \in Publishers : pub'[q].fns[id[l]] = l
    BY <1>1 DEF DirtyIsAnnounced
  <2>1. l # f /\ ~told[l] /\ id[l] \in Slots
    BY <1>1, <1>2 DEF TypeOK
  <2>2. PICK q \in Publishers : pub[q].fns[id[l]] = l
    BY <2>1 DEF DirtyIsAnnounced
  <2>3. CASE q = p
    <3>1. id[l] # s
      BY <2>1, <2>2, <2>3
    <3>2. pub[p].fns \in [Slots -> FnOrNone]
      BY DEF TypeOK
    <3>3. pub'[p].fns[id[l]] = l
      BY <1>3, <2>1, <2>2, <2>3, <3>1, <3>2
    <3> QED
      BY <3>3
  <2> QED
    BY <1>3, <2>2, <2>3
<1> QED
  BY <1>4, <1>5, <1>6

\* A listener's own step on its slot: the others' slots are as they were.
LEMMA NotifyOwnSlot ==
    ASSUME NotifyIInv, TypeOK', pub' = pub, NEW l \in Listeners, NEW s \in Slots, NEW sink,
           sinks' = [sinks EXCEPT ![s] = sink],
           \A m \in Listeners : m # l => id'[m] = id[m] /\ told'[m] = told[m],
           sinks[s].fn \in {None, l},
           \/ id'[l] = s /\ sink.fn = l
           \/ id'[l] = -1 /\ sink.fn = None,
           id[l] = -1 \/ id[l] = s,
           sink.dirty \subseteq sink.want \cap StateKinds,
           id'[l] # -1 => sink.dirty = {} \/ (id[l] = s /\ told'[l] = told[l]
                                              /\ sink.dirty \subseteq sinks[s].dirty)
    PROVE  NotifyIInv'
<1> USE DEF NotifyIInv
<1>1. /\ sinks'[s] = sink
      /\ \A t \in Slots : t # s => sinks'[t] = sinks[t]
  BY DEF TypeOK
<1>2. ASSUME NEW m \in Listeners, m # l, id[m] # -1
      PROVE  id[m] \in Slots /\ id[m] # s
  BY <1>2, NoneAssumption DEF TypeOK, SlotInv
<1>3. SlotInv'
  <2>1. ASSUME NEW m \in Listeners, id'[m] # -1 PROVE sinks'[id'[m]].fn = m
    <3>1. CASE m = l
      BY <1>1, <2>1, <3>1
    <3>2. CASE m # l
      BY <1>1, <1>2, <2>1, <3>2 DEF SlotInv
    <3> QED
      BY <3>1, <3>2
  <2>2. ASSUME NEW t \in Slots, sinks'[t].fn # None PROVE id'[sinks'[t].fn] = t
    <3>1. CASE t = s
      BY <1>1, <2>2, <3>1
    <3>2. CASE t # s
      <4>1. sinks'[t] = sinks[t] /\ id[sinks[t].fn] = t
        BY <1>1, <2>2, <3>2 DEF SlotInv
      <4>2. sinks[t].fn \in Listeners
        BY <2>2, <4>1 DEF TypeOK, FnOrNone
      <4>3. sinks[t].fn # l
        BY <3>2, <4>1 DEF Slots
      <4> QED
        BY <4>1, <4>2, <4>3
    <3> QED
      BY <3>1, <3>2
  <2> QED
    BY <2>1, <2>2 DEF SlotInv
<1>4. FnsInv'
  BY DEF FnsInv
<1>5. DueIsWanted'
  BY <1>1 DEF DueIsWanted
<1>6. DirtyIsAnnounced'
  <2> SUFFICES ASSUME NEW m \in Listeners, id'[m] # -1, sinks'[id'[m]].dirty # {}
               PROVE  told'[m] \/ \E q \in Publishers : pub[q].fns[id'[m]] = m
    BY DEF DirtyIsAnnounced
  <2>1. CASE m = l
    <3>1. id'[l] = s /\ id[l] = s /\ told'[l] = told[l] /\ sinks[s].dirty # {}
      BY <1>1, <2>1
    <3> QED
      BY <2>1, <3>1 DEF DirtyIsAnnounced
  <2>2. CASE m # l
    <3>1. id'[m] = id[m] /\ told'[m] = told[m] /\ sinks'[id[m]] = sinks[id[m]]
      BY <1>1, <1>2, <2>2
    <3> QED
      BY <3>1 DEF DirtyIsAnnounced
  <2> QED
    BY <2>1, <2>2
<1> QED
  BY <1>3, <1>4, <1>5, <1>6

LEMMA NotifyStep ==
    ASSUME NotifyIInv, [Next]_vars
    PROVE  NotifyIInv'
<1>0. TypeOK /\ TypeOK' /\ SlotInv /\ FnsInv /\ DueIsWanted
  BY TypeStep DEF NotifyIInv
<1>1. ASSUME NEW k \in Kinds, Declare(k) PROVE NotifyIInv'
  BY <1>0, <1>1, NotifyUntouched DEF Declare, listenerVars
<1>2. ASSUME NEW p \in Publishers, NEW k \in Kinds, Happened(p, k) PROVE NotifyIInv'
  <2>1. /\ pub[p].fns = NoFns /\ pub'[p].fns = NoFns
        /\ \A q \in Publishers : q # p => pub'[q] = pub[q]
    BY <1>0, <1>2 DEF Happened, FnsInv, TypeOK
  <2>2. \A q \in Publishers : pub'[q].fns = pub[q].fns
                              /\ (pub'[q].pc # "call" => pub[q].pc # "call" \/ pub[q].fns = NoFns)
    BY <2>1
  <2> QED
    BY <1>0, <1>2, <2>2, NotifyUntouched DEF Happened, listenerVars
<1>3. ASSUME NEW p \in Publishers, NEW k \in Kinds, Changed(p, k) PROVE NotifyIInv'
  <2>1. /\ pub[p].fns = NoFns /\ pub'[p].fns = NoFns
        /\ \A q \in Publishers : q # p => pub'[q] = pub[q]
    BY <1>0, <1>3 DEF Changed, FnsInv, TypeOK
  <2>2. \A q \in Publishers : pub'[q].fns = pub[q].fns
                              /\ (pub'[q].pc # "call" => pub[q].pc # "call" \/ pub[q].fns = NoFns)
    BY <2>1
  <2> QED
    BY <1>0, <1>3, <2>2, NotifyUntouched DEF Changed, listenerVars
<1>4. ASSUME NEW p \in Publishers, NEW made \in BOOLEAN, Store(p, made) PROVE NotifyIInv'
  <2>1. \A q \in Publishers : pub'[q].fns = pub[q].fns /\ (q # p => pub'[q] = pub[q])
    BY <1>0, <1>4 DEF Store, TypeOK
  <2>2. pub[p].pc # "call"
    BY <1>4 DEF Store
  <2> QED
    BY <1>0, <1>4, <2>1, <2>2, NotifyUntouched DEF Store, listenerVars
<1>5. ASSUME NEW p \in Publishers, Mark(p) PROVE NotifyIInv'
  BY <1>0, <1>5, NotifyMark
<1>6. ASSUME NEW p \in Publishers, NEW s \in Slots, Call(p, s) PROVE NotifyIInv'
  BY <1>0, <1>6, NotifyCall
<1>7. ASSUME NEW p \in Publishers, Return(p) PROVE NotifyIInv'
  <2>1. /\ pub[p].fns = NoFns /\ pub'[p].fns = NoFns
        /\ \A q \in Publishers : q # p => pub'[q] = pub[q]
    BY <1>0, <1>7 DEF Return, Idle, TypeOK
  <2>2. \A q \in Publishers : pub'[q].fns = pub[q].fns
                              /\ (pub'[q].pc # "call" => pub[q].pc # "call" \/ pub[q].fns = NoFns)
    BY <2>1
  <2> QED
    BY <1>0, <1>7, <2>2, NotifyUntouched DEF Return, listenerVars
<1>8. ASSUME NEW l \in Listeners, NEW want \in SUBSET Kinds, NEW s \in Slots, Listen(l, want, s)
      PROVE  NotifyIInv'
  <2>1. /\ id[l] = -1 /\ sinks[s].fn = None /\ pub' = pub
        /\ sinks' = [sinks EXCEPT ![s] = [fn |-> l, want |-> want, dirty |-> {}]]
    BY <1>8 DEF Listen
  <2>2. id'[l] = s /\ \A m \in Listeners : m # l => id'[m] = id[m] /\ told'[m] = told[m]
    BY <1>0, <1>8 DEF Listen, TypeOK
  <2> QED
    BY <1>0, <2>1, <2>2, NotifyOwnSlot
<1>9. ASSUME NEW l \in Listeners, NEW want \in SUBSET Kinds, Want(l, want) PROVE NotifyIInv'
  <2> DEFINE s == id[l]
             sink == [sinks[s] EXCEPT !.want = want, !.dirty = @ \cap want]
  <2>1. s \in Slots /\ sinks[s].fn = l /\ sinks' = [sinks EXCEPT ![s] = sink]
        /\ pub' = pub /\ id' = id /\ told' = told
    BY <1>0, <1>9 DEF Want, TypeOK, SlotInv, listenerVars
  <2>2. sinks[s] \in [fn : FnOrNone, want : SUBSET Kinds, dirty : SUBSET Kinds]
        /\ sinks[s].dirty \subseteq StateKinds
    BY <1>0, <2>1 DEF TypeOK, DueIsWanted
  <2>3. sink.fn = l /\ sink.want = want /\ sink.dirty = sinks[s].dirty \cap want
    BY <2>1, <2>2
  <2> HIDE DEF sink, s
  <2>4. sink.dirty \subseteq sink.want \cap StateKinds /\ sink.dirty \subseteq sinks[s].dirty
    BY <2>2, <2>3
  <2>5. id[l] = s
    BY DEF s
  <2> QED
    BY <1>0, <2>1, <2>3, <2>4, <2>5, NotifyOwnSlot
<1>10. ASSUME NEW l \in Listeners, Unlisten(l) PROVE NotifyIInv'
  <2> DEFINE s == id[l]
  <2>1. s \in Slots /\ sinks[s].fn = l /\ sinks' = [sinks EXCEPT ![s] = NoSink]
        /\ pub' = pub /\ told' = told
    BY <1>0, <1>10 DEF Unlisten, TypeOK, SlotInv
  <2>2. id'[l] = -1 /\ \A m \in Listeners : m # l => id'[m] = id[m]
    BY <1>0, <1>10 DEF Unlisten, TypeOK
  <2>3. NoSink.fn = None /\ NoSink.dirty = {}
    BY DEF NoSink
  <2> QED
    BY <1>0, <2>1, <2>2, <2>3, NotifyOwnSlot
<1>11. ASSUME NEW l \in Listeners, Take(l) PROVE NotifyIInv'
  <2> DEFINE s == id[l]
             sink == [sinks[s] EXCEPT !.dirty = {}]
  <2>1. s \in Slots /\ sinks[s].fn = l /\ sinks' = [sinks EXCEPT ![s] = sink]
        /\ pub' = pub /\ id' = id
    BY <1>0, <1>11 DEF Take, TypeOK, SlotInv
  <2>2. \A m \in Listeners : m # l => told'[m] = told[m]
    BY <1>0, <1>11 DEF Take, TypeOK
  <2>3. sinks[s] \in [fn : FnOrNone, want : SUBSET Kinds, dirty : SUBSET Kinds]
    BY <1>0, <2>1 DEF TypeOK
  <2>4. sink.fn = l /\ sink.dirty = {}
    BY <2>1, <2>3
  <2>5. id[l] = s
    OBVIOUS
  <2> HIDE DEF sink, s
  <2> QED
    BY <1>0, <2>1, <2>2, <2>4, <2>5, NotifyOwnSlot
<1>12. ASSUME NEW l \in Listeners, Read(l) PROVE NotifyIInv'
  BY <1>0, <1>12, NotifyUntouched DEF Read, hubVars, FnsInv
<1>13. CASE UNCHANGED vars
  BY <1>0, <1>13, NotifyUntouched DEF vars, hubVars, listenerVars, FnsInv
<1> QED
  BY <1>1, <1>2, <1>3, <1>4, <1>5, <1>6, <1>7, <1>8, <1>9, <1>10, <1>11, <1>12, <1>13
  DEF Next, Publish, Listener

\* No change is left unannounced: whatever the interleaving of notify()'s two halves with the
\* listeners' own calls (events.c:186-207, 314-360), a listener with something to take has been
\* called since it last took, or is about to be.
THEOREM Announced == Spec => []DirtyIsAnnounced
<1>1. NotifyIInv => DirtyIsAnnounced
  BY DEF NotifyIInv
<1> QED
  BY <1>1, NotifyInit, NotifyStep, PTL DEF Spec

\* What is due to a listener is among what it wants, and is a state: events.c:192-197, 329-338.
THEOREM Wanted == Spec => []DueIsWanted
<1>1. NotifyIInv => DueIsWanted
  BY DEF NotifyIInv
<1> QED
  BY <1>1, NotifyInit, NotifyStep, PTL DEF Spec

----------------------------------------------------------------------------
(* What a read hands over, and what it says is lost. *)

CursorInv == \A l \in Listeners : pos[l] <= count /\ cursor[l] = SeqOf(pos[l])
CursorIInv == TypeOK /\ CursorInv

\* events_since() tells back from the latest seq a count no earlier than the cursor's; the
\* cursor's own, while the listener is less than a round behind.
LEMMA FromCursor ==
    ASSUME NEW a \in Nat, NEW b \in Nat, a <= b
    PROVE  /\ From(SeqOf(a), b) \in Nat
           /\ From(SeqOf(a), b) >= a
           /\ b - a < SeqMod => From(SeqOf(a), b) = a
<1>1. CASE a = 0
  BY <1>1 DEF From, SeqOf
<1>2. CASE a # 0
  <2> DEFINE x == (a - 1) % SeqMod
             y == (b - 1) % SeqMod
             back == (y - x + SeqMod) % SeqMod
  <2>1. a - 1 \in Nat /\ b - 1 \in Nat /\ a - 1 <= b - 1
    BY <1>2
  <2>2. (b - 1) - (a - 1) = b - a
    OBVIOUS
  <2>3. back \in 0 .. b - a /\ (b - a < SeqMod => back = b - a)
    <3> DEFINE a1 == a - 1
               b1 == b - 1
    <3>1. a1 \in Nat /\ b1 \in Nat /\ a1 <= b1 /\ b1 - a1 = b - a
      BY <2>1, <2>2
    <3> HIDE DEF a1, b1
    <3>2. /\ ((b1 % SeqMod) - (a1 % SeqMod) + SeqMod) % SeqMod \in 0 .. b1 - a1
          /\ b1 - a1 < SeqMod => ((b1 % SeqMod) - (a1 % SeqMod) + SeqMod) % SeqMod = b1 - a1
      <4>1. SeqMod \in Nat \ {0}
        BY LimitsAssumption
      <4> QED
        BY <3>1, <4>1, BackFits
    <3>3. x = a1 % SeqMod /\ y = b1 % SeqMod
      BY DEF a1, b1
    <3> HIDE DEF x, y
    <3> QED
      BY <3>1, <3>2, <3>3
  <2>4. x \in Nat /\ y \in Nat
    BY <2>1, DivMod, LimitsAssumption
  <2>5. SeqOf(a) = x + 1 /\ SeqOf(b) = y + 1
    BY <1>2, <2>1 DEF SeqOf
  <2> HIDE DEF x, y
  <2>6. SeqOf(a) # 0 /\ b # 0 /\ (SeqOf(b) - SeqOf(a) + SeqMod) % SeqMod = back
    <3>1. SeqOf(b) - SeqOf(a) + SeqMod = y - x + SeqMod
      BY <2>4, <2>5, LimitsAssumption
    <3> QED
      BY <1>2, <2>4, <2>5, <3>1
  <2> HIDE DEF back
  <2>7. From(SeqOf(a), b) = IF back <= b THEN b - back ELSE 0
    BY <2>6 DEF From
  <2> QED
    BY <2>3, <2>7
<1> QED
  BY <1>1, <1>2

LEMMA CursorStep ==
    ASSUME CursorIInv, [Next]_vars
    PROVE  CursorIInv'
<1>0. TypeOK /\ TypeOK' /\ CursorInv
  BY TypeStep DEF CursorIInv
<1>1. ASSUME UNCHANGED <<count, cursor, pos>> PROVE CursorIInv'
  BY <1>0, <1>1 DEF CursorIInv, CursorInv
<1>2. ASSUME NEW p \in Publishers, NEW k \in Kinds, Happened(p, k) PROVE CursorIInv'
  <2>1. count' = count + 1 /\ cursor' = cursor /\ pos' = pos
    BY <1>2 DEF Happened, listenerVars
  <2> QED
    BY <1>0, <2>1 DEF CursorIInv, CursorInv, TypeOK
<1>3. ASSUME NEW l \in Listeners,
             (\E want \in SUBSET Kinds, s \in Slots : Listen(l, want, s)) \/ Read(l)
      PROVE  CursorIInv'
  <2>1. /\ count' = count
        /\ cursor' = [cursor EXCEPT ![l] = SeqOf(count)]
        /\ pos' = [pos EXCEPT ![l] = count]
    BY <1>3 DEF Listen, Read, hubVars
  <2> QED
    BY <1>0, <2>1 DEF CursorIInv, CursorInv, TypeOK
<1>4. ASSUME NEW p \in Publishers, Publish(p), \A k \in Kinds : ~Happened(p, k)
      PROVE  UNCHANGED <<count, cursor, pos>>
  BY <1>4 DEF Publish, Changed, Store, Mark, Call, Return, listenerVars, history
<1>5. ASSUME NEW l \in Listeners, Unlisten(l) \/ Take(l) \/ \E want \in SUBSET Kinds : Want(l, want)
      PROVE  UNCHANGED <<count, cursor, pos>>
  BY <1>5 DEF Unlisten, Take, Want, listenerVars, history
<1>6. ASSUME NEW k \in Kinds, Declare(k) PROVE UNCHANGED <<count, cursor, pos>>
  BY <1>6 DEF Declare, listenerVars, history
<1>7. CASE UNCHANGED vars
  BY <1>1, <1>7 DEF vars, hubVars, listenerVars, history
<1>8. CASE Next
  <2>1. CASE \E k \in Kinds : Declare(k)
    BY <1>1, <1>6, <2>1
  <2>2. CASE \E p \in Publishers : Publish(p)
    BY <1>1, <1>2, <1>4, <2>2
  <2>3. CASE \E l \in Listeners : Listener(l)
    BY <1>1, <1>3, <1>5, <2>3 DEF Listener
  <2> QED
    BY <1>8, <2>1, <2>2, <2>3 DEF Next
<1> QED
  BY <1>7, <1>8

LEMMA CursorInit == Init => CursorIInv
  BY TypeInit DEF Init, CursorIInv, CursorInv, SeqOf

\* Only a read hands anything over, or counts anything lost.
LEMMA OnlyReads ==
    ASSUME TypeOK, [Next]_vars, NEW l \in Listeners
    PROVE  \/ Read(l)
           \/ /\ got'[l] = got[l] /\ lost'[l] = lost[l]
              /\ id[l] # -1 => cursor'[l] = cursor[l]
<1>1. ASSUME NEW m \in Listeners, Read(m), m # l
      PROVE  got'[l] = got[l] /\ lost'[l] = lost[l] /\ cursor'[l] = cursor[l]
  BY <1>1 DEF Read, TypeOK
<1>2. ASSUME NEW m \in Listeners, NEW want \in SUBSET Kinds, NEW s \in Slots, Listen(m, want, s)
      PROVE  got'[l] = got[l] /\ lost'[l] = lost[l] /\ (id[l] # -1 => cursor'[l] = cursor[l])
  BY <1>2 DEF Listen, TypeOK
<1>3. ASSUME NEW m \in Listeners, Unlisten(m) \/ Take(m) \/ \E want \in SUBSET Kinds : Want(m, want)
      PROVE  got' = got /\ lost' = lost /\ cursor' = cursor
  BY <1>3 DEF Unlisten, Take, Want, listenerVars, history
<1>4. ASSUME NEW p \in Publishers, Publish(p)
      PROVE  got' = got /\ lost' = lost /\ cursor' = cursor
  BY <1>4 DEF Publish, Happened, Changed, Store, Mark, Call, Return, listenerVars, history
<1>5. ASSUME NEW k \in Kinds, Declare(k) PROVE got' = got /\ lost' = lost /\ cursor' = cursor
  BY <1>5 DEF Declare, listenerVars, history
<1>6. ASSUME UNCHANGED vars PROVE got' = got /\ lost' = lost /\ cursor' = cursor
  BY <1>6 DEF vars, listenerVars, history
<1> QED
  BY <1>1, <1>2, <1>3, <1>4, <1>5, <1>6 DEF Next, Listener

\* A happening reaches a listener at most once, the 16-bit seq going round included, however far
\* behind the listener is: events.c:272-312.
THEOREM ReadOnce == Spec => AtMostOnce
<1>1. ASSUME CursorIInv, [Next]_vars, NEW l \in Listeners, NEW n \in got'[l] \ got[l]
      PROVE  n > pos[l]
  <2>1. Read(l)
    BY <1>1, OnlyReads DEF CursorIInv
  <2>2. n \in Since(cursor[l], Mask(l))
    BY <1>1, <2>1 DEF Read, CursorIInv, TypeOK
  <2>3. n \in Nat /\ n > From(SeqOf(pos[l]), count)
    BY <1>1, <2>2 DEF Since, CursorIInv, CursorInv, TypeOK
  <2>4. pos[l] \in Nat /\ count \in Nat /\ pos[l] <= count
    BY <1>1 DEF CursorIInv, CursorInv, TypeOK
  <2> QED
    BY <2>3, <2>4, FromCursor
<1>2. CursorIInv /\ [Next]_vars =>
        [\A l \in Listeners : got'[l] # got[l] => \A n \in got'[l] \ got[l] : n > pos[l]]_vars
  BY <1>1
<1> QED
  BY <1>2, CursorInit, CursorStep, PTL DEF Spec, AtMostOnce

\* The count of what is lost is exact while the listener is less than a round of seqs behind:
\* events.c:297-304.
THEOREM LossIsExact == Spec => LostIsCounted
<1>1. ASSUME CursorIInv, [Next]_vars, NEW l \in Listeners,
             cursor'[l] # cursor[l], id[l] # -1, count - pos[l] < SeqMod
      PROVE  lost'[l] - lost[l] = Cardinality({n \in pos[l] + 1 .. count : n <= count - Kept})
  <2>1. Read(l)
    BY <1>1, OnlyReads DEF CursorIInv
  <2>2. pos[l] \in Nat /\ count \in Nat /\ pos[l] <= count /\ cursor[l] = SeqOf(pos[l])
    BY <1>1 DEF CursorIInv, CursorInv, TypeOK
  <2>3. From(cursor[l], count) = pos[l]
    BY <1>1, <2>2, FromCursor
  <2>4. Lost(cursor[l], count)
          = IF count - Kept > pos[l] THEN count - Kept - pos[l] ELSE 0
    BY <2>2, <2>3, LimitsAssumption DEF Lost, Oldest
  <2>5. {n \in pos[l] + 1 .. count : n <= count - Kept} = pos[l] + 1 .. count - Kept
    BY <2>2, LimitsAssumption
  <2>6. Cardinality(pos[l] + 1 .. count - Kept)
          = IF count - Kept > pos[l] THEN count - Kept - pos[l] ELSE 0
    <3> DEFINE a == pos[l] + 1
               b == count - Kept
    <3>1. a \in Int /\ b \in Int
      BY <2>2, LimitsAssumption
    <3> HIDE DEF a, b
    <3>2. Cardinality(a .. b) = IF a > b THEN 0 ELSE b - a + 1
      BY <3>1, FS_Interval
    <3>3. Cardinality(a .. b) = IF b >= a THEN b - a + 1 ELSE 0
      BY <3>1, <3>2
    <3> QED
      BY <2>2, <3>3, LimitsAssumption DEF a, b
  <2>7. lost'[l] = lost[l] + Lost(cursor[l], count) /\ lost[l] \in Nat
    BY <1>1, <2>1 DEF Read, CursorIInv, TypeOK
  <2>8. Cardinality({n \in pos[l] + 1 .. count : n <= count - Kept}) = Lost(cursor[l], count)
    BY <2>4, <2>5, <2>6
  <2>9. Lost(cursor[l], count) \in Int
    BY <2>2, <2>4, LimitsAssumption
  <2> QED
    BY <2>7, <2>8, <2>9
<1>2. CursorIInv /\ [Next]_vars =>
        [\A l \in Listeners :
            cursor'[l] # cursor[l] /\ id[l] # -1 /\ id'[l] # -1 /\ count - pos[l] < SeqMod =>
                lost'[l] - lost[l]
                    = Cardinality({n \in pos[l] + 1 .. count : n <= count - Kept})]_vars
  BY <1>1
<1> QED
  BY <1>2, CursorInit, CursorStep, PTL DEF Spec, LostIsCounted
=============================================================================
