----------------------------- MODULE KeptProofs -----------------------------
(***************************************************************************)
(* What is kept over a restart: the remembered networks, the access point, *)
(* and the configuration with its import.  Each has an inductive invariant *)
(* of its own, and the three together are one of MCKept's specification,   *)
(* which runs one of them at a time.                                       *)
(***************************************************************************)
EXTENDS MCKept, SequenceTheorems, WellFoundedInduction, TLAPS

----------------------------------------------------------------------------
(* The remembered networks. *)

Networks == Ssids \cup {NoSsid}
CallRecord ==
    [pc : {"idle", "leave", "config", "connect", "failed", "uses", "on", "rejoin"},
     op : {"none", "join", "off", "forget", "forgetJoin"}, ssid : Networks, pass : Passes]
JoinRecord == [ssid : Networks, pass : Passes, commit : BOOLEAN]
EvtRecord == [pc : {"idle", "act", "stop"}, retry : BOOLEAN, keep : BOOLEAN]
EventRecord == [what : {"gotIp", "lost"}, ssid : Ssids, why : {"none", "leave", "auth", "absent"}]

KnownTyped ==
    /\ known \in [entries : Seq(Credentials), last : Networks] /\ Len(known.entries) <= KnownMax
    /\ {haveIp, want, timer, fire, refused, late, crossed} \subseteq BOOLEAN
    /\ join \in JoinRecord /\ retries \in 0 .. FastRetries
    /\ call \in [Callers -> CallRecord] /\ evt \in EvtRecord
    /\ cfg \in Configs /\ peer \in Configs /\ link \in {"down", "connecting", "up"}
    /\ events \in Seq(EventRecord)
    /\ forgotten \in Networks

\* What a caller is at says what it does, and for which network
CallOK(r) ==
    /\ r.pc \in {"idle", "on", "rejoin"} => r.op = "none"
    /\ r.pc = "rejoin" => r.ssid \in Ssids
    /\ r.pc \in {"connect", "failed"} => r.op = "join"
    /\ r.pc = "uses" => r.op \in {"forget", "forgetJoin"}
    /\ r.pc = "leave" => r.op # "none"
    /\ r.op = "join" => r.ssid \in Ssids

Coherent ==
    /\ \A c \in Callers : CallOK(call[c])
    /\ join.ssid = NoSsid => join = NoJoin
    /\ link # "down" => peer.ssid \in Ssids
    /\ evt.retry => evt.keep
    /\ evt.keep => evt.pc = "act"

\* No network has two entries
OneEntryEach ==
    \A i, j \in 1 .. Len(known.entries) : known.entries[i].ssid = known.entries[j].ssid => i = j

LostIn(from) == \E j \in from .. Len(events) : events[j].what = "lost"

\* A link that went down after an address says so, and has not been heard yet
LossIsTold ==
    /\ \A i \in 1 .. Len(events) : events[i].what = "gotIp" => link = "up" \/ LostIn(i + 1)
    /\ haveIp \/ evt.pc = "stop" => link = "up" \/ LostIn(1)

Joiner(c) == call[c].op = "join"
Leaver(c) == call[c].pc = "leave" /\ call[c].op # "join"

\* One caller at a time is about to call the driver; one that leaves has given the station up
InTurn ==
    ~late =>
       /\ \A c, d \in Callers : Joiner(c) /\ c # d => ~Joiner(d) /\ call[d].pc \notin {"on", "leave"}
       /\ \A c \in Callers : Leaver(c) => ~want /\ ~joining
       /\ \A c \in Callers : call[c].pc = "failed" => refused

OursLost == \E j \in 1 .. Len(events) : events[j].what = "lost" /\ Ours(events[j])

\* A join in flight has nobody else's connect in its way; once made, the driver is configured for
\* it, and joins it or has said that it did not
JoinHeld ==
    ~late /\ joining =>
       /\ ~fire /\ ~evt.keep
       /\ \A c \in Callers : Joiner(c) =>
             /\ call[c].ssid = join.ssid
             /\ call[c].pc # "leave" => link = "down"
             /\ call[c].pc \in {"connect", "failed"} => cfg.ssid \in {join.ssid, NoSsid}
       /\ (\A c \in Callers : ~Joiner(c)) =>
             /\ cfg.ssid \in {join.ssid, NoSsid}
             /\ link # "down" => peer.ssid = join.ssid
             /\ ~refused => cfg.ssid = NoSsid \/ link # "down" \/ OursLost

\* No join in flight: a station that is wanted is pursued by somebody
Chased ==
    \/ timer \/ fire \/ evt.keep \/ LostIn(1)
    \/ \E c \in Callers : (Joiner(c) /\ call[c].pc # "failed") \/ call[c].pc \in {"on", "rejoin"}
Pursued ==
    want /\ ~refused /\ ~late /\ ~joining /\ cfg.ssid # NoSsid => link # "down" \/ Chased

\* A station given up on has nobody to connect it, and somebody to drop what is left of its link
LetGo ==
    ~want /\ ~late =>
       /\ ~fire /\ ~evt.keep /\ \A c \in Callers : ~Joiner(c) /\ call[c].pc # "on"
       /\ link = "down" \/ \E c \in Callers : Leaver(c)

\* A network that was forgotten is not in the store, and a join of it is about to be cleared
Erased ==
    ~crossed /\ forgotten # NoSsid =>
       /\ ~Has(forgotten) /\ known.last # forgotten
       /\ join.ssid = forgotten =>
             \E c \in Callers : call[c].pc = "uses" /\ call[c].ssid = forgotten /\ call[c].op = "forgetJoin"

KnownIInv ==
    KnownTyped /\ Coherent /\ OneEntryEach /\ LossIsTold /\ InTurn /\ JoinHeld /\ Pursued /\ LetGo /\ Erased

----------------------------------------------------------------------------
(* The store. *)

\* The entries of the store, each with its network and its passphrase
LEMMA EntryIs ==
    ASSUME KnownTyped
    PROVE  /\ known.entries \in Seq(Credentials) /\ known.last \in Networks
           /\ Len(known.entries) \in Nat /\ Len(known.entries) <= KnownMax /\ KnownMax \in Nat \ {0}
           /\ DOMAIN known.entries = 1 .. Len(known.entries)
           /\ \A i \in 1 .. Len(known.entries) : /\ known.entries[i] \in Credentials
                                                 /\ known.entries[i].ssid \in Networks
                                                 /\ known.entries[i].pass \in Passes
<1>1. known.entries \in Seq(Credentials) /\ known.last \in Networks BY DEF KnownTyped
<1>2. DOMAIN known.entries = 1 .. Len(known.entries) /\ Len(known.entries) \in Nat BY <1>1
<1>3. \A i \in 1 .. Len(known.entries) : known.entries[i] \in Credentials BY <1>1, <1>2
<1> QED BY <1>1, <1>2, <1>3, KnownAssumption DEF KnownTyped, Credentials, Networks

\* The passphrase recalled is one
LEMMA PassIs == ASSUME KnownTyped, NEW s, Has(s) PROVE PassOf(s) \in Passes
  BY EntryIs DEF Has, PassOf, Entry

\* The entries a new one joins: all of them, or all but the oldest
LEMMA Room ==
    ASSUME KnownTyped,
           NEW kept, kept = IF Len(known.entries) < KnownMax THEN known.entries ELSE Tail(known.entries)
    PROVE  /\ kept \in Seq(Credentials) /\ Len(kept) \in Nat /\ Len(kept) + 1 <= KnownMax
           /\ \E d \in {0, 1} : \A i \in 1 .. Len(kept) : i + d \in 1 .. Len(known.entries) /\ kept[i] = known.entries[i + d]
<1>1. known.entries \in Seq(Credentials) /\ Len(known.entries) \in Nat /\ Len(known.entries) <= KnownMax /\ KnownMax \in Nat \ {0}
  BY EntryIs
<1>2. CASE Len(known.entries) < KnownMax
  <2>1. \A i \in 1 .. Len(kept) : i + 0 \in 1 .. Len(known.entries) /\ kept[i] = known.entries[i + 0] BY <1>1, <1>2
  <2> QED BY <1>1, <1>2, <2>1
<1>3. CASE ~(Len(known.entries) < KnownMax)
  <2>1. known.entries # << >> BY <1>1, <1>3
  <2>2. /\ kept \in Seq(Credentials) /\ Len(kept) = Len(known.entries) - 1
        /\ \A i \in 1 .. Len(kept) : kept[i] = known.entries[i + 1]
    BY <1>1, <1>3, <2>1, HeadTailProperties
  <2>3. \A i \in 1 .. Len(kept) : i + 1 \in 1 .. Len(known.entries) BY <1>1, <2>2
  <2> QED BY <1>1, <1>3, <2>2, <2>3
<1> QED BY <1>2, <1>3

\* known_put() keeps one entry a network and the limit, and remembers no other network than it is given
LEMMA Puts ==
    ASSUME KnownTyped, OneEntryEach, NEW s \in Ssids, NEW p \in Passes, NEW asLast \in BOOLEAN, Put(s, p, asLast)
    PROVE  /\ known' \in [entries : Seq(Credentials), last : Networks] /\ Len(known'.entries) <= KnownMax
           /\ OneEntryEach'
           /\ \A f \in Ssids \ {s} : ~Has(f) => ~Has(f)'
           /\ known'.last \in {s, known.last}
<1> DEFINE e == known.entries
           new == [ssid |-> s, pass |-> p]
           kept == IF Len(e) < KnownMax THEN e ELSE Tail(e)
<1>1. /\ e \in Seq(Credentials) /\ known.last \in Networks /\ Len(e) \in Nat /\ Len(e) <= KnownMax
      /\ DOMAIN e = 1 .. Len(e) /\ \A i \in 1 .. Len(e) : e[i] \in Credentials
  BY EntryIs
<1>2. new \in Credentials /\ s \in Networks BY DEF Credentials, Networks
<1>3. \A i, j \in 1 .. Len(e) : e[i].ssid = e[j].ssid => i = j BY DEF OneEntryEach
<1> DEFINE new1 == [i \in DOMAIN e |-> IF i \in Entry(s) THEN new ELSE e[i]]
           new2 == Append(kept, new)
<1>4. known' = [entries |-> IF Has(s) THEN new1 ELSE new2, last |-> IF asLast THEN s ELSE known.last]
  BY DEF Put
<1>5. Has(s) => /\ new1 \in Seq(Credentials) /\ Len(new1) = Len(e)
                /\ \A i \in 1 .. Len(e) : new1[i].ssid = e[i].ssid
  <2>1. SUFFICES ASSUME Has(s)
                 PROVE  /\ new1 \in Seq(Credentials) /\ Len(new1) = Len(e)
                        /\ \A i \in 1 .. Len(e) : new1[i].ssid = e[i].ssid
    OBVIOUS
  <2>2. new1 \in [1 .. Len(e) -> Credentials] BY <1>1, <1>2
  <2>3. new1 \in Seq(Credentials) /\ Len(new1) = Len(e) BY <1>1, <2>2, IsASeq
  <2> QED BY <1>1, <2>3 DEF Entry
<1>6. ~Has(s) => /\ new2 \in Seq(Credentials) /\ Len(new2) <= KnownMax
                 /\ \A i, j \in 1 .. Len(new2) : new2[i].ssid = new2[j].ssid => i = j
                 /\ \A f \in Ssids \ {s} : ~Has(f) => \A i \in 1 .. Len(new2) : new2[i].ssid # f
  <2>1. SUFFICES ASSUME ~Has(s)
                 PROVE  /\ new2 \in Seq(Credentials) /\ Len(new2) <= KnownMax
                        /\ \A i, j \in 1 .. Len(new2) : new2[i].ssid = new2[j].ssid => i = j
                        /\ \A f \in Ssids \ {s} : ~Has(f) => \A i \in 1 .. Len(new2) : new2[i].ssid # f
    OBVIOUS
  <2>2. /\ kept \in Seq(Credentials) /\ Len(kept) \in Nat /\ Len(kept) + 1 <= KnownMax
        /\ \E d \in {0, 1} : \A i \in 1 .. Len(kept) : i + d \in 1 .. Len(e) /\ kept[i] = e[i + d]
    BY Room
  <2>3. PICK d \in {0, 1} : \A i \in 1 .. Len(kept) : i + d \in 1 .. Len(e) /\ kept[i] = e[i + d] BY <2>2
  <2> HIDE DEF kept, e, new
  <2>4. /\ new2 \in Seq(Credentials) /\ Len(new2) = Len(kept) + 1
        /\ \A i \in 1 .. Len(kept) : new2[i] = kept[i]
        /\ new2[Len(kept) + 1] = new
    BY <1>2, <2>2, AppendProperties
  <2> HIDE DEF new2
  <2>5. new.ssid = s BY DEF new
  <2>6. \A i \in 1 .. Len(e) : e[i].ssid # s BY <2>1 DEF Has, Entry, e
  <2>7. \A i \in 1 .. Len(new2) : i \in 1 .. Len(kept) \/ i = Len(kept) + 1 BY <2>2, <2>4
  <2>8. \A i \in 1 .. Len(kept) : new2[i].ssid # s BY <2>3, <2>4, <2>6
  <2>9. \A i, j \in 1 .. Len(kept) : new2[i].ssid = new2[j].ssid => i = j
    <3>1. SUFFICES ASSUME NEW i \in 1 .. Len(kept), NEW j \in 1 .. Len(kept), new2[i].ssid = new2[j].ssid PROVE i = j OBVIOUS
    <3>2. e[i + d].ssid = e[j + d].ssid BY <2>3, <2>4, <3>1
    <3>3. i + d = j + d BY <1>3, <2>3, <3>2
    <3> QED BY <2>2, <3>3
  <2>10. \A i, j \in 1 .. Len(new2) : new2[i].ssid = new2[j].ssid => i = j
    BY <2>4, <2>5, <2>7, <2>8, <2>9
  <2>11. ASSUME NEW f \in Ssids \ {s}, ~Has(f), NEW i \in 1 .. Len(new2) PROVE new2[i].ssid # f
    <3>1. \A j \in 1 .. Len(e) : e[j].ssid # f BY <2>11 DEF Has, Entry, e
    <3> QED BY <2>3, <2>4, <2>5, <2>7, <3>1
  <2> QED BY <2>2, <2>4, <2>10, <2>11
<1>7. known'.entries = (IF Has(s) THEN new1 ELSE new2) /\ known'.last \in {s, known.last} BY <1>4
<1> HIDE DEF new1, new2, new, kept
<1>8. known' \in [entries : Seq(Credentials), last : Networks] /\ Len(known'.entries) <= KnownMax
  BY <1>1, <1>2, <1>4, <1>5, <1>6
<1>9. OneEntryEach' BY <1>3, <1>5, <1>6, <1>7 DEF OneEntryEach
<1>10. ASSUME NEW f \in Ssids \ {s}, ~Has(f) PROVE ~Has(f)'
  <2>1. \A i \in 1 .. Len(e) : e[i].ssid # f BY <1>10 DEF Has, Entry
  <2>2. \A i \in 1 .. Len(known'.entries) : known'.entries[i].ssid # f
    BY <1>5, <1>6, <1>7, <1>10, <2>1
  <2> QED BY <2>2 DEF Has, Entry
<1> QED BY <1>7, <1>8, <1>9, <1>10

\* known_erase() leaves no entry of that network
LEMMA Erases ==
    ASSUME KnownTyped, OneEntryEach, NEW s \in Ssids, Has(s), Erase(s)
    PROVE  /\ known' \in [entries : Seq(Credentials), last : Networks] /\ Len(known'.entries) <= KnownMax
           /\ OneEntryEach' /\ ~Has(s)' /\ known'.last # s
<1> DEFINE e == known.entries
           i == CHOOSE k \in Entry(s) : TRUE
           new == RemoveAt(e, i)
<1>1. /\ e \in Seq(Credentials) /\ known.last \in Networks /\ Len(e) \in Nat /\ Len(e) <= KnownMax
      /\ \A k \in 1 .. Len(e) : e[k] \in Credentials
  BY EntryIs
<1>2. i \in 1 .. Len(e) /\ e[i].ssid = s BY DEF Has, Entry
<1>3. \A k, l \in 1 .. Len(e) : e[k].ssid = e[l].ssid => k = l BY DEF OneEntryEach
<1>4. known' = [entries |-> new, last |-> IF known.last = s THEN NoSsid ELSE known.last] BY DEF Erase
<1> HIDE DEF i, e
<1>5. /\ new \in Seq(Credentials) /\ Len(new) = Len(e) - 1
      /\ \A k \in 1 .. Len(new) : new[k] = IF k < i THEN e[k] ELSE e[k + 1]
  <2> DEFINE a == SubSeq(e, 1, i - 1)
             b == SubSeq(e, i + 1, Len(e))
  <2>1. /\ a \in Seq(Credentials) /\ Len(a) = i - 1
        /\ \A k \in 1 .. i - 1 : a[k] = e[k]
    <3>1. \A k \in 1 .. i - 1 : e[k] \in Credentials BY <1>1, <1>2
    <3>2. 1 \in Int /\ i - 1 \in Int BY <1>2
    <3>3. /\ a \in Seq(Credentials) /\ Len(a) = IF 1 <= i - 1 THEN i - 1 - 1 + 1 ELSE 0
          /\ \A k \in 1 .. i - 1 - 1 + 1 : a[k] = e[1 + k - 1]
      BY <3>1, <3>2, SubSeqProperties
    <3> QED BY <1>2, <3>3
  <2>2. /\ b \in Seq(Credentials) /\ Len(b) = Len(e) - i
        /\ \A k \in 1 .. Len(e) - i : b[k] = e[k + i]
    <3>1. \A k \in i + 1 .. Len(e) : e[k] \in Credentials BY <1>1, <1>2
    <3>2. i + 1 \in Int /\ Len(e) \in Int BY <1>1, <1>2
    <3>3. /\ b \in Seq(Credentials) /\ Len(b) = IF i + 1 <= Len(e) THEN Len(e) - (i + 1) + 1 ELSE 0
          /\ \A k \in 1 .. Len(e) - (i + 1) + 1 : b[k] = e[(i + 1) + k - 1]
      BY <3>1, <3>2, SubSeqProperties
    <3> QED BY <1>1, <1>2, <3>3
  <2>3. new = a \o b BY DEF RemoveAt
  <2> HIDE DEF a, b, new
  <2>4. /\ a \o b \in Seq(Credentials) /\ Len(a \o b) = Len(a) + Len(b)
        /\ \A k \in 1 .. Len(a) + Len(b) : (a \o b)[k] = IF k <= Len(a) THEN a[k] ELSE b[k - Len(a)]
    BY <2>1, <2>2, ConcatProperties
  <2>5. Len(new) = Len(e) - 1 BY <1>1, <1>2, <2>1, <2>2, <2>3, <2>4
  <2>6. ASSUME NEW k \in 1 .. Len(new) PROVE new[k] = IF k < i THEN e[k] ELSE e[k + 1]
    <3>1. k \in 1 .. Len(a) + Len(b) BY <1>1, <1>2, <2>1, <2>2, <2>5
    <3>2. new[k] = IF k <= i - 1 THEN a[k] ELSE b[k - (i - 1)] BY <2>1, <2>3, <2>4, <3>1
    <3>3. CASE k < i BY <1>1, <1>2, <2>1, <2>5, <3>2, <3>3
    <3>4. CASE ~(k < i)
      <4>1. k - (i - 1) \in 1 .. Len(e) - i BY <1>1, <1>2, <2>5, <3>4
      <4>2. b[k - (i - 1)] = e[(k - (i - 1)) + i] BY <2>2, <4>1
      <4>3. (k - (i - 1)) + i = k + 1 BY <1>1, <1>2, <2>5
      <4> QED BY <1>1, <1>2, <2>5, <3>2, <3>4, <4>2, <4>3
    <3> QED BY <3>3, <3>4
  <2> QED BY <2>3, <2>4, <2>5, <2>6
<1> HIDE DEF new
<1>6. known'.entries = new /\ known'.last # s /\ known'.last \in Networks
  BY <1>1, <1>4, KnownAssumption DEF Networks
<1>7. known' \in [entries : Seq(Credentials), last : Networks] /\ Len(known'.entries) <= KnownMax
  <2>1. KnownMax \in Nat BY KnownAssumption
  <2>2. known'.entries \in Seq(Credentials) /\ known' = [entries |-> new, last |-> known'.last] BY <1>4, <1>5, <1>6
  <2> QED BY <1>1, <1>5, <1>6, <2>1, <2>2
<1>8. \A k \in 1 .. Len(new) : \E l \in 1 .. Len(e) : l # i /\ new[k] = e[l] /\ l = IF k < i THEN k ELSE k + 1
  BY <1>1, <1>2, <1>5
<1>9. OneEntryEach'
  <2>1. SUFFICES ASSUME NEW k \in 1 .. Len(new), NEW l \in 1 .. Len(new), new[k].ssid = new[l].ssid PROVE k = l
    BY <1>6 DEF OneEntryEach
  <2>2. (IF k < i THEN k ELSE k + 1) = (IF l < i THEN l ELSE l + 1) BY <1>3, <1>8, <2>1
  <2> QED BY <1>1, <1>2, <1>5, <2>2
<1>10. ~Has(s)'
  <2>1. \A k \in 1 .. Len(new) : new[k].ssid # s BY <1>2, <1>3, <1>8
  <2> QED BY <1>6, <2>1 DEF Has, Entry
<1> QED BY <1>6, <1>7, <1>9, <1>10

----------------------------------------------------------------------------
(* The driver and its events. *)

LEMMA KnownParts ==
    ASSUME KnownTyped
    PROVE  /\ haveIp \in BOOLEAN /\ want \in BOOLEAN /\ timer \in BOOLEAN /\ fire \in BOOLEAN
           /\ refused \in BOOLEAN /\ late \in BOOLEAN /\ crossed \in BOOLEAN
           /\ evt.pc \in {"idle", "act", "stop"} /\ evt.retry \in BOOLEAN /\ evt.keep \in BOOLEAN
           /\ join.ssid \in Networks /\ join.pass \in Passes /\ join.commit \in BOOLEAN
           /\ cfg.ssid \in Networks /\ cfg.opens \in BOOLEAN /\ peer.ssid \in Networks
           /\ Len(events) \in Nat
  BY DEF KnownTyped, EvtRecord, JoinRecord, Configs, Networks

\* What a board that has just started has, and what a task that does nothing is
LEMMA Blanks ==
    /\ NoSsid \in Networks /\ NoSsid \notin Ssids /\ Ssids \subseteq Networks
    /\ NoJoin \in JoinRecord /\ NoJoin.ssid = NoSsid
    /\ NoCfg \in Configs /\ NoCfg.ssid = NoSsid
    /\ Decided \in EvtRecord /\ Decided.pc = "idle" /\ ~Decided.retry /\ ~Decided.keep
    /\ Idle \in CallRecord /\ Idle.pc = "idle" /\ Idle.op = "none" /\ CallOK(Idle)
    /\ Empty \in Passes /\ Right \in Passes
  BY KnownAssumption DEF Networks, NoJoin, JoinRecord, NoCfg, Configs, Decided, EvtRecord, Idle, CallRecord, CallOK

LEMMA JoiningIs == Coherent /\ joining => join.ssid # NoSsid
  BY DEF Coherent, joining

\* An event is posted at the end
LEMMA Posted ==
    ASSUME KnownTyped, Coherent, link # "down", NEW what \in {"gotIp", "lost"},
           NEW why \in {"none", "leave", "auth", "absent"}, NEW q, q = Post(what, why)
    PROVE  /\ q \in Seq(EventRecord) /\ Len(q) = Len(events) + 1
           /\ \A i \in 1 .. Len(events) : q[i] = events[i]
           /\ q[Len(events) + 1] = [what |-> what, ssid |-> peer.ssid, why |-> why]
<1>1. peer.ssid \in Ssids BY DEF Coherent
<1>2. [what |-> what, ssid |-> peer.ssid, why |-> why] \in EventRecord BY <1>1 DEF EventRecord
<1>3. events \in Seq(EventRecord) BY DEF KnownTyped
<1> QED BY <1>2, <1>3, AppendProperties DEF Post

\* The first event is taken
LEMMA Taken ==
    ASSUME KnownTyped, NEW what, Event(what)
    PROVE  /\ evt.pc = "idle" /\ Len(events) \in Nat \ {0} /\ events[1].what = what /\ Head(events) = events[1]
           /\ events[1] \in EventRecord
           /\ events' \in Seq(EventRecord) /\ Len(events') = Len(events) - 1
           /\ \A i \in 1 .. Len(events) - 1 : events'[i] = events[i + 1]
<1>1. events \in Seq(EventRecord) /\ events # << >> BY DEF KnownTyped, Event
<1>2. Len(events) \in Nat \ {0} /\ Head(events) = events[1] BY <1>1
<1> QED BY <1>1, <1>2, HeadTailProperties DEF Event

\* esp_wifi_connect() only ever brings up what is down, and then what the driver is configured for
LEMMA Connects ==
    ASSUME KnownTyped, Coherent, Connect
    PROVE  /\ UNCHANGED <<cfg, events>> /\ peer' \in Configs /\ link' \in {"down", "connecting", "up"}
           /\ link # "down" => UNCHANGED <<link, peer>>
           /\ link = "down" /\ cfg.ssid # NoSsid => link' = "connecting" /\ peer' = cfg
           /\ cfg.ssid = NoSsid => UNCHANGED <<link, peer>>
           /\ link' # "down" => peer'.ssid \in Ssids
<1>1. cfg \in Configs /\ cfg.ssid \in Networks BY KnownParts DEF KnownTyped
<1>2. cfg.ssid # NoSsid => cfg.ssid \in Ssids BY <1>1 DEF Networks
<1> QED BY <1>1, <1>2 DEF Connect, KnownTyped, Coherent

\* What the loss of a link tells, and what it leaves of the events before
LEMMA LossPosted ==
    ASSUME KnownTyped, Coherent, LossIsTold, link # "down", NEW why \in {"leave", "auth", "absent"},
           events' = Post("lost", why), link' = "down", UNCHANGED <<haveIp, evt>>
    PROVE  events' \in Seq(EventRecord) /\ LossIsTold' /\ LostIn(1)'
           /\ (why # "leave" /\ peer.ssid = join.ssid /\ join' = join => OursLost')
<1>1. /\ events' \in Seq(EventRecord) /\ Len(events') = Len(events) + 1
      /\ \A i \in 1 .. Len(events) : events'[i] = events[i]
      /\ events'[Len(events) + 1] = [what |-> "lost", ssid |-> peer.ssid, why |-> why]
  BY Posted
<1>2. Len(events) \in Nat BY KnownParts
<1> DEFINE n == Len(events) + 1
<1>3. n \in 1 .. Len(events') /\ events'[n].what = "lost" /\ events'[n].ssid = peer.ssid /\ events'[n].why = why
  BY <1>1, <1>2
<1>4. LostIn(1)' BY <1>3 DEF LostIn
<1>5. ASSUME NEW i \in 1 .. Len(events'), events'[i].what = "gotIp" PROVE LostIn(i + 1)'
  <2>1. i # n BY <1>3, <1>5
  <2>2. n \in i + 1 .. Len(events') BY <1>1, <1>2, <2>1
  <2> QED BY <1>3, <2>2 DEF LostIn
<1>6. why # "leave" /\ peer.ssid = join.ssid /\ join' = join => OursLost'
  BY <1>3 DEF OursLost, Ours
<1> QED BY <1>1, <1>4, <1>5, <1>6 DEF LossIsTold

\* Taking an event loses none of the others
LEMMA StillLost ==
    ASSUME KnownTyped, NEW what, Event(what)
    PROVE  /\ \A f \in 1 .. Len(events) : LostIn(f + 1) => LostIn(f)'
           /\ what # "lost" /\ LostIn(1) => LostIn(1)'
           /\ (what # "lost" \/ ~Ours(events[1])) /\ OursLost =>
                \E j \in 1 .. Len(events') : events'[j].what = "lost" /\ Ours(events'[j])
<1>1. /\ Len(events) \in Nat \ {0} /\ events[1].what = what /\ Len(events') = Len(events) - 1
      /\ \A i \in 1 .. Len(events) - 1 : events'[i] = events[i + 1]
  BY Taken
<1>2. \A j \in 2 .. Len(events) : j - 1 \in 1 .. Len(events') /\ events'[j - 1] = events[j] BY <1>1
<1>3. ASSUME NEW f \in 1 .. Len(events), LostIn(f + 1) PROVE LostIn(f)'
  <2>1. PICK j \in f + 1 .. Len(events) : events[j].what = "lost" BY <1>3 DEF LostIn
  <2>2. j \in 2 .. Len(events) /\ j - 1 \in f .. Len(events') BY <1>1, <2>1
  <2> QED BY <1>2, <2>1, <2>2 DEF LostIn
<1>4. ASSUME what # "lost", LostIn(1) PROVE LostIn(1)'
  <2>1. PICK j \in 1 .. Len(events) : events[j].what = "lost" BY <1>4 DEF LostIn
  <2>2. j \in 2 .. Len(events) BY <1>1, <1>4, <2>1
  <2> QED BY <1>2, <2>1, <2>2 DEF LostIn
<1>5. ASSUME what # "lost" \/ ~Ours(events[1]), OursLost
      PROVE  \E j \in 1 .. Len(events') : events'[j].what = "lost" /\ Ours(events'[j])
  <2>1. PICK j \in 1 .. Len(events) : events[j].what = "lost" /\ Ours(events[j]) BY <1>5 DEF OursLost
  <2>2. j \in 2 .. Len(events) BY <1>1, <1>5, <2>1
  <2> QED BY <1>2, <2>1, <2>2
<1> QED BY <1>3, <1>4, <1>5

\* An answer or a loss taken: the losses of the link that are still to be heard are
LEMMA Hears ==
    ASSUME KnownTyped, LossIsTold, NEW what, Event(what), UNCHANGED link,
           haveIp' \/ evt'.pc = "stop" => what = "gotIp"
    PROVE  LossIsTold'
<1>1. /\ Len(events) \in Nat \ {0} /\ events[1].what = what /\ Len(events') = Len(events) - 1
      /\ \A i \in 1 .. Len(events) - 1 : events'[i] = events[i + 1]
  BY Taken
<1>2. ASSUME NEW i \in 1 .. Len(events'), events'[i].what = "gotIp" PROVE link' = "up" \/ LostIn(i + 1)'
  <2>1. i + 1 \in 1 .. Len(events) /\ events[i + 1].what = "gotIp" BY <1>1, <1>2
  <2>2. link = "up" \/ LostIn((i + 1) + 1) BY <2>1 DEF LossIsTold
  <2> QED BY <2>1, <2>2, StillLost
<1>3. ASSUME what = "gotIp" PROVE link' = "up" \/ LostIn(1)'
  <2>1. 1 \in 1 .. Len(events) /\ events[1].what = "gotIp" BY <1>1, <1>3
  <2>2. link = "up" \/ LostIn(1 + 1) BY <2>1 DEF LossIsTold
  <2> QED BY <2>1, <2>2, StillLost
<1> QED BY <1>2, <1>3 DEF LossIsTold

----------------------------------------------------------------------------
(* Each step of the driver and of the event task keeps the invariant. *)

LEMMA AssociateSteps ==
    ASSUME KnownIInv, Associate, UNCHANGED <<known, join, state, timer, tasks, cfg, past>>
    PROVE  KnownIInv'
<1>1. KnownTyped /\ Coherent BY DEF KnownIInv
<1>2. /\ link = "connecting" /\ link' = "up" /\ peer' = peer /\ events' = Post("gotIp", "none")
      /\ UNCHANGED <<known, join, haveIp, want, retries, timer, call, evt, fire, cfg, forgotten, refused, late, crossed>>
  BY DEF Associate, state, tasks, past
<1>3. /\ events' \in Seq(EventRecord) /\ Len(events') = Len(events) + 1
      /\ \A i \in 1 .. Len(events) : events'[i] = events[i]
  BY <1>1, <1>2, Posted
<1>4. Len(events) \in Nat BY <1>1, KnownParts
<1>5. KnownTyped' BY <1>1, <1>2, <1>3 DEF KnownTyped
<1>6. Coherent' BY <1>1, <1>2 DEF Coherent
<1>7. OneEntryEach' /\ Erased' BY <1>2 DEF KnownIInv, OneEntryEach, Erased, Has, Entry
<1>8. LossIsTold' BY <1>2 DEF LossIsTold
<1>9. InTurn' BY <1>2 DEF KnownIInv, InTurn, Joiner, Leaver, joining
<1>10. JoinHeld' BY <1>2 DEF KnownIInv, JoinHeld, Joiner, joining
<1>11. Pursued' BY <1>2 DEF Pursued
<1>12. LetGo' BY <1>2 DEF KnownIInv, LetGo, Joiner, Leaver
<1> QED BY <1>5, <1>6, <1>7, <1>8, <1>9, <1>10, <1>11, <1>12 DEF KnownIInv

LEMMA DropSteps ==
    ASSUME KnownIInv, LoseLink \/ \E why \in {"auth", "absent"} : Fail(why),
           UNCHANGED <<known, join, state, timer, tasks, cfg, past>>
    PROVE  KnownIInv'
<1>1. KnownTyped /\ Coherent /\ LossIsTold BY DEF KnownIInv
<1>2. /\ link # "down" /\ link' = "down" /\ peer' = NoCfg
      /\ UNCHANGED <<known, join, haveIp, want, retries, timer, call, evt, fire, cfg, forgotten, refused, late, crossed>>
  BY DEF LoseLink, Fail, state, tasks, past
<1>3. PICK why \in {"auth", "absent"} : events' = Post("lost", why) BY DEF LoseLink, Fail
<1>4. /\ events' \in Seq(EventRecord) /\ LossIsTold' /\ LostIn(1)'
      /\ (peer.ssid = join.ssid => OursLost')
  BY <1>1, <1>2, <1>3, LossPosted
<1>5. KnownTyped' BY <1>1, <1>2, <1>4, Blanks DEF KnownTyped
<1>6. Coherent' BY <1>1, <1>2 DEF Coherent
<1>7. OneEntryEach' /\ Erased' BY <1>2 DEF KnownIInv, OneEntryEach, Erased, Has, Entry
<1>8. InTurn' BY <1>2 DEF KnownIInv, InTurn, Joiner, Leaver, joining
<1>9. JoinHeld' BY <1>2, <1>4 DEF KnownIInv, JoinHeld, Joiner, joining
<1>10. Pursued' BY <1>4 DEF Pursued, Chased
<1>11. LetGo' BY <1>2 DEF KnownIInv, LetGo, Joiner
<1> QED BY <1>4, <1>5, <1>6, <1>7, <1>8, <1>9, <1>10, <1>11 DEF KnownIInv

\* What is decided is typed, and to keep trying is to be wanted
LEMMA Decides ==
    ASSUME KnownTyped, NEW w \in BOOLEAN, Decide(w)
    PROVE  /\ evt' \in EvtRecord /\ evt'.pc = "act" /\ (evt'.keep <=> w) /\ (evt'.retry => evt'.keep)
           /\ retries' \in 0 .. FastRetries
<1> DEFINE now == w /\ retries < FastRetries
<1>1. retries \in 0 .. FastRetries /\ FastRetries \in Nat BY KnownAssumption DEF KnownTyped
<1>2. now \in BOOLEAN /\ evt' = [pc |-> "act", retry |-> now, keep |-> w] /\ (now => w) BY DEF Decide
<1>3. retries' \in 0 .. FastRetries BY <1>1 DEF Decide
<1> HIDE DEF now
<1> QED BY <1>2, <1>3 DEF EvtRecord

LEMMA LinkLostSteps == ASSUME KnownIInv, LinkLost PROVE KnownIInv'
<1>1. KnownTyped /\ Coherent /\ LossIsTold /\ want \in BOOLEAN BY KnownParts DEF KnownIInv
<1>2. /\ Event("lost") /\ ~joining /\ ~haveIp' /\ haveIp' \in BOOLEAN /\ Decide(want)
      /\ UNCHANGED <<known, join, want, timer, call, fire, cfg, link, peer, forgotten, refused, late, crossed>>
  BY DEF LinkLost, past
<1>3. /\ evt' \in EvtRecord /\ evt'.pc = "act" /\ (evt'.keep <=> want) /\ (evt'.retry => evt'.keep)
      /\ retries' \in 0 .. FastRetries
  BY <1>1, <1>2, Decides
<1>4. events' \in Seq(EventRecord) BY <1>1, <1>2, Taken
<1>5. KnownTyped' BY <1>1, <1>2, <1>3, <1>4 DEF KnownTyped
<1>6. Coherent' BY <1>1, <1>2, <1>3 DEF Coherent
<1>7. OneEntryEach' /\ Erased' BY <1>2 DEF KnownIInv, OneEntryEach, Erased, Has, Entry
<1>8. LossIsTold' BY <1>1, <1>2, <1>3, Hears
<1>9. InTurn' BY <1>2 DEF KnownIInv, InTurn, Joiner, Leaver, joining
<1>10. JoinHeld' BY <1>2 DEF JoinHeld, joining
<1>11. Pursued' BY <1>2, <1>3 DEF Pursued, Chased
<1>12. LetGo' BY <1>2, <1>3 DEF KnownIInv, LetGo, Joiner, Leaver
<1> QED BY <1>5, <1>6, <1>7, <1>8, <1>9, <1>10, <1>11, <1>12 DEF KnownIInv

LEMMA JoinLostSteps == ASSUME KnownIInv, JoinLost PROVE KnownIInv'
<1> DEFINE e == Head(events)
           auth == e.why = "auth"
           wanted == want /\ ~(auth /\ join.commit)
<1>1. KnownTyped /\ Coherent /\ LossIsTold /\ want \in BOOLEAN /\ join.commit \in BOOLEAN /\ join.ssid \in Networks
      /\ join.pass \in Passes /\ crossed \in BOOLEAN
  BY KnownParts DEF KnownIInv
<1>2. /\ Event("lost") /\ joining /\ ~haveIp' /\ haveIp' \in BOOLEAN
      /\ (late' <=> (late \/ (want /\ ~want' /\ (Pending \/ link # "down")))) /\ late' \in BOOLEAN
      /\ UNCHANGED <<timer, call, fire, cfg, link, peer, forgotten, refused>>
  BY KnownParts, <1>1 DEF JoinLost
<1>3. /\ evt.pc = "idle" /\ ~evt.keep /\ events' \in Seq(EventRecord) /\ e = events[1] BY <1>1, <1>2, Taken DEF Coherent
<1>4. join.ssid # NoSsid /\ join.ssid \in Ssids BY <1>1, <1>2, JoiningIs DEF Networks
<1>5. CASE ~Ours(e)
  <2>1. UNCHANGED <<join, want, known, retries, evt, crossed>> BY <1>5 DEF JoinLost
  <2>2. late' <=> late BY <1>2, <2>1
  <2>3. KnownTyped' BY <1>1, <1>2, <1>3, <2>1 DEF KnownTyped
  <2>4. Coherent' BY <1>1, <1>2, <2>1 DEF Coherent
  <2>5. OneEntryEach' /\ Erased' BY <1>2, <2>1 DEF KnownIInv, OneEntryEach, Erased, Has, Entry
  <2>6. LossIsTold' BY <1>1, <1>2, <1>3, <2>1, Hears
  <2>7. InTurn' BY <1>2, <2>1, <2>2 DEF KnownIInv, InTurn, Joiner, Leaver, joining
  <2>8. OursLost => OursLost' BY <1>1, <1>2, <1>3, <1>5, <2>1, StillLost DEF OursLost, Ours
  <2>9. JoinHeld' BY <1>2, <2>1, <2>2, <2>8 DEF KnownIInv, JoinHeld, Joiner, joining
  <2>10. Pursued' BY <1>2, <2>1 DEF Pursued, joining
  <2>11. LetGo' BY <1>2, <2>1, <2>2 DEF KnownIInv, LetGo, Joiner, Leaver
  <2> QED BY <2>3, <2>4, <2>5, <2>6, <2>7, <2>9, <2>10, <2>11 DEF KnownIInv
<1>6. CASE Ours(e)
  <2>1. /\ join' = NoJoin /\ want' = wanted /\ Decide(wanted) /\ wanted \in BOOLEAN
        /\ IF Saves(auth) THEN Put(join.ssid, join.pass, TRUE) ELSE UNCHANGED known
        /\ (crossed' <=> (crossed \/ (join.commit /\ ~auth /\ Forgetting(join.ssid)))) /\ crossed' \in BOOLEAN
    BY <1>1, <1>6 DEF JoinLost
  <2>2. ~joining' /\ join'.ssid = NoSsid /\ join' \in JoinRecord BY <2>1, Blanks DEF joining
  <2>3. /\ evt' \in EvtRecord /\ evt'.pc = "act" /\ (evt'.keep <=> wanted) /\ (evt'.retry => evt'.keep)
        /\ retries' \in 0 .. FastRetries
    BY <1>1, <2>1, Decides
  <2>4. /\ known' \in [entries : Seq(Credentials), last : Networks] /\ Len(known'.entries) <= KnownMax
        /\ OneEntryEach'
        /\ \A f \in Ssids \ {join.ssid} : ~Has(f) => ~Has(f)'
        /\ known'.last \in {join.ssid, known.last}
        /\ ~Saves(auth) => known' = known
    <3>1. CASE Saves(auth) BY <1>1, <1>4, <2>1, <3>1, Puts DEF KnownIInv
    <3>2. CASE ~Saves(auth) BY <1>1, <2>1, <3>2 DEF KnownIInv, KnownTyped, OneEntryEach, Has, Entry
    <3> QED BY <3>1, <3>2
  <2>5. KnownTyped' BY <1>1, <1>2, <1>3, <2>1, <2>2, <2>3, <2>4 DEF KnownTyped
  <2>6. Coherent' BY <1>1, <1>2, <2>1, <2>3 DEF Coherent
  <2>7. LossIsTold' BY <1>1, <1>2, <2>3, Hears
  <2>8. want' => want BY <2>1
  <2>9. InTurn' BY <1>2, <2>2, <2>8 DEF KnownIInv, InTurn, Joiner, Leaver
  <2>10. JoinHeld' BY <2>2 DEF JoinHeld
  <2>11. Pursued' BY <2>1, <2>3 DEF Pursued, Chased
  <2>12. LetGo'
    <3>1. SUFFICES ASSUME ~want', ~late' PROVE LetGo' BY DEF LetGo
    <3>2. ~late /\ (want => ~Pending /\ link = "down") BY <1>2, <3>1
    <3>3. CASE want
      <4>1. ~fire /\ \A c \in Callers : call[c].op # "join" /\ call[c].pc # "on"
        BY <3>2, <3>3 DEF Pending, Calling
      <4> QED BY <1>2, <2>1, <2>3, <3>1, <3>2, <3>3, <4>1 DEF LetGo, Joiner
    <3>4. CASE ~want BY <1>2, <2>1, <2>3, <3>1, <3>2, <3>4 DEF KnownIInv, LetGo, Joiner, Leaver
    <3> QED BY <3>3, <3>4
  <2>13. Erased'
    <3>1. SUFFICES ASSUME ~crossed', forgotten # NoSsid PROVE ~Has(forgotten)' /\ known'.last # forgotten
      BY <1>2, <2>2 DEF Erased
    <3>2. ~crossed /\ (join.commit /\ ~auth => ~Forgetting(join.ssid)) BY <2>1, <3>1
    <3>3. /\ ~Has(forgotten) /\ known.last # forgotten /\ forgotten \in Ssids
          /\ join.ssid = forgotten => Forgetting(join.ssid)
      BY <1>1, <3>1, <3>2 DEF KnownIInv, Erased, Forgetting, KnownTyped, Networks
    <3>4. CASE Saves(auth)
      <4>1. join.ssid # forgotten BY <3>2, <3>3, <3>4 DEF Saves
      <4> QED BY <1>2, <2>4, <3>3, <4>1
    <3>5. CASE ~Saves(auth) BY <1>2, <2>4, <3>3, <3>5 DEF Has, Entry
    <3> QED BY <3>4, <3>5
  <2> QED BY <2>4, <2>5, <2>6, <2>7, <2>9, <2>10, <2>11, <2>12, <2>13 DEF KnownIInv
<1> QED BY <1>5, <1>6

LEMMA GotIpSteps == ASSUME KnownIInv, GotIp PROVE KnownIInv'
<1>1. KnownTyped /\ Coherent /\ LossIsTold /\ join.commit \in BOOLEAN /\ join.ssid \in Networks
      /\ join.pass \in Passes /\ crossed \in BOOLEAN
  BY KnownParts DEF KnownIInv
<1>2. /\ Event("gotIp") /\ haveIp' /\ haveIp' \in BOOLEAN /\ retries' = 0 /\ join' = NoJoin
      /\ evt' = [Decided EXCEPT !.pc = "stop"]
      /\ IF joining
         THEN /\ IF join.commit THEN Put(join.ssid, join.pass, TRUE)
                 ELSE known' = [known EXCEPT !.last = join.ssid]
              /\ (crossed' <=> (crossed \/ Forgetting(join.ssid) \/ Head(events).ssid # join.ssid \/ join.pass # Right))
              /\ crossed' \in BOOLEAN
         ELSE UNCHANGED <<known, crossed>>
      /\ UNCHANGED <<want, timer, call, fire, cfg, link, peer, forgotten, refused, late>>
  BY <1>1 DEF GotIp
<1>3. evt' \in EvtRecord /\ evt'.pc = "stop" /\ ~evt'.retry /\ ~evt'.keep
  BY <1>2 DEF Decided, EvtRecord
<1>4. ~joining' /\ join'.ssid = NoSsid /\ join' \in JoinRecord BY <1>2, Blanks DEF joining
<1>5. evt.pc = "idle" /\ ~evt.keep /\ events' \in Seq(EventRecord) BY <1>1, <1>2, Taken DEF Coherent
<1>6. joining => join.ssid \in Ssids BY <1>1, JoiningIs DEF Networks
<1>7. /\ known' \in [entries : Seq(Credentials), last : Networks] /\ Len(known'.entries) <= KnownMax
      /\ OneEntryEach'
      /\ \A f \in Ssids \ {join.ssid} : ~Has(f) => ~Has(f)'
      /\ known'.last \in {join.ssid, known.last}
      /\ ~joining => known' = known
  <2>1. CASE joining /\ join.commit BY <1>1, <1>2, <1>6, <2>1, Puts DEF KnownIInv
  <2>2. CASE joining /\ ~join.commit
    <3>1. known' = [known EXCEPT !.last = join.ssid] BY <1>2, <2>2
    <3>2. known'.entries = known.entries /\ known'.last = join.ssid
          /\ known' \in [entries : Seq(Credentials), last : Networks]
      BY <1>1, <3>1 DEF KnownTyped
    <3> QED BY <1>1, <2>2, <3>2 DEF KnownIInv, KnownTyped, OneEntryEach, Has, Entry
  <2>3. CASE ~joining BY <1>1, <1>2, <2>3 DEF KnownIInv, KnownTyped, OneEntryEach, Has, Entry
  <2> QED BY <2>1, <2>2, <2>3
<1>8. crossed' \in BOOLEAN /\ ((joining /\ Forgetting(join.ssid)) \/ crossed => crossed') BY <1>1, <1>2
<1>9. 0 \in 0 .. FastRetries BY KnownAssumption
<1>10. KnownTyped' BY <1>1, <1>2, <1>3, <1>4, <1>5, <1>7, <1>8, <1>9 DEF KnownTyped
<1>11. Coherent' BY <1>1, <1>2, <1>3 DEF Coherent
<1>12. LossIsTold' BY <1>1, <1>2, Hears
<1>13. InTurn' BY <1>2, <1>4 DEF KnownIInv, InTurn, Joiner, Leaver
<1>14. JoinHeld' BY <1>4 DEF JoinHeld
<1>15. Pursued'
  <2>1. SUFFICES ASSUME want, ~refused, ~late, cfg.ssid # NoSsid, link = "down" PROVE Chased'
    BY <1>2 DEF Pursued
  <2>2. LostIn(1) => LostIn(1)' BY <1>1, <1>2, StillLost
  <2>3. CASE ~joining
    <3>1. Chased BY <2>1, <2>3 DEF KnownIInv, Pursued
    <3> QED BY <1>2, <1>5, <2>2, <3>1 DEF Chased, Joiner
  <2>4. CASE joining
    <3>1. OursLost => LostIn(1) BY DEF OursLost, LostIn
    <3>2. OursLost \/ \E c \in Callers : Joiner(c) BY <2>1, <2>4 DEF KnownIInv, JoinHeld
    <3>3. \A c \in Callers : call[c].pc # "failed" BY <2>1 DEF KnownIInv, InTurn
    <3> QED BY <1>2, <2>2, <3>1, <3>2, <3>3 DEF Chased, Joiner
  <2> QED BY <2>3, <2>4
<1>16. LetGo' BY <1>2, <1>3 DEF KnownIInv, LetGo, Joiner, Leaver
<1>17. Erased'
  <2>1. SUFFICES ASSUME ~crossed', forgotten # NoSsid PROVE ~Has(forgotten)' /\ known'.last # forgotten
    BY <1>2, <1>4 DEF Erased
  <2>2. ~crossed /\ (joining => ~Forgetting(join.ssid)) BY <1>8, <2>1
  <2>3. /\ ~Has(forgotten) /\ known.last # forgotten /\ forgotten \in Ssids
        /\ join.ssid = forgotten => Forgetting(join.ssid)
    BY <1>1, <2>1, <2>2 DEF KnownIInv, Erased, Forgetting, KnownTyped, Networks
  <2>4. CASE joining BY <1>2, <1>7, <2>2, <2>3, <2>4
  <2>5. CASE ~joining BY <1>2, <1>7, <2>3, <2>5 DEF Has, Entry
  <2> QED BY <2>4, <2>5
<1> QED BY <1>7, <1>10, <1>11, <1>12, <1>13, <1>14, <1>15, <1>16, <1>17 DEF KnownIInv

LEMMA ActSteps == ASSUME KnownIInv, Act PROVE KnownIInv'
<1>1. KnownTyped /\ Coherent /\ LossIsTold /\ timer \in BOOLEAN /\ evt.keep \in BOOLEAN /\ evt.retry \in BOOLEAN
  BY KnownParts DEF KnownIInv
<1>2. /\ evt.pc = "act" /\ evt' = Decided
      /\ (timer' <=> (timer \/ (evt.keep /\ ~evt.retry))) /\ timer' \in BOOLEAN
      /\ UNCHANGED <<known, join, haveIp, want, retries, call, fire, forgotten, refused, late, crossed>>
  BY <1>1 DEF Act, state, past
<1>3. evt' \in EvtRecord /\ evt'.pc = "idle" /\ ~evt'.retry /\ ~evt'.keep BY <1>2, Blanks
<1>4. /\ UNCHANGED <<cfg, events>> /\ peer' \in Configs /\ link' \in {"down", "connecting", "up"}
      /\ link # "down" => UNCHANGED <<link, peer>>
      /\ evt.retry /\ link = "down" /\ cfg.ssid # NoSsid => link' # "down"
      /\ link' # "down" => peer'.ssid \in Ssids
      /\ ~evt.retry => UNCHANGED <<link, peer>>
  <2>1. CASE evt.retry BY <1>1, <2>1, Connects DEF Act
  <2>2. CASE ~evt.retry BY <1>1, <2>2 DEF Act, radio, KnownTyped, Coherent
  <2> QED BY <2>1, <2>2
<1>5. KnownTyped' BY <1>1, <1>2, <1>3, <1>4 DEF KnownTyped
<1>6. Coherent' BY <1>1, <1>2, <1>3, <1>4 DEF Coherent
<1>7. OneEntryEach' /\ Erased' BY <1>2 DEF KnownIInv, OneEntryEach, Erased, Has, Entry
<1>8. LossIsTold' BY <1>1, <1>2, <1>3, <1>4 DEF LossIsTold, LostIn
<1>9. InTurn' BY <1>2 DEF KnownIInv, InTurn, Joiner, Leaver, joining
<1>10. JoinHeld'
  <2>1. SUFFICES ASSUME ~late', joining' PROVE JoinHeld' BY DEF JoinHeld
  <2>2. ~evt.keep /\ ~evt.retry BY <1>1, <1>2, <2>1 DEF KnownIInv, JoinHeld, joining, Coherent
  <2>3. UNCHANGED <<link, peer>> BY <1>4, <2>2
  <2> QED BY <1>2, <1>3, <1>4, <2>1, <2>3 DEF KnownIInv, JoinHeld, Joiner, joining, OursLost, Ours
<1>11. Pursued'
  <2>1. SUFFICES ASSUME want, ~refused, ~late, ~joining, cfg.ssid # NoSsid, link' = "down" PROVE Chased'
    BY <1>2, <1>4 DEF Pursued, joining
  <2>2. link = "down" /\ ~evt.retry BY <1>4, <2>1
  <2>3. Chased BY <2>1, <2>2 DEF KnownIInv, Pursued
  <2> QED BY <1>2, <1>4, <2>2, <2>3 DEF Chased, LostIn, Joiner
<1>12. LetGo'
  <2>1. SUFFICES ASSUME ~want, ~late PROVE LetGo' BY <1>2 DEF LetGo
  <2>2. ~evt.keep /\ ~evt.retry BY <1>1, <2>1 DEF KnownIInv, LetGo, Coherent
  <2> QED BY <1>2, <1>3, <1>4, <2>1, <2>2 DEF KnownIInv, LetGo, Joiner, Leaver
<1> QED BY <1>5, <1>6, <1>7, <1>8, <1>9, <1>10, <1>11, <1>12 DEF KnownIInv

LEMMA StopTimerSteps == ASSUME KnownIInv, StopTimer PROVE KnownIInv'
<1>1. KnownTyped /\ Coherent /\ LossIsTold BY DEF KnownIInv
<1>2. /\ evt.pc = "stop" /\ evt' = Decided /\ ~timer' /\ timer' \in BOOLEAN
      /\ UNCHANGED <<known, join, haveIp, want, retries, call, fire, cfg, link, peer, events, forgotten, refused, late, crossed>>
  BY DEF StopTimer, state, radio, past
<1>3. evt' \in EvtRecord /\ evt'.pc = "idle" /\ ~evt'.retry /\ ~evt'.keep BY <1>2, Blanks
<1>4. KnownTyped' BY <1>1, <1>2, <1>3 DEF KnownTyped
<1>5. Coherent' BY <1>1, <1>2, <1>3 DEF Coherent
<1>6. OneEntryEach' /\ Erased' BY <1>2 DEF KnownIInv, OneEntryEach, Erased, Has, Entry
<1>7. LossIsTold' BY <1>1, <1>2, <1>3 DEF LossIsTold, LostIn
<1>8. InTurn' BY <1>2 DEF KnownIInv, InTurn, Joiner, Leaver, joining
<1>9. JoinHeld' BY <1>2, <1>3 DEF KnownIInv, JoinHeld, Joiner, joining, OursLost, Ours
<1>10. Pursued' BY <1>1, <1>2 DEF Pursued, Chased, LossIsTold, LostIn
<1>11. LetGo' BY <1>2, <1>3 DEF KnownIInv, LetGo, Joiner, Leaver
<1> QED BY <1>4, <1>5, <1>6, <1>7, <1>8, <1>9, <1>10, <1>11 DEF KnownIInv

LEMMA FireSteps == ASSUME KnownIInv, Fire PROVE KnownIInv'
<1>1. KnownTyped /\ Coherent /\ LossIsTold /\ want \in BOOLEAN /\ haveIp \in BOOLEAN /\ late \in BOOLEAN
  BY KnownParts DEF KnownIInv
<1>2. /\ ~timer' /\ timer' \in BOOLEAN /\ ~fire
      /\ (fire' <=> (want /\ ~haveIp)) /\ fire' \in BOOLEAN
      /\ (late' <=> (late \/ (fire' /\ joining))) /\ late' \in BOOLEAN
      /\ UNCHANGED <<known, join, haveIp, want, retries, call, evt, cfg, link, peer, events, forgotten, refused, crossed>>
  BY <1>1 DEF Fire, state, radio, joining
<1>3. KnownTyped' BY <1>1, <1>2 DEF KnownTyped
<1>4. Coherent' BY <1>1, <1>2 DEF Coherent
<1>5. OneEntryEach' /\ Erased' BY <1>2 DEF KnownIInv, OneEntryEach, Erased, Has, Entry
<1>6. LossIsTold' BY <1>1, <1>2 DEF LossIsTold, LostIn
<1>7. InTurn' BY <1>2 DEF KnownIInv, InTurn, Joiner, Leaver, joining
<1>8. JoinHeld' BY <1>2 DEF KnownIInv, JoinHeld, Joiner, joining, OursLost, Ours
<1>9. Pursued'
  <2>1. SUFFICES ASSUME want, link = "down" PROVE Chased' BY <1>2 DEF Pursued
  <2>2. CASE haveIp BY <1>1, <1>2, <2>1, <2>2 DEF LossIsTold, LostIn, Chased
  <2>3. CASE ~haveIp BY <1>2, <2>1, <2>3 DEF Chased
  <2> QED BY <2>2, <2>3
<1>10. LetGo' BY <1>2 DEF KnownIInv, LetGo, Joiner, Leaver
<1> QED BY <1>3, <1>4, <1>5, <1>6, <1>7, <1>8, <1>9, <1>10 DEF KnownIInv

LEMMA FireConnectSteps == ASSUME KnownIInv, FireConnect PROVE KnownIInv'
<1>1. KnownTyped /\ Coherent /\ LossIsTold BY DEF KnownIInv
<1>2. /\ fire /\ ~fire' /\ fire' \in BOOLEAN
      /\ UNCHANGED <<known, join, haveIp, want, retries, timer, call, evt, forgotten, refused, late, crossed>>
  BY DEF FireConnect, state, past
<1>3. /\ UNCHANGED <<cfg, events>> /\ peer' \in Configs /\ link' \in {"down", "connecting", "up"}
      /\ link # "down" => UNCHANGED <<link, peer>>
      /\ link = "down" /\ cfg.ssid # NoSsid => link' # "down"
      /\ link' # "down" => peer'.ssid \in Ssids
  BY <1>1, Connects DEF FireConnect
<1>4. KnownTyped' BY <1>1, <1>2, <1>3 DEF KnownTyped
<1>5. Coherent' BY <1>1, <1>2, <1>3 DEF Coherent
<1>6. OneEntryEach' /\ Erased' BY <1>2 DEF KnownIInv, OneEntryEach, Erased, Has, Entry
<1>7. LossIsTold' BY <1>1, <1>2, <1>3 DEF LossIsTold, LostIn
<1>8. InTurn' BY <1>2 DEF KnownIInv, InTurn, Joiner, Leaver, joining
<1>9. JoinHeld' BY <1>2 DEF KnownIInv, JoinHeld, joining
<1>10. Pursued' BY <1>3 DEF Pursued
<1>11. LetGo' BY <1>2 DEF KnownIInv, LetGo
<1> QED BY <1>4, <1>5, <1>6, <1>7, <1>8, <1>9, <1>10, <1>11 DEF KnownIInv

----------------------------------------------------------------------------
(* Each step of the API keeps it. *)

LEMMA CallIs ==
    ASSUME KnownTyped, NEW c \in Callers
    PROVE  call[c] \in CallRecord /\ call[c].ssid \in Networks /\ call[c].pass \in Passes
  BY DEF KnownTyped, CallRecord

\* A caller goes somewhere, with its arguments
LEMMA CallMoves ==
    ASSUME KnownTyped, NEW c \in Callers, NEW r \in CallRecord, call' = [call EXCEPT ![c] = r]
    PROVE  call' \in [Callers -> CallRecord] /\ call'[c] = r /\ \A d \in Callers \ {c} : call'[d] = call[d]
  BY DEF KnownTyped

LEMMA Goes ==
    ASSUME KnownTyped, NEW c \in Callers,
           NEW pc \in {"idle", "leave", "config", "connect", "failed", "uses", "on", "rejoin"}, Go(c, pc)
    PROVE  /\ call' \in [Callers -> CallRecord] /\ \A d \in Callers \ {c} : call'[d] = call[d]
           /\ call'[c].pc = pc /\ call'[c].op = call[c].op /\ call'[c].ssid = call[c].ssid
  BY DEF Go, KnownTyped, CallRecord

\* A caller has returned
LEMMA CallEnds ==
    ASSUME KnownTyped, NEW c \in Callers, Done(c)
    PROVE  /\ call' \in [Callers -> CallRecord] /\ \A d \in Callers \ {c} : call'[d] = call[d]
           /\ call'[c].pc = "idle" /\ call'[c].op = "none" /\ CallOK(call'[c])
  BY Blanks, CallMoves DEF Done

LEMMA JoinSteps ==
    ASSUME KnownIInv, NEW c \in Callers, call[c].pc \in {"idle", "rejoin"}, NEW s \in Ssids, NEW p \in Passes,
           Join(c, s, p)
    PROVE  KnownIInv'
<1> DEFINE recalled == p = Empty /\ Has(s)
           pass == IF recalled THEN PassOf(s) ELSE p
           r == [pc |-> "leave", op |-> "join", ssid |-> s, pass |-> pass]
<1>1. KnownTyped /\ Coherent /\ LossIsTold /\ late \in BOOLEAN BY KnownParts DEF KnownIInv
<1>2. pass \in Passes /\ s \in Networks /\ s # NoSsid BY <1>1, PassIs, Blanks
<1>3. /\ join' = [ssid |-> s, pass |-> pass, commit |-> ~recalled]
      /\ want' /\ want' \in BOOLEAN /\ retries' = 0
      /\ call' = [call EXCEPT ![c] = r]
      /\ forgotten' = IF forgotten = s THEN NoSsid ELSE forgotten
      /\ (late' <=> (late \/ Pending)) /\ late' \in BOOLEAN
      /\ UNCHANGED <<known, haveIp, timer, evt, fire, cfg, link, peer, events, refused, crossed>>
  BY <1>1 DEF Join, radio
<1> DEFINE commit == ~recalled
<1>4. commit \in BOOLEAN OBVIOUS
<1> HIDE DEF pass, commit
<1>5. r \in CallRecord /\ r.pc = "leave" /\ r.op = "join" /\ r.ssid = s BY <1>2 DEF CallRecord
<1>6. join' \in JoinRecord /\ join'.ssid = s BY <1>2, <1>3, <1>4 DEF JoinRecord, commit
<1> HIDE DEF r
<1>7. call' \in [Callers -> CallRecord] /\ call'[c] = r /\ \A d \in Callers \ {c} : call'[d] = call[d]
  BY <1>1, <1>3, <1>5, CallMoves
<1>8. forgotten' \in Networks BY <1>1, <1>3, Blanks DEF KnownTyped
<1>9. KnownTyped'
  <2>1. 0 \in 0 .. FastRetries BY KnownAssumption
  <2> QED BY <1>1, <1>3, <1>6, <1>7, <1>8, <2>1 DEF KnownTyped
<1>10. Coherent' BY <1>1, <1>2, <1>3, <1>5, <1>6, <1>7 DEF Coherent, CallOK
<1>11. OneEntryEach' BY <1>3 DEF KnownIInv, OneEntryEach
<1>12. LossIsTold' BY <1>1, <1>3 DEF LossIsTold, LostIn
<1>13. call[c].op = "none" BY <1>1 DEF Coherent, CallOK
<1>14. ~late' => ~late /\ ~fire /\ ~evt.keep /\ \A d \in Callers : call[d].op # "join" /\ call[d].pc \notin {"on", "leave"}
  BY <1>1, <1>3 DEF Pending, Calling, Coherent
<1>15. ~late' => \A d \in Callers \ {c} : call'[d].op # "join" /\ call'[d].pc \notin {"on", "leave"}
  BY <1>7, <1>14
<1>16. InTurn'
  <2>1. SUFFICES ASSUME ~late' PROVE InTurn' BY DEF InTurn
  <2>2. \A d \in Callers : Joiner(d)' => d = c BY <1>15, <2>1 DEF Joiner
  <2>3. \A d \in Callers : ~Leaver(d)' BY <1>5, <1>7, <1>15, <2>1 DEF Leaver
  <2>4. \A d \in Callers : call'[d].pc = "failed" => refused'
    BY <1>3, <1>5, <1>7, <1>14, <2>1 DEF KnownIInv, InTurn
  <2> QED BY <1>15, <2>1, <2>2, <2>3, <2>4 DEF InTurn
<1>17. JoinHeld'
  <2>1. SUFFICES ASSUME ~late' PROVE JoinHeld' BY DEF JoinHeld
  <2>2. Joiner(c)' BY <1>5, <1>7 DEF Joiner
  <2>3. \A d \in Callers : Joiner(d)' => d = c BY <1>15, <2>1 DEF Joiner
  <2> QED BY <1>3, <1>5, <1>6, <1>7, <1>14, <2>1, <2>2, <2>3 DEF JoinHeld
<1>18. Pursued' BY <1>5, <1>7 DEF Pursued, Chased, Joiner
<1>19. LetGo' BY <1>3 DEF LetGo
<1>20. Erased'
  <2>1. SUFFICES ASSUME ~crossed, forgotten' # NoSsid PROVE Erased' BY <1>3 DEF Erased
  <2>2. forgotten # s /\ forgotten' = forgotten BY <1>3, <2>1
  <2> QED BY <1>3, <1>6, <2>1, <2>2 DEF KnownIInv, Erased, Has, Entry
<1> QED BY <1>9, <1>10, <1>11, <1>12, <1>16, <1>17, <1>18, <1>19, <1>20 DEF KnownIInv

LEMMA LeaveSteps == ASSUME KnownIInv, NEW c \in Callers, Leave(c) PROVE KnownIInv'
<1>1. KnownTyped /\ Coherent /\ LossIsTold BY DEF KnownIInv
<1>2. /\ call[c].pc = "leave" /\ ~timer' /\ timer' \in BOOLEAN /\ Disconnect
      /\ UNCHANGED <<known, join, haveIp, want, retries, evt, fire, forgotten, refused, late, crossed>>
  BY DEF Leave, At, state, past
<1>3. /\ call' \in [Callers -> CallRecord] /\ \A d \in Callers \ {c} : call'[d] = call[d]
      /\ CallOK(call'[c]) /\ call'[c].pc \in {"idle", "config"}
      /\ Joiner(c) => call'[c].pc = "config" /\ call'[c].op = "join" /\ call'[c].ssid = call[c].ssid
      /\ ~Joiner(c) => call'[c].op # "join"
  <2>1. CASE call[c].op = "off" BY <1>1, <2>1, CallEnds DEF Leave, Joiner
  <2>2. CASE call[c].op # "off" BY <1>1, <1>2, <2>2, Goes DEF Leave, Joiner, CallOK, Coherent
  <2> QED BY <2>1, <2>2
<1>4. /\ link' = "down" /\ peer' = NoCfg /\ cfg' = cfg
      /\ link = "down" => events' = events
      /\ link # "down" => events' = Post("lost", "leave")
  BY <1>2 DEF Disconnect
<1>5. /\ events' \in Seq(EventRecord) /\ LossIsTold' /\ (link # "down" => LostIn(1)')
      /\ link = "down" => (LostIn(1) => LostIn(1)') /\ (OursLost => OursLost')
  <2>1. CASE link = "down" BY <1>1, <1>2, <1>4, <2>1 DEF KnownTyped, LossIsTold, LostIn, OursLost, Ours
  <2>2. CASE link # "down" BY <1>1, <1>2, <1>4, <2>2, LossPosted
  <2> QED BY <2>1, <2>2
<1>6. KnownTyped' BY <1>1, <1>2, <1>3, <1>4, <1>5, Blanks DEF KnownTyped
<1>7. Coherent' BY <1>1, <1>2, <1>3, <1>4 DEF Coherent
<1>8. OneEntryEach' BY <1>2 DEF KnownIInv, OneEntryEach
<1>9. InTurn' BY <1>2, <1>3 DEF KnownIInv, InTurn, Joiner, Leaver, joining
<1>10. JoinHeld'
  <2>1. SUFFICES ASSUME ~late', joining' PROVE JoinHeld' BY DEF JoinHeld
  <2>2. ~late /\ joining BY <1>2, <2>1 DEF joining
  <2>3. Joiner(c) BY <1>2, <2>2 DEF KnownIInv, InTurn, Leaver, Joiner
  <2>4. \A d \in Callers : Joiner(d)' => d = c BY <1>3, <2>2, <2>3 DEF KnownIInv, InTurn, Joiner
  <2>5. Joiner(c)' /\ call'[c].pc = "config" /\ call'[c].ssid = join.ssid
    BY <1>3, <2>2, <2>3 DEF Joiner, KnownIInv, JoinHeld
  <2> QED BY <1>2, <1>4, <2>2, <2>4, <2>5 DEF KnownIInv, JoinHeld
<1>11. Pursued'
  <2>1. SUFFICES ASSUME want, ~late PROVE Chased' BY <1>2 DEF Pursued
  <2>2. Joiner(c) BY <1>2, <2>1 DEF KnownIInv, InTurn, Leaver, Joiner
  <2> QED BY <1>3, <2>2 DEF Chased, Joiner
<1>12. LetGo' BY <1>2, <1>3, <1>4 DEF KnownIInv, LetGo, Joiner
<1>13. Erased' BY <1>2, <1>3 DEF KnownIInv, Erased, Has, Entry
<1> QED BY <1>5, <1>6, <1>7, <1>8, <1>9, <1>10, <1>11, <1>12, <1>13 DEF KnownIInv

LEMMA DriverConfigSteps == ASSUME KnownIInv, NEW c \in Callers, Config(c) PROVE KnownIInv'
<1>1. KnownTyped /\ Coherent /\ LossIsTold BY DEF KnownIInv
<1>2. /\ call[c].pc = "config"
      /\ UNCHANGED <<known, join, haveIp, want, retries, timer, evt, fire, link, peer, events, forgotten, refused, late, crossed>>
  BY DEF Config, At, state, past
<1>3. /\ call' \in [Callers -> CallRecord] /\ \A d \in Callers \ {c} : call'[d] = call[d]
      /\ CallOK(call'[c]) /\ call'[c].pc \in {"idle", "connect"}
      /\ Joiner(c) => call'[c].pc = "connect" /\ call'[c].op = "join" /\ call'[c].ssid = call[c].ssid /\ cfg'.ssid = call[c].ssid
      /\ ~Joiner(c) => call'[c].op # "join" /\ cfg'.ssid = NoSsid
      /\ cfg' \in Configs
  <2>1. CASE call[c].op = "join"
    <3>1. call[c].ssid \in Networks BY <1>1, CallIs
    <3> DEFINE opens == call[c].pass = Right
    <3>2. opens \in BOOLEAN /\ cfg' = [ssid |-> call[c].ssid, opens |-> opens] BY <2>1 DEF Config
    <3> HIDE DEF opens
    <3>3. cfg' \in Configs /\ cfg'.ssid = call[c].ssid BY <3>1, <3>2 DEF Configs, Networks
    <3> QED BY <1>1, <1>2, <2>1, <3>3, Goes DEF Config, Joiner, CallOK, Coherent
  <2>2. CASE call[c].op # "join" BY <1>1, <2>2, CallEnds, Blanks DEF Config, Joiner
  <2> QED BY <2>1, <2>2
<1>4. KnownTyped' BY <1>1, <1>2, <1>3 DEF KnownTyped
<1>5. Coherent' BY <1>1, <1>2, <1>3 DEF Coherent
<1>6. OneEntryEach' BY <1>2 DEF KnownIInv, OneEntryEach
<1>7. LossIsTold' BY <1>1, <1>2 DEF LossIsTold, LostIn
<1>8. InTurn' BY <1>2, <1>3 DEF KnownIInv, InTurn, Joiner, Leaver, joining
<1>9. JoinHeld'
  <2>1. SUFFICES ASSUME ~late', joining' PROVE JoinHeld' BY DEF JoinHeld
  <2>2. ~late /\ joining BY <1>2, <2>1 DEF joining
  <2>3. CASE Joiner(c)
    <3>1. \A d \in Callers : Joiner(d)' => d = c BY <1>3, <2>2, <2>3 DEF KnownIInv, InTurn, Joiner
    <3>2. Joiner(c)' /\ call'[c].ssid = join.ssid /\ cfg'.ssid = join.ssid /\ link = "down"
      BY <1>2, <1>3, <2>2, <2>3 DEF Joiner, KnownIInv, JoinHeld
    <3> QED BY <1>2, <2>2, <3>1, <3>2 DEF KnownIInv, JoinHeld
  <2>4. CASE ~Joiner(c)
    <3>1. \A d \in Callers : Joiner(d)' <=> Joiner(d) BY <1>3, <2>4 DEF Joiner
    <3>2. \A d \in Callers : Joiner(d) => call'[d] = call[d] BY <1>3, <2>4
    <3>3. cfg'.ssid = NoSsid BY <1>3, <2>4
    <3> QED BY <1>2, <2>2, <3>1, <3>2, <3>3 DEF KnownIInv, JoinHeld
  <2> QED BY <2>3, <2>4
<1>10. Pursued'
  <2>1. SUFFICES ASSUME cfg'.ssid # NoSsid PROVE Chased' BY DEF Pursued
  <2>2. Joiner(c) BY <1>3, <2>1
  <2> QED BY <1>3, <2>2 DEF Chased, Joiner
<1>11. LetGo' BY <1>2, <1>3 DEF KnownIInv, LetGo, Joiner, Leaver
<1>12. Erased' BY <1>2, <1>3 DEF KnownIInv, Erased, Has, Entry
<1> QED BY <1>4, <1>5, <1>6, <1>7, <1>8, <1>9, <1>10, <1>11, <1>12 DEF KnownIInv

LEMMA JoinConnectSteps == ASSUME KnownIInv, NEW c \in Callers, NEW ok \in BOOLEAN, JoinConnect(c, ok) PROVE KnownIInv'
<1>1. KnownTyped /\ Coherent /\ LossIsTold BY DEF KnownIInv
<1>2. /\ call[c].pc = "connect" /\ (refused' <=> ~ok) /\ refused' \in BOOLEAN
      /\ UNCHANGED <<known, join, haveIp, want, retries, timer, evt, fire, forgotten, late, crossed>>
  BY DEF JoinConnect, At, state
<1>3. Joiner(c) /\ call[c].ssid \in Ssids BY <1>1, <1>2 DEF Coherent, CallOK, Joiner
<1>4. /\ call' \in [Callers -> CallRecord] /\ \A d \in Callers \ {c} : call'[d] = call[d]
      /\ CallOK(call'[c])
      /\ ok => call'[c].pc = "idle" /\ call'[c].op = "none"
      /\ ~ok => call'[c].pc = "failed" /\ call'[c].op = "join" /\ call'[c].ssid = call[c].ssid
  <2>1. CASE ok BY <1>1, <2>1, CallEnds DEF JoinConnect
  <2>2. CASE ~ok BY <1>1, <1>3, <2>2, Goes DEF JoinConnect, CallOK, Joiner
  <2> QED BY <2>1, <2>2
<1>5. /\ UNCHANGED <<cfg, events>> /\ peer' \in Configs /\ link' \in {"down", "connecting", "up"}
      /\ link # "down" \/ ~ok => UNCHANGED <<link, peer>>
      /\ ok /\ link = "down" /\ cfg.ssid # NoSsid => link' # "down" /\ peer' = cfg
      /\ cfg.ssid = NoSsid => UNCHANGED <<link, peer>>
      /\ link' # "down" => peer'.ssid \in Ssids
  <2>1. CASE ok BY <1>1, <2>1, Connects DEF JoinConnect
  <2>2. CASE ~ok BY <1>1, <2>2 DEF JoinConnect, radio, KnownTyped, Coherent
  <2> QED BY <2>1, <2>2
<1>6. KnownTyped' BY <1>1, <1>2, <1>4, <1>5 DEF KnownTyped
<1>7. Coherent' BY <1>1, <1>2, <1>4, <1>5 DEF Coherent
<1>8. OneEntryEach' BY <1>2 DEF KnownIInv, OneEntryEach
<1>9. LossIsTold' BY <1>1, <1>2, <1>5 DEF LossIsTold, LostIn
<1>10. ~late => \A d \in Callers \ {c} : call'[d] = call[d] /\ ~Joiner(d)' /\ call[d].pc # "failed"
  BY <1>1, <1>3, <1>4 DEF KnownIInv, InTurn, Joiner, Coherent, CallOK
<1>11. InTurn'
  <2>1. SUFFICES ASSUME ~late PROVE InTurn' BY <1>2 DEF InTurn
  <2>2. \A d \in Callers : Joiner(d)' => d = c /\ Joiner(c) BY <1>3, <1>10, <2>1
  <2>3. \A d \in Callers : ~Leaver(d)' BY <1>3, <1>4, <2>1 DEF KnownIInv, InTurn, Leaver
  <2>4. \A d \in Callers : call'[d].pc = "failed" => refused' BY <1>2, <1>4, <1>10, <2>1
  <2> QED BY <1>2, <1>3, <1>4, <2>1, <2>2, <2>3, <2>4 DEF KnownIInv, InTurn
<1>12. JoinHeld'
  <2>1. SUFFICES ASSUME ~late, joining PROVE JoinHeld' BY <1>2 DEF JoinHeld, joining
  <2>2. link = "down" /\ cfg.ssid \in {join.ssid, NoSsid} /\ call[c].ssid = join.ssid /\ ~fire /\ ~evt.keep
    BY <1>2, <1>3, <2>1 DEF KnownIInv, JoinHeld
  <2>3. CASE ok
    <3>1. \A d \in Callers : ~Joiner(d)' BY <1>4, <1>10, <2>1, <2>3 DEF Joiner
    <3> QED BY <1>2, <1>5, <2>1, <2>2, <2>3, <3>1 DEF JoinHeld
  <2>4. CASE ~ok
    <3>1. \A d \in Callers : Joiner(d)' => d = c BY <1>10, <2>1
    <3>2. Joiner(c)' BY <1>4, <2>4 DEF Joiner
    <3> QED BY <1>2, <1>4, <1>5, <2>1, <2>2, <2>4, <3>1, <3>2 DEF JoinHeld
  <2> QED BY <2>3, <2>4
<1>13. Pursued' BY <1>2, <1>5 DEF Pursued
<1>14. LetGo' BY <1>2, <1>3 DEF KnownIInv, LetGo
<1>15. Erased' BY <1>2, <1>4 DEF KnownIInv, Erased, Has, Entry
<1> QED BY <1>6, <1>7, <1>8, <1>9, <1>11, <1>12, <1>13, <1>14, <1>15 DEF KnownIInv

LEMMA JoinFailedSteps == ASSUME KnownIInv, NEW c \in Callers, JoinFailed(c) PROVE KnownIInv'
<1>1. KnownTyped /\ Coherent /\ LossIsTold BY DEF KnownIInv
<1>2. /\ call[c].pc = "failed" /\ join' = NoJoin
      /\ UNCHANGED <<known, haveIp, want, retries, timer, evt, fire, cfg, link, peer, events, forgotten, refused, late, crossed>>
  BY DEF JoinFailed, At, state, radio, past
<1>3. /\ call' \in [Callers -> CallRecord] /\ \A d \in Callers \ {c} : call'[d] = call[d]
      /\ CallOK(call'[c]) /\ call'[c].pc = "idle" /\ call'[c].op = "none"
  BY <1>1, CallEnds DEF JoinFailed
<1>4. ~joining' /\ join'.ssid = NoSsid /\ join' \in JoinRecord BY <1>2, Blanks DEF joining
<1>5. Joiner(c) /\ (~late => refused) BY <1>1, <1>2 DEF KnownIInv, Coherent, CallOK, Joiner, InTurn
<1>6. KnownTyped' BY <1>1, <1>2, <1>3, <1>4 DEF KnownTyped
<1>7. Coherent' BY <1>1, <1>2, <1>3 DEF Coherent
<1>8. OneEntryEach' BY <1>2 DEF KnownIInv, OneEntryEach
<1>9. LossIsTold' BY <1>1, <1>2 DEF LossIsTold, LostIn
<1>10. InTurn' BY <1>2, <1>3, <1>4 DEF KnownIInv, InTurn, Joiner, Leaver
<1>11. JoinHeld' BY <1>4 DEF JoinHeld
<1>12. Pursued' BY <1>2, <1>5 DEF Pursued
<1>13. LetGo' BY <1>2, <1>5 DEF KnownIInv, LetGo
<1>14. Erased' BY <1>2, <1>4 DEF KnownIInv, Erased, Has, Entry
<1> QED BY <1>6, <1>7, <1>8, <1>9, <1>10, <1>11, <1>12, <1>13, <1>14 DEF KnownIInv

LEMMA ForgetSteps == ASSUME KnownIInv, NEW c \in Callers, NEW s \in Ssids, Forget(c, s) PROVE KnownIInv'
<1> DEFINE o == IF join.ssid = s THEN "forgetJoin" ELSE "forget"
           r == [pc |-> "uses", ssid |-> s, pass |-> Empty, op |-> o]
<1>1. KnownTyped /\ Coherent /\ LossIsTold BY DEF KnownIInv
<1>2. /\ call[c].pc = "idle" /\ call' = [call EXCEPT ![c] = r]
      /\ IF Has(s) THEN Erase(s) ELSE UNCHANGED known
      /\ forgotten' = IF Has(s) THEN s ELSE forgotten
      /\ UNCHANGED <<join, haveIp, want, retries, timer, evt, fire, cfg, link, peer, events, refused, late, crossed>>
  BY DEF Forget, At, state, radio
<1>3. r \in CallRecord /\ r.pc = "uses" /\ r.ssid = s /\ r.op = o /\ o \in {"forget", "forgetJoin"} /\ CallOK(r)
  BY Blanks DEF CallRecord, CallOK
<1>4. join.ssid = s => o = "forgetJoin" OBVIOUS
<1> HIDE DEF r, o
<1>5. call' \in [Callers -> CallRecord] /\ call'[c] = r /\ \A d \in Callers \ {c} : call'[d] = call[d]
  BY <1>1, <1>2, <1>3, CallMoves
<1>6. /\ known' \in [entries : Seq(Credentials), last : Networks] /\ Len(known'.entries) <= KnownMax
      /\ OneEntryEach' /\ (Has(s) => ~Has(s)' /\ known'.last # s)
  <2>1. CASE Has(s) BY <1>1, <1>2, <2>1, Erases DEF KnownIInv
  <2>2. CASE ~Has(s) BY <1>1, <1>2, <2>2 DEF KnownIInv, KnownTyped, OneEntryEach
  <2> QED BY <2>1, <2>2
<1>7. forgotten' \in Networks BY <1>1, <1>2, Blanks DEF KnownTyped
<1>8. KnownTyped' BY <1>1, <1>2, <1>5, <1>6, <1>7 DEF KnownTyped
<1>9. Coherent' BY <1>1, <1>2, <1>3, <1>5 DEF Coherent
<1>10. LossIsTold' BY <1>1, <1>2 DEF LossIsTold, LostIn
<1>11. /\ \A d \in Callers : (Joiner(d)' <=> Joiner(d)) /\ (Leaver(d)' <=> Leaver(d))
       /\ \A d \in Callers : Joiner(d) \/ call[d].pc \in {"on", "leave", "failed", "rejoin"} => call'[d] = call[d]
       /\ call'[c].pc \notin {"on", "leave", "failed", "rejoin"}
  BY <1>1, <1>2, <1>3, <1>5 DEF Joiner, Leaver, Coherent, CallOK
<1>12. InTurn' BY <1>2, <1>5, <1>11 DEF KnownIInv, InTurn, joining
<1>13. JoinHeld' BY <1>2, <1>11 DEF KnownIInv, JoinHeld, joining, OursLost, Ours
<1>14. Pursued' BY <1>2, <1>11 DEF KnownIInv, Pursued, Chased, LostIn, joining
<1>15. LetGo' BY <1>2, <1>5, <1>11 DEF KnownIInv, LetGo
<1>16. Erased'
  <2>1. SUFFICES ASSUME ~crossed, forgotten' # NoSsid PROVE Erased' BY <1>2 DEF Erased
  <2>2. CASE Has(s) BY <1>2, <1>3, <1>4, <1>5, <1>6, <2>2 DEF Erased
  <2>3. CASE ~Has(s)
    <3>1. known' = known /\ forgotten' = forgotten BY <1>2, <2>3
    <3>2. \A d \in Callers : call[d].pc = "uses" => call'[d] = call[d] BY <1>2, <1>5
    <3> QED BY <1>2, <2>1, <3>1, <3>2 DEF KnownIInv, Erased, Has, Entry
  <2> QED BY <2>2, <2>3
<1> QED BY <1>6, <1>8, <1>9, <1>10, <1>12, <1>13, <1>14, <1>15, <1>16 DEF KnownIInv

\* The station is given up on: by a forget, or by `wifi off`
LEMMA GivenUp ==
    ASSUME KnownIInv, NEW c \in Callers, ~want', want' \in BOOLEAN, join' = NoJoin,
           late' \in BOOLEAN, late' <=> late \/ Pending,
           call' \in [Callers -> CallRecord], \A d \in Callers \ {c} : call'[d] = call[d],
           call'[c].pc = "leave", call'[c].op \notin {"none", "join"}, call[c].op # "join",
           UNCHANGED <<known, haveIp, retries, timer, evt, fire, cfg, link, peer, events, forgotten, refused, crossed>>
    PROVE  KnownIInv'
<1>1. KnownTyped /\ Coherent /\ LossIsTold BY DEF KnownIInv
<1>2. ~joining' /\ join'.ssid = NoSsid /\ join' \in JoinRecord BY Blanks DEF joining
<1>3. KnownTyped' BY <1>1, <1>2 DEF KnownTyped
<1>4. Coherent' BY <1>1, <1>2 DEF Coherent, CallOK
<1>5. OneEntryEach' BY DEF KnownIInv, OneEntryEach
<1>6. LossIsTold' BY <1>1 DEF LossIsTold, LostIn
<1>7. ~late' => ~late /\ ~fire /\ ~evt.keep /\ \A d \in Callers : call[d].op # "join" /\ call[d].pc \notin {"on", "leave"}
  BY <1>1 DEF Pending, Calling, Coherent
<1>8. InTurn'
  <2>1. SUFFICES ASSUME ~late' PROVE InTurn' BY DEF InTurn
  <2>2. \A d \in Callers : ~Joiner(d)' BY <1>7, <2>1 DEF Joiner
  <2>3. \A d \in Callers : call'[d].pc = "failed" => refused' BY <1>7, <2>1 DEF KnownIInv, InTurn
  <2> QED BY <1>2, <2>2, <2>3 DEF InTurn
<1>9. JoinHeld' BY <1>2 DEF JoinHeld
<1>10. Pursued' BY DEF Pursued
<1>11. LetGo'
  <2>1. SUFFICES ASSUME ~late' PROVE LetGo' BY DEF LetGo
  <2>2. \A d \in Callers : ~Joiner(d)' /\ call'[d].pc # "on" BY <1>7, <2>1 DEF Joiner
  <2>3. Leaver(c)' BY DEF Leaver
  <2> QED BY <1>7, <2>1, <2>2, <2>3 DEF LetGo
<1>12. Erased' BY <1>2 DEF KnownIInv, Erased, Has, Entry
<1> QED BY <1>3, <1>4, <1>5, <1>6, <1>8, <1>9, <1>10, <1>11, <1>12 DEF KnownIInv

LEMMA ForgetJoinSteps == ASSUME KnownIInv, NEW c \in Callers, ForgetJoin(c) PROVE KnownIInv'
<1>1. KnownTyped /\ Coherent /\ LossIsTold BY DEF KnownIInv
<1>2. /\ call[c].pc = "uses" /\ call[c].op \in {"forget", "forgetJoin"}
      /\ UNCHANGED <<known, haveIp, retries, timer, evt, fire, cfg, link, peer, events, forgotten, refused, crossed>>
  BY <1>1 DEF ForgetJoin, At, radio, Coherent, CallOK
<1>3. CASE call[c].op = "forgetJoin" \/ Uses(call[c].ssid)
  <2>1. /\ ~want' /\ want' \in BOOLEAN /\ join' = NoJoin /\ (late' <=> late \/ Pending) /\ late' \in BOOLEAN /\ Go(c, "leave")
    BY <1>1, <1>3, KnownParts DEF ForgetJoin
  <2>2. /\ call' \in [Callers -> CallRecord] /\ \A d \in Callers \ {c} : call'[d] = call[d]
        /\ call'[c].pc = "leave" /\ call'[c].op = call[c].op
    BY <1>1, <2>1, Goes
  <2> QED BY <1>2, <2>1, <2>2, GivenUp
<1>4. CASE ~(call[c].op = "forgetJoin" \/ Uses(call[c].ssid))
  <2>1. UNCHANGED <<want, join, late>> /\ Done(c) BY <1>4 DEF ForgetJoin
  <2>2. /\ call' \in [Callers -> CallRecord] /\ \A d \in Callers \ {c} : call'[d] = call[d]
        /\ call'[c].pc = "idle" /\ call'[c].op = "none" /\ CallOK(call'[c])
    BY <1>1, <2>1, CallEnds
  <2>3. KnownTyped' BY <1>1, <1>2, <2>1, <2>2 DEF KnownTyped
  <2>4. Coherent' BY <1>1, <1>2, <2>1, <2>2 DEF Coherent
  <2>5. OneEntryEach' BY <1>2 DEF KnownIInv, OneEntryEach
  <2>6. LossIsTold' BY <1>1, <1>2 DEF LossIsTold, LostIn
  <2>7. /\ \A d \in Callers : (Joiner(d)' <=> Joiner(d)) /\ (Leaver(d)' <=> Leaver(d))
        /\ \A d \in Callers : Joiner(d) \/ call[d].pc \in {"on", "leave", "failed", "rejoin"} => call'[d] = call[d]
        /\ call'[c].pc \notin {"on", "leave", "failed", "rejoin"}
    BY <1>2, <2>2 DEF Joiner, Leaver
  <2>8. InTurn' BY <1>2, <2>1, <2>2, <2>7 DEF KnownIInv, InTurn, joining
  <2>9. JoinHeld' BY <1>2, <2>1, <2>7 DEF KnownIInv, JoinHeld, joining, OursLost, Ours
  <2>10. Pursued' BY <1>2, <2>1, <2>7 DEF KnownIInv, Pursued, Chased, LostIn, joining
  <2>11. LetGo' BY <1>2, <2>1, <2>2, <2>7 DEF KnownIInv, LetGo
  <2>12. Erased'
    <3>1. \A d \in Callers : call[d].op = "forgetJoin" => call'[d] = call[d] BY <1>4, <2>2
    <3> QED BY <1>2, <2>1, <3>1 DEF KnownIInv, Erased, Has, Entry
  <2> QED BY <2>3, <2>4, <2>5, <2>6, <2>8, <2>9, <2>10, <2>11, <2>12 DEF KnownIInv
<1> QED BY <1>3, <1>4

LEMMA GiveUpSteps == ASSUME KnownIInv, NEW c \in Callers, Off(c) PROVE KnownIInv'
<1>1. KnownTyped /\ Coherent BY DEF KnownIInv
<1>2. /\ call[c].pc = "idle" /\ ~want' /\ want' \in BOOLEAN /\ join' = NoJoin
      /\ (late' <=> late \/ Pending) /\ late' \in BOOLEAN
      /\ UNCHANGED <<known, haveIp, retries, timer, evt, fire, cfg, link, peer, events, forgotten, refused, crossed>>
  BY <1>1, KnownParts DEF Off, At, radio
<1>3. call[c].op = "none" BY <1>1, <1>2 DEF Coherent, CallOK
<1>4. /\ call' \in [Callers -> CallRecord] /\ \A d \in Callers \ {c} : call'[d] = call[d]
      /\ call'[c].pc = "leave" /\ call'[c].op = "off"
  <2> DEFINE r == [call[c] EXCEPT !.pc = "leave", !.op = "off"]
  <2>1. r \in CallRecord /\ r.pc = "leave" /\ r.op = "off" BY <1>1, CallIs DEF CallRecord
  <2>2. call' = [call EXCEPT ![c] = r] BY <1>1 DEF Off, KnownTyped
  <2> QED BY <1>1, <2>1, <2>2, CallMoves
<1> QED BY <1>2, <1>3, <1>4, GivenUp

LEMMA OnSteps == ASSUME KnownIInv, NEW c \in Callers, On(c) PROVE KnownIInv'
<1>1. KnownTyped /\ Coherent /\ LossIsTold BY DEF KnownIInv
<1>2. /\ call[c].pc = "idle" /\ want' /\ want' \in BOOLEAN /\ retries' = 0
      /\ (late' <=> late \/ Calling) /\ late' \in BOOLEAN
      /\ UNCHANGED <<known, join, haveIp, timer, evt, fire, cfg, link, peer, events, forgotten, refused, crossed>>
  BY <1>1, KnownParts DEF On, At, radio
<1>3. call[c].op = "none" BY <1>1, <1>2 DEF Coherent, CallOK
<1>4. /\ call' \in [Callers -> CallRecord] /\ \A d \in Callers \ {c} : call'[d] = call[d]
      /\ call'[c].pc = "on" /\ call'[c].op = "none"
  <2> DEFINE r == [call[c] EXCEPT !.pc = "on", !.ssid = known.last]
  <2>1. known.last \in Networks BY <1>1, EntryIs
  <2>2. r \in CallRecord /\ r.pc = "on" /\ r.op = "none" BY <1>1, <1>3, <2>1, CallIs DEF CallRecord
  <2>3. call' = [call EXCEPT ![c] = r] BY <1>1 DEF On, KnownTyped
  <2> QED BY <1>1, <2>2, <2>3, CallMoves
<1>5. KnownTyped'
  <2>1. 0 \in 0 .. FastRetries BY KnownAssumption
  <2> QED BY <1>1, <1>2, <1>4, <2>1 DEF KnownTyped
<1>6. Coherent' BY <1>1, <1>2, <1>4 DEF Coherent, CallOK
<1>7. OneEntryEach' BY <1>2 DEF KnownIInv, OneEntryEach
<1>8. LossIsTold' BY <1>1, <1>2 DEF LossIsTold, LostIn
<1>9. ~late' => ~late /\ \A d \in Callers : call[d].op # "join" /\ call[d].pc \notin {"on", "leave"}
  BY <1>2 DEF Calling
<1>10. ~late' => \A d \in Callers : ~Joiner(d)' /\ ~Leaver(d)' /\ ~Joiner(d)
  BY <1>4, <1>9 DEF Joiner, Leaver
<1>11. InTurn' BY <1>2, <1>4, <1>9, <1>10 DEF KnownIInv, InTurn
<1>12. JoinHeld' BY <1>2, <1>9, <1>10 DEF KnownIInv, JoinHeld, joining, OursLost, Ours
<1>13. Pursued' BY <1>4 DEF Pursued, Chased
<1>14. LetGo' BY <1>2 DEF LetGo
<1>15. Erased' BY <1>2, <1>4 DEF KnownIInv, Erased, Has, Entry
<1> QED BY <1>5, <1>6, <1>7, <1>8, <1>11, <1>12, <1>13, <1>14, <1>15 DEF KnownIInv

LEMMA OnConnectSteps == ASSUME KnownIInv, NEW c \in Callers, OnConnect(c) PROVE KnownIInv'
<1>1. KnownTyped /\ Coherent /\ LossIsTold BY DEF KnownIInv
<1>2. /\ call[c].pc = "on"
      /\ UNCHANGED <<known, join, haveIp, want, retries, timer, evt, fire, forgotten, refused, late, crossed>>
  BY DEF OnConnect, At, state, past
<1>3. call[c].op = "none" /\ call[c].ssid \in Networks BY <1>1, <1>2, CallIs DEF Coherent, CallOK
<1>4. /\ call' \in [Callers -> CallRecord] /\ \A d \in Callers \ {c} : call'[d] = call[d]
      /\ call'[c].pc \in {"idle", "rejoin"} /\ call'[c].op = "none" /\ CallOK(call'[c])
  <2>1. CASE Done(c) BY <1>1, <2>1, CallEnds
  <2>2. CASE Go(c, "rejoin") /\ call[c].ssid # NoSsid BY <1>1, <1>3, <2>2, Goes DEF CallOK, Networks
  <2> QED BY <2>1, <2>2 DEF OnConnect
<1>5. /\ UNCHANGED <<cfg, events>> /\ peer' \in Configs /\ link' \in {"down", "connecting", "up"}
      /\ link # "down" => UNCHANGED <<link, peer>>
      /\ link = "down" /\ cfg.ssid # NoSsid => link' # "down" /\ peer' = cfg
      /\ cfg.ssid = NoSsid => UNCHANGED <<link, peer>>
      /\ link' # "down" => peer'.ssid \in Ssids
  <2>1. CASE cfg.ssid # NoSsid BY <1>1, <2>1, Connects DEF OnConnect
  <2>2. CASE cfg.ssid = NoSsid BY <1>1, <2>2 DEF OnConnect, radio, KnownTyped, Coherent
  <2> QED BY <2>1, <2>2
<1>6. KnownTyped' BY <1>1, <1>2, <1>4, <1>5 DEF KnownTyped
<1>7. Coherent' BY <1>1, <1>2, <1>4, <1>5 DEF Coherent
<1>8. OneEntryEach' BY <1>2 DEF KnownIInv, OneEntryEach
<1>9. LossIsTold' BY <1>1, <1>2, <1>5 DEF LossIsTold, LostIn
<1>10. \A d \in Callers : /\ (Joiner(d)' <=> Joiner(d)) /\ (Leaver(d)' <=> Leaver(d))
                          /\ Joiner(d) => call'[d] = call[d] /\ d # c
  BY <1>2, <1>3, <1>4 DEF Joiner, Leaver
<1>11. ~late => \A d \in Callers : ~Joiner(d) BY <1>2, <1>10 DEF KnownIInv, InTurn
<1>12. InTurn' BY <1>2, <1>4, <1>10 DEF KnownIInv, InTurn, joining
<1>13. JoinHeld' BY <1>2, <1>5, <1>10, <1>11 DEF KnownIInv, JoinHeld, joining, OursLost, Ours
<1>14. Pursued' BY <1>5 DEF Pursued
<1>15. LetGo' BY <1>2 DEF KnownIInv, LetGo
<1>16. Erased' BY <1>2, <1>4 DEF KnownIInv, Erased, Has, Entry
<1> QED BY <1>6, <1>7, <1>8, <1>9, <1>12, <1>13, <1>14, <1>15, <1>16 DEF KnownIInv

LEMMA SaveSteps == ASSUME KnownIInv, NEW c \in Callers, NEW s \in Ssids, NEW p \in Passes, Save(c, s, p) PROVE KnownIInv'
<1>1. KnownTyped /\ Coherent /\ LossIsTold BY DEF KnownIInv
<1>2. /\ Put(s, p, FALSE) /\ forgotten' = IF forgotten = s THEN NoSsid ELSE forgotten
      /\ UNCHANGED <<join, haveIp, want, retries, timer, call, evt, fire, cfg, link, peer, events, refused, late, crossed>>
  BY DEF Save, state, tasks, radio
<1>3. /\ known' \in [entries : Seq(Credentials), last : Networks] /\ Len(known'.entries) <= KnownMax
      /\ OneEntryEach' /\ \A f \in Ssids \ {s} : ~Has(f) => ~Has(f)'
      /\ known'.last = known.last
  BY <1>1, <1>2, Puts DEF KnownIInv, Put
<1>4. KnownTyped' BY <1>1, <1>2, <1>3, Blanks DEF KnownTyped
<1>5. Coherent' BY <1>1, <1>2 DEF Coherent
<1>6. LossIsTold' BY <1>1, <1>2 DEF LossIsTold, LostIn
<1>7. InTurn' BY <1>2 DEF KnownIInv, InTurn, Joiner, Leaver, joining
<1>8. JoinHeld' BY <1>2 DEF KnownIInv, JoinHeld, Joiner, joining, OursLost, Ours
<1>9. Pursued' BY <1>2 DEF KnownIInv, Pursued, Chased, Joiner, LostIn, joining
<1>10. LetGo' BY <1>2 DEF KnownIInv, LetGo, Joiner, Leaver
<1>11. Erased'
  <2>1. SUFFICES ASSUME ~crossed, forgotten' # NoSsid PROVE Erased' BY <1>2 DEF Erased
  <2>2. forgotten # s /\ forgotten' = forgotten /\ forgotten \in Ssids
    BY <1>1, <1>2, <2>1 DEF KnownTyped, Networks
  <2> QED BY <1>2, <1>3, <2>1, <2>2 DEF KnownIInv, Erased
<1> QED BY <1>3, <1>4, <1>5, <1>6, <1>7, <1>8, <1>9, <1>10, <1>11 DEF KnownIInv

----------------------------------------------------------------------------
(* Boot, a restart, and the whole. *)

\* A board that has just started: nobody calls, or the boot's rejoin is about to
LEMMA Booted ==
    ASSUME known' \in [entries : Seq(Credentials), last : Networks], Len(known'.entries) <= KnownMax, OneEntryEach',
           join' = NoJoin, {haveIp', want', timer', fire', refused', late', crossed'} \subseteq BOOLEAN,
           ~haveIp', ~want', ~timer', ~fire', ~late', retries' = 0, evt' = Decided,
           cfg' = NoCfg, link' = "down", peer' = NoCfg, events' = << >>, forgotten' \in Networks,
           call' \in [Callers -> CallRecord],
           \A c \in Callers : CallOK(call'[c]) /\ call'[c].op = "none" /\ call'[c].pc \in {"idle", "rejoin"},
           ~crossed' /\ forgotten' # NoSsid => ~Has(forgotten)' /\ known'.last # forgotten'
    PROVE  KnownIInv'
<1>1. ~joining' /\ join'.ssid = NoSsid /\ join' \in JoinRecord BY Blanks DEF joining
<1>2. evt' \in EvtRecord /\ evt'.pc = "idle" /\ ~evt'.retry /\ ~evt'.keep BY Blanks
<1>3. 0 \in 0 .. FastRetries BY KnownAssumption
<1>4. << >> \in Seq(EventRecord) /\ Len(<< >>) = 0 BY EmptySeq
<1>5. KnownTyped' BY <1>1, <1>2, <1>3, <1>4, Blanks DEF KnownTyped
<1>6. Coherent' BY <1>1, <1>2 DEF Coherent
<1>7. LossIsTold' BY <1>2, <1>4 DEF LossIsTold
<1>8. InTurn' BY DEF InTurn, Joiner, Leaver
<1>9. JoinHeld' BY <1>1 DEF JoinHeld
<1>10. Pursued' BY DEF Pursued
<1>11. LetGo' BY <1>2 DEF LetGo, Joiner
<1>12. Erased' BY <1>1 DEF Erased
<1> QED BY <1>5, <1>6, <1>7, <1>8, <1>9, <1>10, <1>11, <1>12 DEF KnownIInv

LEMMA RestartSteps == ASSUME KnownIInv, NEW autojoin \in BOOLEAN, Restart(autojoin) PROVE KnownIInv'
<1>1. KnownTyped BY DEF KnownIInv
<1>2. known.last \in Networks /\ known.last # NoSsid => known.last \in Ssids BY DEF Networks
<1>3. known.last \in Networks BY <1>1, EntryIs
<1> DEFINE r == [Idle EXCEPT !.pc = "rejoin", !.ssid = known.last]
<1>4. known.last # NoSsid => r \in CallRecord /\ r.op = "none" /\ r.pc = "rejoin" /\ CallOK(r)
  BY <1>2, <1>3, Blanks DEF Idle, CallRecord, CallOK
<1>5. call' = [c \in Callers |-> IF c = Main /\ autojoin /\ known.last # NoSsid THEN r ELSE Idle] BY DEF Restart
<1> HIDE DEF r
<1>6. /\ call' \in [Callers -> CallRecord]
      /\ \A c \in Callers : CallOK(call'[c]) /\ call'[c].op = "none" /\ call'[c].pc \in {"idle", "rejoin"}
  BY <1>4, <1>5, Blanks
<1>7. /\ known' = known /\ forgotten' = forgotten /\ crossed' = crossed /\ crossed \in BOOLEAN
      /\ forgotten \in Networks
  BY <1>1, KnownParts DEF Restart, KnownTyped
<1>8. /\ join' = NoJoin /\ {haveIp', want', timer', fire', refused', late', crossed'} \subseteq BOOLEAN
      /\ ~haveIp' /\ ~want' /\ ~timer' /\ ~fire' /\ ~late' /\ retries' = 0 /\ evt' = Decided
      /\ cfg' = NoCfg /\ link' = "down" /\ peer' = NoCfg /\ events' = << >>
  BY <1>7 DEF Restart
<1>9. /\ known' \in [entries : Seq(Credentials), last : Networks] /\ Len(known'.entries) <= KnownMax /\ OneEntryEach'
      /\ (~crossed' /\ forgotten' # NoSsid => ~Has(forgotten)' /\ known'.last # forgotten')
  BY <1>1, <1>7 DEF KnownIInv, KnownTyped, OneEntryEach, Erased, Has, Entry
<1> QED BY <1>6, <1>7, <1>8, <1>9, Booted

LEMMA KnownStarts == KnownInit => KnownIInv
<1> SUFFICES ASSUME KnownInit PROVE KnownIInv OBVIOUS
<1>1. ~joining /\ join.ssid = NoSsid /\ join \in JoinRecord BY Blanks DEF KnownInit, joining
<1>2. evt \in EvtRecord /\ evt.pc = "idle" /\ ~evt.retry /\ ~evt.keep BY Blanks DEF KnownInit
<1>3. 0 \in 0 .. FastRetries /\ KnownMax \in Nat BY KnownAssumption
<1>4. << >> \in Seq(EventRecord) /\ << >> \in Seq(Credentials) /\ Len(<< >>) = 0 BY EmptySeq
<1>5. known \in [entries : Seq(Credentials), last : Networks] /\ known.entries = << >> BY <1>4, Blanks DEF KnownInit
<1>6. \A c \in Callers : call[c] = Idle BY DEF KnownInit
<1>7. KnownTyped
  <2>1. {haveIp, want, timer, fire, refused, late, crossed} \subseteq BOOLEAN BY DEF KnownInit
  <2>2. retries \in 0 .. FastRetries BY <1>3 DEF KnownInit
  <2>3. call \in [Callers -> CallRecord] BY <1>6, Blanks DEF KnownInit
  <2>4. Len(known.entries) <= KnownMax BY <1>3, <1>4, <1>5
  <2>5. /\ cfg \in Configs /\ peer \in Configs /\ link \in {"down", "connecting", "up"}
        /\ events \in Seq(EventRecord) /\ forgotten \in Networks
    BY <1>4, Blanks DEF KnownInit, Networks
  <2> QED BY <1>1, <1>2, <1>5, <2>1, <2>2, <2>3, <2>4, <2>5 DEF KnownTyped
<1>8. Coherent BY <1>1, <1>2, <1>6, Blanks DEF KnownInit, Coherent
<1>9. OneEntryEach BY <1>4, <1>5 DEF OneEntryEach
<1>10. LossIsTold BY <1>2, <1>4 DEF KnownInit, LossIsTold
<1>11. InTurn BY <1>6, Blanks DEF InTurn, Joiner, Leaver
<1>12. JoinHeld BY <1>1 DEF JoinHeld
<1>13. Pursued BY DEF KnownInit, Pursued
<1>14. LetGo BY <1>2, <1>6, Blanks DEF KnownInit, LetGo, Joiner
<1>15. Erased BY DEF KnownInit, Erased
<1> QED BY <1>7, <1>8, <1>9, <1>10, <1>11, <1>12, <1>13, <1>14, <1>15 DEF KnownIInv

LEMMA KnownStays == KnownIInv /\ UNCHANGED knownVars => KnownIInv'
<1> SUFFICES ASSUME KnownIInv, UNCHANGED knownVars PROVE KnownIInv' OBVIOUS
<1>1. UNCHANGED <<known, join, haveIp, want, retries, timer, call, evt, fire, cfg, link, peer, events,
                  forgotten, refused, late, crossed>>
  BY DEF knownVars, state, tasks, radio, past
<1>2. KnownTyped' BY <1>1 DEF KnownIInv, KnownTyped
<1>3. Coherent' BY <1>1 DEF KnownIInv, Coherent
<1>4. OneEntryEach' /\ Erased' BY <1>1 DEF KnownIInv, OneEntryEach, Erased, Has, Entry
<1>5. LossIsTold' BY <1>1 DEF KnownIInv, LossIsTold, LostIn
<1>6. InTurn' BY <1>1 DEF KnownIInv, InTurn, Joiner, Leaver, joining
<1>7. JoinHeld' BY <1>1 DEF KnownIInv, JoinHeld, Joiner, joining, OursLost, Ours
<1>8. Pursued' BY <1>1 DEF KnownIInv, Pursued, Chased, Joiner, LostIn, joining
<1>9. LetGo' BY <1>1 DEF KnownIInv, LetGo, Joiner, Leaver
<1> QED BY <1>2, <1>3, <1>4, <1>5, <1>6, <1>7, <1>8, <1>9 DEF KnownIInv

LEMMA KnownSteps == KnownIInv /\ [KnownNext]_knownVars => KnownIInv'
<1> SUFFICES ASSUME KnownIInv, KnownNext PROVE KnownIInv' BY KnownStays
<1>1. KnownTyped /\ Coherent BY DEF KnownIInv
<1>2. CASE Driver BY <1>2, AssociateSteps, DropSteps DEF Driver
<1>3. CASE EventTask BY <1>3, JoinLostSteps, LinkLostSteps, ActSteps, GotIpSteps, StopTimerSteps DEF EventTask
<1>4. CASE TimerTask BY <1>4, FireSteps, FireConnectSteps DEF TimerTask
<1>5. ASSUME NEW autojoin \in BOOLEAN, Restart(autojoin) PROVE KnownIInv' BY <1>5, RestartSteps
<1>6. ASSUME NEW c \in Callers, Api(c) PROVE KnownIInv'
  <2>1. CASE Commands(c) BY <2>1, JoinSteps, ForgetSteps, GiveUpSteps, OnSteps DEF Commands, At
  <2>2. CASE Requests(c)
    <3>1. ASSUME NEW on \in BOOLEAN, NetworkPatch(c, on) PROVE KnownIInv'
      BY <3>1, OnSteps, GiveUpSteps DEF NetworkPatch
    <3>2. ASSUME NEW s \in Ssids, KnownPut(c, s) \/ KnownDelete(c, s) PROVE KnownIInv'
      BY <3>2, SaveSteps, ForgetSteps, Blanks DEF KnownPut, KnownDelete
    <3>3. ASSUME NEW s \in Ssids, NEW p \in Passes, JoinPost(c, s, p) PROVE KnownIInv'
      BY <3>3, JoinSteps DEF JoinPost, At
    <3> QED BY <2>2, <3>1, <3>2, <3>3 DEF Requests
  <2>3. CASE Rejoin(c)
    <3>1. call[c].pc = "rejoin" /\ call[c].ssid \in Ssids BY <1>1, <2>3 DEF Rejoin, At, Coherent, CallOK
    <3> QED BY <2>3, <3>1, JoinSteps, Blanks DEF Rejoin
  <2>4. CASE Leave(c) \/ Config(c) \/ JoinFailed(c) \/ ForgetJoin(c) \/ OnConnect(c) \/ \E ok \in BOOLEAN : JoinConnect(c, ok)
    BY <2>4, LeaveSteps, DriverConfigSteps, JoinFailedSteps, ForgetJoinSteps, OnConnectSteps, JoinConnectSteps
  <2> QED BY <1>6, <2>1, <2>2, <2>3, <2>4 DEF Api
<1> QED BY <1>2, <1>3, <1>4, <1>5, <1>6 DEF KnownNext

LEMMA KnownPromises == KnownIInv => KnownTypeOK /\ WantedIsPursued /\ OffIsOff /\ ForgottenStays
<1> SUFFICES ASSUME KnownIInv PROVE KnownTypeOK /\ WantedIsPursued /\ OffIsOff /\ ForgottenStays OBVIOUS
<1>1. KnownTyped /\ Coherent BY DEF KnownIInv
<1>2. KnownTypeOK
  <2>1. known.entries \in Seq(Credentials) /\ known.last \in Networks BY <1>1, EntryIs
  <2>2. ASSUME NEW c \in Callers
        PROVE  /\ call[c].pc \in {"idle", "leave", "config", "connect", "failed", "uses", "on", "rejoin"}
               /\ [ssid |-> call[c].ssid, pass |-> call[c].pass] \in Credentials
    BY <1>1 DEF KnownTyped, CallRecord, Credentials, Networks
  <2> QED BY <1>1, <2>1, <2>2 DEF KnownTyped, KnownTypeOK, Networks, JoinRecord, EvtRecord, EventRecord
<1>3. Calm => /\ evt.pc = "idle" /\ ~evt.keep /\ ~fire /\ events = << >> /\ Len(events) = 0
              /\ \A c \in Callers : call[c].pc = "idle" /\ call[c].op = "none"
  BY <1>1, EmptySeq DEF Calm, At, Coherent, CallOK
<1>4. WantedIsPursued
  <2>1. SUFFICES ASSUME Calm, want, ~refused, ~late, cfg.ssid # NoSsid PROVE link # "down" \/ timer
    BY DEF WantedIsPursued
  <2>2. ~OursLost /\ ~LostIn(1) /\ \A c \in Callers : ~Joiner(c) BY <1>3, <2>1 DEF OursLost, LostIn, Joiner
  <2>3. CASE joining BY <2>1, <2>2, <2>3 DEF KnownIInv, JoinHeld
  <2>4. CASE ~joining BY <1>3, <2>1, <2>2, <2>4 DEF KnownIInv, Pursued, Chased
  <2> QED BY <2>3, <2>4
<1>5. OffIsOff BY <1>3 DEF OffIsOff, KnownIInv, LetGo, Leaver
<1>6. ForgottenStays BY DEF ForgottenStays, KnownIInv, Erased
<1> QED BY <1>2, <1>4, <1>5, <1>6

----------------------------------------------------------------------------
(* The access point. *)

ApPcs == {"idle", "up", "mode", "config", "count", "stop", "down", "start", "off"}
ApRecord ==
    [pc : ApPcs, op : {"none", "start", "for", "set"}, saw : Modes, cred : Creds,
     next : {"idle", "start", "off"}]

\* A task that is turning it on, to stay or with new credentials
Raising(t, op) == ap[t].pc \in {"up", "mode", "config"} /\ ap[t].op = op

\* A deadline that has lost its timer is about to be acted on
CountRuns == offAt => offTimer \/ ap["timer"].pc = "stop"

\* On the air without saying so: a task has just put it there, or is about to take it off
AirHeld ==
    ~beaten =>
       /\ apOn => Airing(mode)
       /\ Airing(mode) /\ ~apOn =>
             \E t \in Tasks : ap[t].pc = "down" \/ (ap[t].pc = "config" /\ ~Airing(ap[t].saw))

\* Running with other credentials than those stored: a task is about to restart it
CredHeld == ~beaten /\ apOn /\ live # cred => \E t \in Tasks : Raising(t, "set")

\* On to stay: no count runs or is about to, nobody turns it off, and it is on or being turned on
StayHeld ==
    stay =>
       /\ ~offAt /\ ~offTimer
       /\ \A t \in Tasks : ap[t].pc \notin {"count", "stop", "down"} /\ ~Raising(t, "for")
       /\ ~beaten => ApIsOn \/ \E t \in Tasks : Raising(t, "start")

ApIInv == ApTypeOK /\ CountRuns /\ AirHeld /\ CredHeld /\ StayHeld

----------------------------------------------------------------------------

\* A task that does nothing
LEMMA ApNobody == NoTask \in ApRecord /\ NoTask.pc = "idle" /\ NoTask.op = "none"
<1>1. (CHOOSE c \in Creds : TRUE) \in Creds BY ApAssumption
<1> QED BY <1>1 DEF NoTask, ApRecord, ApPcs, Modes

LEMMA ApTyped == ApTypeOK => ap \in [Tasks -> ApRecord]
  BY DEF ApTypeOK, ApRecord, ApPcs

\* Where a task goes, and what it leaves as it is
LEMMA ApGoes ==
    ASSUME ApTypeOK, NEW t \in Tasks, NEW pc \in ApPcs, ApGo(t, pc)
    PROVE  /\ ap' \in [Tasks -> ApRecord]
           /\ ap'[t].pc = pc /\ ap'[t].op = ap[t].op /\ ap'[t].saw = ap[t].saw /\ ap'[t].cred = ap[t].cred
           /\ \A u \in Tasks \ {t} : ap'[u] = ap[u]
  BY ApTyped DEF ApGo, ApRecord

LEMMA ApEnds ==
    ASSUME ApTypeOK, NEW t \in Tasks, ApDone(t)
    PROVE  /\ ap' \in [Tasks -> ApRecord]
           /\ ap'[t].pc \in {"idle", "start", "off"} /\ ap'[t].op = "none"
           /\ \A u \in Tasks \ {t} : ap'[u] = ap[u]
<1>1. ap \in [Tasks -> ApRecord] /\ ap[t].next \in {"idle", "start", "off"} BY ApTyped DEF ApRecord
<1> DEFINE x == ap[t].next
<1>2. ap' = [ap EXCEPT ![t] = [NoTask EXCEPT !.pc = x]] BY DEF ApDone
<1> HIDE DEF x
<1> QED BY <1>1, <1>2, ApNobody DEF ApRecord, ApPcs, x

LEMMA ApParts ==
    /\ "timer" \in Tasks /\ ApServer \in Tasks /\ ApCallers \subseteq Tasks
    /\ "timer" \notin ApCallers /\ ApServer # "timer"
  BY ApAssumption DEF Tasks

LEMMA ApStarts == ApInit => ApIInv
<1> SUFFICES ASSUME ApInit PROVE ApIInv OBVIOUS
<1>1. NoTask.cred \in Creds BY ApNobody DEF ApRecord
<1>2. ApTypeOK BY <1>1, ApNobody DEF ApInit, ApTypeOK, Modes, ApRecord, ApPcs
<1> QED BY <1>2, ApNobody DEF ApInit, ApIInv, CountRuns, AirHeld, CredHeld, StayHeld, Airing

\* A task's record with other fields, whole
LEMMA ApMoves ==
    ASSUME ApTypeOK, NEW t \in Tasks, NEW r \in ApRecord, ap' = [ap EXCEPT ![t] = r]
    PROVE  /\ ap' \in [Tasks -> ApRecord] /\ ap'[t] = r
           /\ \A u \in Tasks \ {t} : ap'[u] = ap[u]
  BY ApTyped

LEMMA StartSteps ==
    ASSUME ApIInv, NEW t \in Tasks \ {"timer"}, ap[t].pc \in {"idle", "start"}, ApStart(t)
    PROVE  ApIInv'
<1>1. ApTypeOK /\ "timer" \in Tasks /\ ap \in [Tasks -> ApRecord] BY ApTyped, ApParts DEF ApIInv
<1>2. /\ ap' \in [Tasks -> ApRecord] /\ \A u \in Tasks \ {t} : ap'[u] = ap[u]
      /\ ap'[t].pc \in {"idle", "start", "off", "up"}
      /\ ~ApIsOn => ap'[t].pc = "up" /\ ap'[t].op = "start"
      /\ ap'[t].pc = "up" => ap'[t].op = "start"
  <2>1. CASE ApIsOn BY <1>1, <2>1, ApEnds DEF ApStart
  <2>2. CASE ~ApIsOn BY <1>1, <2>2 DEF ApStart, ApRecord, ApPcs
  <2> QED BY <2>1, <2>2
<1>3. /\ ~offAt' /\ ~offTimer' /\ UNCHANGED <<apOn, mode, cred, live, sta, beaten>>
      /\ (stay' <=> \A u \in Tasks \ {t} : ApAt(u, "idle"))
  BY DEF ApStart, CancelOff
<1>4. ApTypeOK'
  <2>1. offAt' \in BOOLEAN /\ offTimer' \in BOOLEAN /\ stay' \in BOOLEAN BY DEF ApStart, CancelOff
  <2> QED BY <1>1, <1>2, <1>3, <2>1 DEF ApTypeOK, ApRecord, ApPcs
<1>5. CountRuns' BY <1>3 DEF CountRuns
<1>6. AirHeld' BY <1>2, <1>3 DEF ApIInv, AirHeld
<1>7. CredHeld' BY <1>2, <1>3 DEF ApIInv, CredHeld, Raising
<1>8. StayHeld'
  <2>1. SUFFICES ASSUME stay' PROVE StayHeld' BY DEF StayHeld
  <2>2. \A u \in Tasks \ {t} : ap'[u].pc = "idle" BY <1>2, <1>3, <2>1 DEF ApAt
  <2>3. ApIsOn' <=> ApIsOn BY <1>3 DEF ApIsOn
  <2>4. \A u \in Tasks : ap'[u].pc \notin {"count", "stop", "down"} /\ ~Raising(u, "for")'
    BY <1>2, <2>2 DEF Raising
  <2>5. ~ApIsOn => Raising(t, "start")' BY <1>2 DEF Raising
  <2> QED BY <1>3, <2>3, <2>4, <2>5 DEF StayHeld
<1> QED BY <1>4, <1>5, <1>6, <1>7, <1>8 DEF ApIInv

LEMMA StartForSteps == ASSUME ApIInv, NEW t \in Tasks \ {"timer"}, ApStartFor(t) PROVE ApIInv'
<1>1. ApTypeOK /\ "timer" \in Tasks /\ ap \in [Tasks -> ApRecord] BY ApTyped, ApParts DEF ApIInv
<1>2. /\ ap' \in [Tasks -> ApRecord] /\ \A u \in Tasks \ {t} : ap'[u] = ap[u]
  <2> DEFINE p == IF ApIsOn THEN "count" ELSE "up"
             r == [ap[t] EXCEPT !.pc = p, !.op = "for"]
  <2>1. p \in ApPcs BY DEF ApPcs
  <2>2. ap' = [ap EXCEPT ![t].pc = p, ![t].op = "for"] BY DEF ApStartFor
  <2> HIDE DEF p
  <2>3. r \in ApRecord BY <1>1, <2>1 DEF ApRecord
  <2>4. ap' = [ap EXCEPT ![t] = r] BY <1>1, <2>2
  <2> QED BY <1>1, <2>3, <2>4, ApMoves
<1>3. UNCHANGED <<apOn, offAt, offTimer, mode, cred, live, sta, beaten>> /\ ~stay' /\ stay' \in BOOLEAN /\ ap[t].pc = "idle"
  BY DEF ApStartFor, ApAt
<1>4. ApTypeOK' BY <1>1, <1>2, <1>3 DEF ApTypeOK, ApRecord, ApPcs
<1>5. CountRuns' BY <1>1, <1>2, <1>3 DEF ApIInv, CountRuns
<1>6. AirHeld' BY <1>2, <1>3 DEF ApIInv, AirHeld
<1>7. CredHeld' BY <1>2, <1>3 DEF ApIInv, CredHeld, Raising
<1> QED BY <1>3, <1>4, <1>5, <1>6, <1>7 DEF ApIInv, StayHeld

LEMMA UpSteps == ASSUME ApIInv, NEW t \in Tasks, ApUp(t) PROVE ApIInv'
<1>1. ApTypeOK /\ "timer" \in Tasks /\ ap \in [Tasks -> ApRecord] BY ApTyped, ApParts DEF ApIInv
<1>2. /\ ap' \in [Tasks -> ApRecord] /\ \A u \in Tasks \ {t} : ap'[u] = ap[u]
      /\ ap'[t].pc = "mode" /\ ap'[t].op = ap[t].op /\ ap[t].pc = "up"
  <2> DEFINE r == [ap[t] EXCEPT !.pc = "mode", !.cred = cred, !.saw = mode]
  <2>1. cred \in Creds /\ mode \in Modes BY <1>1 DEF ApTypeOK
  <2>2. r \in ApRecord /\ r.pc = "mode" /\ r.op = ap[t].op BY <1>1, <2>1 DEF ApRecord, ApPcs
  <2>3. ap' = [ap EXCEPT ![t] = r] BY <1>1 DEF ApUp
  <2> QED BY <1>1, <2>2, <2>3, ApMoves DEF ApUp, ApAt
<1>3. UNCHANGED <<apOn, offAt, offTimer, mode, cred, live, sta, stay, beaten>> BY DEF ApUp
<1>4. ApTypeOK' BY <1>1, <1>2, <1>3 DEF ApTypeOK, ApRecord, ApPcs
<1>5. CountRuns' BY <1>1, <1>2, <1>3 DEF ApIInv, CountRuns
<1>6. AirHeld' BY <1>2, <1>3 DEF ApIInv, AirHeld
<1>7. CredHeld' BY <1>2, <1>3 DEF ApIInv, CredHeld, Raising
<1>8. StayHeld' BY <1>2, <1>3 DEF ApIInv, StayHeld, Raising, ApIsOn
<1> QED BY <1>4, <1>5, <1>6, <1>7, <1>8 DEF ApIInv

LEMMA ModeSteps == ASSUME ApIInv, NEW t \in Tasks, ApMode(t) PROVE ApIInv'
<1>1. ApTypeOK /\ "timer" \in Tasks /\ ap \in [Tasks -> ApRecord] BY ApTyped, ApParts DEF ApIInv
<1>2. "config" \in ApPcs /\ ApGo(t, "config") BY DEF ApMode, ApPcs
<1>3. /\ ap' \in [Tasks -> ApRecord] /\ \A u \in Tasks \ {t} : ap'[u] = ap[u]
      /\ ap'[t].pc = "config" /\ ap'[t].op = ap[t].op /\ ap'[t].saw = ap[t].saw /\ ap[t].pc = "mode"
  BY <1>1, <1>2, ApGoes DEF ApMode, ApAt
<1>4. /\ UNCHANGED <<apOn, offAt, offTimer, cred, live, sta, stay>>
      /\ mode' \in {"ap", "apsta"} /\ (beaten' <=> (beaten \/ mode # ap[t].saw)) /\ beaten' \in BOOLEAN
  BY DEF ApMode, SetMode
<1>5. ApTypeOK' BY <1>1, <1>3, <1>4 DEF ApTypeOK, ApRecord, ApPcs, Modes
<1>6. CountRuns' BY <1>1, <1>3, <1>4 DEF ApIInv, CountRuns
<1>7. AirHeld'
  <2>1. SUFFICES ASSUME ~beaten', ~apOn' PROVE \E u \in Tasks : ap'[u].pc = "down" \/ (ap'[u].pc = "config" /\ ~Airing(ap'[u].saw))
    BY <1>4 DEF AirHeld, Airing
  <2>2. CASE ~Airing(mode) BY <1>3, <1>4, <2>1, <2>2
  <2>3. CASE Airing(mode)
    <3>1. PICK u \in Tasks : ap[u].pc = "down" \/ (ap[u].pc = "config" /\ ~Airing(ap[u].saw))
      BY <1>4, <2>1, <2>3 DEF ApIInv, AirHeld
    <3>2. u # t BY <1>3, <3>1
    <3> QED BY <1>3, <3>1, <3>2
  <2> QED BY <2>2, <2>3
<1>8. CredHeld' BY <1>3, <1>4 DEF ApIInv, CredHeld, Raising
<1>9. StayHeld'
  <2>1. ApIsOn => ApIsOn' BY <1>4 DEF ApIsOn, Airing
  <2> QED BY <1>3, <1>4, <2>1 DEF ApIInv, StayHeld, Raising
<1> QED BY <1>5, <1>6, <1>7, <1>8, <1>9 DEF ApIInv

LEMMA ConfigSteps == ASSUME ApIInv, NEW t \in Tasks, ApConfig(t) PROVE ApIInv'
<1>1. ApTypeOK /\ "timer" \in Tasks /\ ap \in [Tasks -> ApRecord] BY ApTyped, ApParts DEF ApIInv
<1>2. /\ ap' \in [Tasks -> ApRecord] /\ \A u \in Tasks \ {t} : ap'[u] = ap[u]
      /\ ap'[t].pc \in {"idle", "start", "off", "count"} /\ ap[t].pc = "config"
      /\ ap'[t].pc = "count" => ap[t].op = "for"
  <2>1. CASE ap[t].op = "for"
    <3>1. "count" \in ApPcs /\ ApGo(t, "count") BY <2>1 DEF ApConfig, ApPcs
    <3> QED BY <1>1, <2>1, <3>1, ApGoes DEF ApConfig, ApAt
  <2>2. CASE ap[t].op # "for" BY <1>1, <2>2, ApEnds DEF ApConfig, ApAt
  <2> QED BY <2>1, <2>2
<1>3. /\ UNCHANGED <<offAt, offTimer, mode, cred, sta, stay>>
      /\ live' = ap[t].cred /\ apOn' /\ apOn' \in BOOLEAN /\ beaten' \in BOOLEAN
      /\ (beaten' <=> (beaten \/ cred # ap[t].cred \/ ~Airing(mode)))
  BY DEF ApConfig
<1>4. ApTypeOK'
  <2>1. ap[t].cred \in Creds BY <1>1 DEF ApRecord
  <2> QED BY <1>1, <1>2, <1>3, <2>1 DEF ApTypeOK, ApRecord, ApPcs
<1>5. CountRuns' BY <1>1, <1>2, <1>3 DEF ApIInv, CountRuns
<1>6. AirHeld' BY <1>3 DEF AirHeld
<1>7. CredHeld' BY <1>3 DEF CredHeld
<1>8. StayHeld'
  <2>1. SUFFICES ASSUME stay' PROVE StayHeld' BY DEF StayHeld
  <2>2. ~Raising(t, "for") BY <1>3, <2>1 DEF ApIInv, StayHeld
  <2>3. ap'[t].pc \in {"idle", "start", "off"} BY <1>2, <2>2 DEF Raising
  <2>4. ~beaten' => ApIsOn' BY <1>3 DEF ApIsOn
  <2>5. \A u \in Tasks : ap'[u].pc \notin {"count", "stop", "down"} /\ ~Raising(u, "for")'
    BY <1>2, <1>3, <2>1, <2>3 DEF ApIInv, StayHeld, Raising
  <2> QED BY <1>3, <2>1, <2>4, <2>5 DEF ApIInv, StayHeld
<1> QED BY <1>4, <1>5, <1>6, <1>7, <1>8 DEF ApIInv

LEMMA ConfigFailsSteps == ASSUME ApIInv, NEW t \in Tasks, ApConfigFails(t) PROVE ApIInv'
<1>1. ApTypeOK /\ "timer" \in Tasks /\ ap \in [Tasks -> ApRecord] BY ApTyped, ApParts DEF ApIInv
<1>2. /\ ap' \in [Tasks -> ApRecord] /\ \A u \in Tasks \ {t} : ap'[u] = ap[u]
      /\ ap'[t].pc \in {"idle", "start", "off"} /\ ap[t].pc = "config"
  BY <1>1, ApEnds DEF ApConfigFails, ApAt
<1>3. /\ UNCHANGED <<apOn, offAt, offTimer, cred, live, sta>>
      /\ mode' = ap[t].saw /\ beaten' \in BOOLEAN /\ stay' \in BOOLEAN
      /\ (beaten' <=> (beaten \/ ap[t].op = "set" \/ apOn \/ ~Airing(mode)))
      /\ (stay' <=> (stay /\ ap[t].op # "start"))
  BY DEF ApConfigFails
<1>4. ApTypeOK'
  <2>1. ap[t].saw \in Modes BY <1>1 DEF ApRecord
  <2> QED BY <1>1, <1>2, <1>3, <2>1 DEF ApTypeOK, ApRecord, ApPcs
<1>5. CountRuns' BY <1>1, <1>2, <1>3 DEF ApIInv, CountRuns
<1>6. AirHeld'
  <2>1. SUFFICES ASSUME ~beaten', Airing(mode') PROVE \E u \in Tasks : ap'[u].pc = "down" \/ (ap'[u].pc = "config" /\ ~Airing(ap'[u].saw))
    BY <1>3 DEF AirHeld
  <2>2. PICK u \in Tasks : ap[u].pc = "down" \/ (ap[u].pc = "config" /\ ~Airing(ap[u].saw))
    BY <1>3, <2>1 DEF ApIInv, AirHeld
  <2>3. u # t BY <1>2, <1>3, <2>1, <2>2
  <2> QED BY <1>2, <2>2, <2>3
<1>7. CredHeld' BY <1>3 DEF CredHeld
<1>8. StayHeld'
  <2>1. SUFFICES ASSUME stay' PROVE StayHeld' BY DEF StayHeld
  <2>2. stay /\ ap[t].op # "start" BY <1>3, <2>1
  <2>3. ~beaten' => \E u \in Tasks : Raising(u, "start")'
    <3>1. SUFFICES ASSUME ~beaten' PROVE \E u \in Tasks : Raising(u, "start")' OBVIOUS
    <3>2. ~apOn /\ ~beaten BY <1>3, <3>1
    <3>3. PICK u \in Tasks : Raising(u, "start") BY <2>2, <3>2 DEF ApIInv, StayHeld, ApIsOn
    <3>4. u # t BY <2>2, <3>3 DEF Raising
    <3> QED BY <1>2, <3>3, <3>4 DEF Raising
  <2>4. \A u \in Tasks : ap'[u].pc \notin {"count", "stop", "down"} /\ ~Raising(u, "for")'
    BY <1>2, <2>2 DEF ApIInv, StayHeld, Raising
  <2> QED BY <1>3, <2>2, <2>3, <2>4 DEF ApIInv, StayHeld
<1> QED BY <1>4, <1>5, <1>6, <1>7, <1>8 DEF ApIInv

LEMMA CountSteps == ASSUME ApIInv, NEW t \in Tasks, ApCount(t) PROVE ApIInv'
<1>1. ApTypeOK /\ ap \in [Tasks -> ApRecord] BY ApTyped DEF ApIInv
<1>2. /\ ap' \in [Tasks -> ApRecord] /\ \A u \in Tasks \ {t} : ap'[u] = ap[u]
      /\ ap'[t].pc \in {"idle", "start", "off"} /\ ap[t].pc = "count"
  BY <1>1, ApEnds DEF ApCount, ApAt
<1>3. UNCHANGED <<apOn, mode, cred, live, sta, stay, beaten>> /\ offAt' /\ offTimer' /\ {offAt', offTimer'} \subseteq BOOLEAN
  BY DEF ApCount
<1>4. ApTypeOK' BY <1>1, <1>2, <1>3 DEF ApTypeOK, ApRecord, ApPcs
<1>5. CountRuns' BY <1>3 DEF CountRuns
<1>6. AirHeld' BY <1>2, <1>3 DEF ApIInv, AirHeld
<1>7. CredHeld' BY <1>2, <1>3 DEF ApIInv, CredHeld, Raising
<1>8. StayHeld' BY <1>2, <1>3 DEF ApIInv, StayHeld
<1> QED BY <1>4, <1>5, <1>6, <1>7, <1>8 DEF ApIInv

LEMMA TimerSteps == ASSUME ApIInv, OffTimer PROVE ApIInv'
<1>1. ApTypeOK /\ "timer" \in Tasks /\ ap \in [Tasks -> ApRecord] BY ApTyped, ApParts DEF ApIInv
<1>2. /\ ap' \in [Tasks -> ApRecord] /\ \A u \in Tasks \ {"timer"} : ap'[u] = ap[u]
      /\ offAt => ap'["timer"].pc = "stop"
      /\ ap["timer"].pc = "idle"
  <2>1. CASE offAt
    <3>1. "stop" \in ApPcs /\ ApGo("timer", "stop") BY <2>1 DEF OffTimer, ApPcs
    <3> QED BY <1>1, <3>1, ApGoes DEF OffTimer, ApAt
  <2>2. CASE ~offAt BY <1>1, <2>2 DEF OffTimer, ApAt
  <2> QED BY <2>1, <2>2
<1>3. UNCHANGED <<apOn, offAt, mode, cred, live, sta, stay, beaten>> /\ offTimer' \in BOOLEAN /\ offTimer
  BY DEF OffTimer
<1>4. ApTypeOK' BY <1>1, <1>2, <1>3 DEF ApTypeOK, ApRecord, ApPcs
<1>5. CountRuns' BY <1>2, <1>3 DEF CountRuns
<1>6. AirHeld' BY <1>2, <1>3 DEF ApIInv, AirHeld
<1>7. CredHeld' BY <1>2, <1>3 DEF ApIInv, CredHeld, Raising
<1>8. StayHeld' BY <1>3 DEF ApIInv, StayHeld
<1> QED BY <1>4, <1>5, <1>6, <1>7, <1>8 DEF ApIInv

LEMMA OffSteps ==
    ASSUME ApIInv, NEW t \in Tasks \ {"timer"}, ap[t].pc \in {"idle", "off"}, ApOff(t) PROVE ApIInv'
<1>1. ApTypeOK /\ "timer" \in Tasks /\ ap \in [Tasks -> ApRecord] BY ApTyped, ApParts DEF ApIInv
<1>2. UNCHANGED <<apOn, offAt, offTimer, mode, cred, live, sta, beaten>> BY DEF ApOff
<1>3. /\ ap' \in [Tasks -> ApRecord] /\ \A u \in Tasks \ {t} : ap'[u] = ap[u]
      /\ stay' => stay /\ ap'[t].pc \in {"idle", "start", "off"}
      /\ stay' \in BOOLEAN
  <2>1. CASE t \in ApCallers \/ ApIsOn
    <3>1. "stop" \in ApPcs /\ ApGo(t, "stop") /\ stay' = FALSE BY <2>1 DEF ApOff, ApPcs
    <3> QED BY <1>1, <3>1, ApGoes
  <2>2. CASE ~(t \in ApCallers \/ ApIsOn) BY <1>1, <2>2, ApEnds DEF ApOff, ApTypeOK
  <2> QED BY <2>1, <2>2
<1>4. ApTypeOK' BY <1>1, <1>2, <1>3 DEF ApTypeOK, ApRecord, ApPcs
<1>5. CountRuns' BY <1>1, <1>2, <1>3 DEF ApIInv, CountRuns
<1>6. AirHeld' BY <1>2, <1>3 DEF ApIInv, AirHeld
<1>7. CredHeld' BY <1>2, <1>3 DEF ApIInv, CredHeld, Raising
<1>8. StayHeld'
  <2>1. SUFFICES ASSUME stay' PROVE StayHeld' BY DEF StayHeld
  <2>2. ApIsOn' <=> ApIsOn BY <1>2 DEF ApIsOn
  <2> QED BY <1>2, <1>3, <2>1, <2>2 DEF ApIInv, StayHeld, Raising
<1> QED BY <1>4, <1>5, <1>6, <1>7, <1>8 DEF ApIInv

LEMMA StopSteps == ASSUME ApIInv, NEW t \in Tasks, ApStop(t) PROVE ApIInv'
<1>1. ApTypeOK /\ ap \in [Tasks -> ApRecord] BY ApTyped DEF ApIInv
<1>2. UNCHANGED <<mode, cred, live, sta, stay, beaten>> /\ ~offAt' /\ ~offTimer' /\ ~apOn' /\ {offAt', offTimer', apOn'} \subseteq BOOLEAN
  BY DEF ApStop, CancelOff
<1>3. /\ ap' \in [Tasks -> ApRecord] /\ \A u \in Tasks \ {t} : ap'[u] = ap[u]
      /\ Airing(mode) => ap'[t].pc = "down"
      /\ ap[t].pc = "stop"
  <2>1. CASE Airing(mode) BY <1>1, <2>1 DEF ApStop, ApAt, ApRecord, ApPcs, ApTypeOK
  <2>2. CASE ~Airing(mode) BY <1>1, <2>2, ApEnds DEF ApStop, ApAt
  <2> QED BY <2>1, <2>2
<1>4. ApTypeOK' BY <1>1, <1>2, <1>3 DEF ApTypeOK, ApRecord, ApPcs
<1>5. CountRuns' BY <1>2 DEF CountRuns
<1>6. AirHeld' BY <1>2, <1>3 DEF AirHeld
<1>7. CredHeld' BY <1>2 DEF CredHeld
<1>8. StayHeld' BY <1>2, <1>3 DEF ApIInv, StayHeld
<1> QED BY <1>4, <1>5, <1>6, <1>7, <1>8 DEF ApIInv

LEMMA DownSteps == ASSUME ApIInv, NEW t \in Tasks, ApDown(t) PROVE ApIInv'
<1>1. ApTypeOK /\ "timer" \in Tasks /\ ap \in [Tasks -> ApRecord] BY ApTyped, ApParts DEF ApIInv
<1>2. /\ ap' \in [Tasks -> ApRecord] /\ \A u \in Tasks \ {t} : ap'[u] = ap[u]
      /\ ap'[t].pc \in {"idle", "start", "off"} /\ ap[t].pc = "down"
  BY <1>1, ApEnds DEF ApDown, ApAt
<1>3. /\ UNCHANGED <<apOn, offAt, offTimer, cred, live, sta, stay>> /\ mode' = "sta" /\ beaten' \in BOOLEAN
      /\ (beaten' <=> (beaten \/ mode # ap[t].saw \/ apOn))
  BY DEF ApDown
<1>4. ApTypeOK' BY <1>1, <1>2, <1>3 DEF ApTypeOK, ApRecord, ApPcs, Modes
<1>5. CountRuns' BY <1>1, <1>2, <1>3 DEF ApIInv, CountRuns
<1>6. AirHeld' BY <1>3 DEF AirHeld, Airing
<1>7. CredHeld' BY <1>3 DEF CredHeld
<1>8. StayHeld' BY <1>2, <1>3 DEF ApIInv, StayHeld
<1> QED BY <1>4, <1>5, <1>6, <1>7, <1>8 DEF ApIInv

LEMMA SetCredentialsSteps ==
    ASSUME ApIInv, NEW t \in Tasks \ {"timer"}, NEW c \in Creds, NEW next \in {"idle", "start", "off"},
           ApSetCredentials(t, c, next)
    PROVE  ApIInv'
<1>1. ApTypeOK /\ "timer" \in Tasks /\ ap \in [Tasks -> ApRecord] BY ApTyped, ApParts DEF ApIInv
<1>2. UNCHANGED <<apOn, offAt, offTimer, mode, live, sta, stay, beaten>> /\ cred' = c /\ ap[t].pc = "idle"
  BY DEF ApSetCredentials, ApAt
<1>3. /\ ap' \in [Tasks -> ApRecord] /\ \A u \in Tasks \ {t} : ap'[u] = ap[u]
      /\ ap'[t].pc \in {"idle", "start", "off", "up"}
      /\ ap'[t].pc = "up" => ap'[t].op = "set"
      /\ ApIsOn => ap'[t].pc = "up"
  <2>1. CASE ApIsOn
    <3> DEFINE r == [ap[t] EXCEPT !.pc = "up", !.op = "set", !.next = next]
    <3>1. r \in ApRecord /\ r.pc = "up" /\ r.op = "set" BY <1>1 DEF ApRecord, ApPcs
    <3>2. ap' = [ap EXCEPT ![t] = r] BY <1>1, <2>1 DEF ApSetCredentials
    <3> QED BY <1>1, <3>1, <3>2, ApMoves
  <2>2. CASE ~ApIsOn BY <1>1, <2>2 DEF ApSetCredentials, ApRecord, ApPcs
  <2> QED BY <2>1, <2>2
<1>4. ApTypeOK' BY <1>1, <1>2, <1>3 DEF ApTypeOK, ApRecord, ApPcs
<1>5. CountRuns' BY <1>1, <1>2, <1>3 DEF ApIInv, CountRuns
<1>6. AirHeld' BY <1>2, <1>3 DEF ApIInv, AirHeld
<1>7. CredHeld' BY <1>2, <1>3 DEF ApIInv, AirHeld, CredHeld, Raising, ApIsOn
<1>8. StayHeld'
  <2>1. SUFFICES ASSUME stay' PROVE StayHeld' BY DEF StayHeld
  <2>2. ApIsOn' <=> ApIsOn BY <1>2 DEF ApIsOn
  <2> QED BY <1>2, <1>3, <2>1, <2>2 DEF ApIInv, StayHeld, Raising
<1> QED BY <1>4, <1>5, <1>6, <1>7, <1>8 DEF ApIInv

LEMMA PatchSteps ==
    ASSUME ApIInv, NEW next \in {"idle", "start", "off"}, ApAt(ApServer, "idle"), ApGo(ApServer, next),
           UNCHANGED <<apOn, offAt, offTimer, mode, cred, live, sta, stay, beaten>>
    PROVE  ApIInv'
<1>1. ApTypeOK /\ "timer" \in Tasks /\ ApServer \in Tasks \ {"timer"} /\ ap \in [Tasks -> ApRecord]
  BY ApTyped, ApParts DEF ApIInv
<1>2. next \in ApPcs BY DEF ApPcs
<1>3. /\ ap' \in [Tasks -> ApRecord] /\ \A u \in Tasks \ {ApServer} : ap'[u] = ap[u]
      /\ ap'[ApServer].pc = next /\ ap[ApServer].pc = "idle"
  BY <1>1, <1>2, ApGoes DEF ApAt
<1>4. ApTypeOK' BY <1>1, <1>3 DEF ApTypeOK, ApRecord, ApPcs
<1>5. CountRuns' BY <1>1, <1>3 DEF ApIInv, CountRuns
<1>6. AirHeld' BY <1>1, <1>3 DEF ApIInv, AirHeld
<1>7. CredHeld' BY <1>1, <1>3 DEF ApIInv, CredHeld, Raising
<1>8. StayHeld' BY <1>1, <1>3 DEF ApIInv, StayHeld, Raising, ApIsOn
<1> QED BY <1>4, <1>5, <1>6, <1>7, <1>8 DEF ApIInv

LEMMA StationSteps == ASSUME ApIInv, StaLook \/ StaMode PROVE ApIInv'
<1>1. ApTypeOK /\ ap' = ap BY DEF ApIInv, StaLook, StaMode
<1>2. UNCHANGED <<apOn, offAt, offTimer, cred, live, stay>> /\ (beaten => beaten')
      /\ (~beaten' => (Airing(mode') <=> Airing(mode)))
  BY DEF StaLook, StaMode, SetMode, Airing
<1>3. beaten' \in BOOLEAN /\ mode' \in Modes /\ sta' \in Modes \cup {"none"}
  BY <1>1 DEF StaLook, StaMode, SetMode, ApTypeOK, Modes
<1>4. ApTypeOK' BY <1>1, <1>2, <1>3 DEF ApTypeOK
<1>5. CountRuns' BY <1>1, <1>2 DEF ApIInv, CountRuns
<1>6. AirHeld' BY <1>1, <1>2 DEF ApIInv, AirHeld
<1>7. CredHeld' BY <1>1, <1>2 DEF ApIInv, CredHeld, Raising
<1>8. StayHeld' BY <1>1, <1>2 DEF ApIInv, StayHeld, Raising, ApIsOn
<1> QED BY <1>4, <1>5, <1>6, <1>7, <1>8 DEF ApIInv

LEMMA ApSteps == ApIInv /\ [ApNext]_apVars => ApIInv'
<1> SUFFICES ASSUME ApIInv, [ApNext]_apVars PROVE ApIInv' OBVIOUS
<1>1. CASE UNCHANGED apVars
  BY <1>1 DEF apVars, ApIInv, ApTypeOK, CountRuns, AirHeld, CredHeld, StayHeld, Raising, ApIsOn
<1>2. ASSUME NEW t \in ApCallers, ApCaller(t) PROVE ApIInv'
  <2>1. t \in Tasks \ {"timer"} /\ ap[t].pc = "idle" BY <1>2, ApParts DEF ApCaller, ApAt
  <2> QED BY <1>2, <2>1, StartSteps, StartForSteps, OffSteps, SetCredentialsSteps DEF ApCaller
<1>3. CASE ApRequest(ApServer)
  <2>1. ApServer \in Tasks \ {"timer"} BY ApParts
  <2>2. CASE ApPatch(ApServer)
    BY <2>1, <2>2, SetCredentialsSteps, PatchSteps DEF ApPatch
  <2>3. CASE ~ApPatch(ApServer)
    BY <1>3, <2>1, <2>3, StartSteps, OffSteps DEF ApRequest, ApAt
  <2> QED BY <2>2, <2>3
<1>4. ASSUME NEW t \in Tasks, ApStep(t) PROVE ApIInv'
  BY <1>4, UpSteps, ModeSteps, ConfigSteps, ConfigFailsSteps, CountSteps, StopSteps, DownSteps DEF ApStep
<1> QED BY <1>1, <1>2, <1>3, <1>4, TimerSteps, StationSteps DEF ApNext

LEMMA ApPromises == ApIInv => ApTypeOK /\ ApKeepsItsWord
<1> SUFFICES ASSUME ApIInv, ApQuiet PROVE (stay /\ ~beaten => ApIsOn /\ ~offAt) /\ (offAt => offTimer)
                 /\ (~beaten => (apOn <=> Airing(mode)) /\ (apOn => live = cred))
  BY DEF ApIInv, ApKeepsItsWord, StaysOn, ApSettles
<1>1. \A t \in Tasks : ap[t].pc = "idle" BY DEF ApQuiet, ApAt
<1>2. stay /\ ~beaten => ApIsOn /\ ~offAt BY <1>1 DEF ApIInv, StayHeld, Raising
<1>3. offAt => offTimer BY <1>1, ApParts DEF ApIInv, CountRuns
<1>4. ~beaten => (apOn <=> Airing(mode)) BY <1>1 DEF ApIInv, AirHeld
<1>5. ~beaten /\ apOn => live = cred BY <1>1 DEF ApIInv, CredHeld, Raising
<1> QED BY <1>2, <1>3, <1>4, <1>5

----------------------------------------------------------------------------
(* The import of a configuration. *)

Places == 1 .. Len(Order) + 1

ImportRecord ==
    [pc : {"idle", "export", "aside", "in", "apply"}, text : Contents, before : Contents,
     replace : BOOLEAN, at : Places, erased : BOOLEAN]

NvsTyped ==
    /\ nvs \in Contents /\ files \in [Files -> Contents \cup {Absent}]
    /\ imp \in ImportRecord
    /\ good \in Contents /\ snaps \in 0 .. MaxSnaps

\* Half of a retype has been done, or none of it
HalfOfOne == imp.erased => Doing = "retype"

\* Which of the snapshots holds the configuration to come back to
Kept ==
    ~bare =>
       /\ torn => snaps >= 1
       /\ torn /\ snaps = 1 => files["snapshot"] = good /\ imp.pc \in {"idle", "export", "apply"}
       /\ torn /\ snaps = 2 =>
             CASE imp.pc = "aside" -> files["snapshot"] = good
               [] imp.pc \in {"in", "apply"} -> files["prev"] = good
               [] OTHER -> good \in {files["snapshot"], files["prev"]}
       /\ ~torn /\ imp.pc \in {"aside", "in"} => snaps = 1 /\ files["next"] = good
       /\ ~torn /\ imp.pc = "apply" => snaps = 1 /\ files["snapshot"] = good

\* What an import makes of an entry
Target(text, before, replace, e) ==
    IF e \in Excluded THEN before[e]
    ELSE IF text[e] # Absent THEN text[e]
    ELSE IF replace /\ \E d \in Entries \ Excluded : NsOf[d] = NsOf[e] /\ text[d] # Absent
         THEN Absent ELSE before[e]

\* The entries behind it are what they are to be, those ahead what they were
Halfway(now, i) ==
    \A k \in 1 .. Len(Order) :
       now.nvs[Order[k]] =
          IF k < i.at THEN Target(i.text, i.before, i.replace, Order[k])
          ELSE IF k = i.at /\ i.erased THEN Absent ELSE i.before[Order[k]]

InOrder == imp.pc # "idle" /\ ~disturbed => Halfway([nvs |-> nvs], imp)

NvsIInv == NvsTyped /\ HalfOfOne /\ Kept /\ InOrder

----------------------------------------------------------------------------

\* The places of an order that have something to do have a first
LEMMA Least ==
    ASSUME NEW T \in SUBSET Nat, T # {}
    PROVE  \E x \in T : \A y \in T : x <= y
<1>1. IsWellFoundedOn(OpToRel(<, Nat), Nat) BY NatLessThanWellFounded
<1>2. PICK x \in T : \A y \in T : <<y, x>> \notin OpToRel(<, Nat) BY <1>1, WFMin
<1>3. ASSUME NEW y \in T PROVE x <= y
  <2>1. ~(y < x) BY <1>2 DEF OpToRel
  <2> QED BY <2>1
<1> QED BY <1>3

\* The order is of entries, and has every one
LEMMA Numbered ==
    /\ Len(Order) \in Nat /\ DOMAIN Order = 1 .. Len(Order)
    /\ \A k \in 1 .. Len(Order) : Order[k] \in Entries
    /\ \A e \in Entries : \E k \in 1 .. Len(Order) : e = Order[k]
<1>1. Order \in Seq(Entries) BY NvsAssumption
<1>2. Len(Order) \in Nat /\ DOMAIN Order = 1 .. Len(Order) BY <1>1
<1> QED BY <1>1, <1>2 DEF Entries

\* The next entry to do is the first from there on, or there is none
LEMMA NextToDo ==
    ASSUME NEW todo, NEW i \in Places
    PROVE  /\ NextOf(todo, i) \in Places /\ NextOf(todo, i) >= i
           /\ NextOf(todo, i) <= Len(Order) => Order[NextOf(todo, i)] \in todo
           /\ \A k \in i .. NextOf(todo, i) - 1 : Order[k] \notin todo
<1> DEFINE P(j) == /\ j <= Len(Order) => Order[j] \in todo
                   /\ \A k \in i .. j - 1 : Order[k] \notin todo
           T == {j \in i .. Len(Order) + 1 : j <= Len(Order) => Order[j] \in todo}
<1>1. Len(Order) \in Nat BY Numbered
<1>2. T \in SUBSET Nat /\ Len(Order) + 1 \in T BY <1>1 DEF Places
<1>3. PICK x \in T : \A y \in T : x <= y BY <1>2, Least
<1>4. x \in i .. Len(Order) + 1 /\ P(x)
  <2>1. ASSUME NEW k \in i .. x - 1, Order[k] \in todo PROVE FALSE
    <3>1. k \in T /\ k \in Nat /\ x \in Nat BY <2>1, <1>1, <1>3 DEF Places
    <3> QED BY <3>1, <1>3
  <2> QED BY <2>1, <1>3
<1>5. NextOf(todo, i) = CHOOSE j \in i .. Len(Order) + 1 : P(j) BY DEF NextOf
<1>6. NextOf(todo, i) \in i .. Len(Order) + 1 /\ P(NextOf(todo, i)) BY <1>4, <1>5
<1> QED BY <1>1, <1>6 DEF Places

\* What an import leaves alone is to stay, and what it does is what it is to do
LEMMA Asks ==
    ASSUME NEW text, NEW before, NEW replace, NEW e \in Entries
    PROVE  /\ e \notin Todo(text, before, replace) => Target(text, before, replace, e) = before[e]
           /\ Does(text, before, replace, e) \in {"add", "change", "retype"} =>
                 Target(text, before, replace, e) = text[e]
           /\ Does(text, before, replace, e) = "remove" => Target(text, before, replace, e) = Absent
<1>1. Manages(text, NsOf[e]) <=> \E d \in Entries \ Excluded : NsOf[d] = NsOf[e] /\ text[d] # Absent
  BY DEF Manages, IsExcluded
<1> QED BY <1>1 DEF Target, Todo, Does, IsExcluded

LEMMA ImportFields ==
    ASSUME NEW i \in ImportRecord
    PROVE  /\ i.pc \in {"idle", "export", "aside", "in", "apply"} /\ i.text \in Contents /\ i.before \in Contents
           /\ i.replace \in BOOLEAN /\ i.at \in Places /\ i.erased \in BOOLEAN
  BY DEF ImportRecord

\* A step of the apply goes on to the next entry to do
LEMMA GoesOn ==
    ASSUME NvsTyped, Doing # "done", Onward
    PROVE  /\ imp' \in ImportRecord /\ ~imp'.erased
           /\ imp'.pc = imp.pc /\ imp'.text = imp.text /\ imp'.before = imp.before /\ imp'.replace = imp.replace
           /\ imp'.at = NextOf(Todo(imp.text, imp.before, imp.replace), imp.at + 1)
           /\ imp.at \in 1 .. Len(Order) /\ imp.at + 1 \in Places
<1>1. imp \in ImportRecord /\ imp.at \in Places BY ImportFields DEF NvsTyped
<1>2. Len(Order) \in Nat BY Numbered
<1>3. imp.at <= Len(Order) BY DEF Doing
<1>4. imp.at \in 1 .. Len(Order) /\ imp.at + 1 \in Places BY <1>1, <1>2, <1>3 DEF Places
<1> DEFINE n == NextOf(Todo(imp.text, imp.before, imp.replace), imp.at + 1)
<1>5. n \in Places BY <1>4, NextToDo
<1>6. imp' = [imp EXCEPT !.erased = FALSE, !.at = n] BY DEF Onward
<1> HIDE DEF n
<1>7. imp' \in ImportRecord /\ ~imp'.erased /\ imp'.at = n BY <1>1, <1>5, <1>6 DEF ImportRecord
<1>8. imp'.pc = imp.pc /\ imp'.text = imp.text /\ imp'.before = imp.before /\ imp'.replace = imp.replace
  BY <1>1, <1>6 DEF ImportRecord
<1> QED BY <1>4, <1>7, <1>8 DEF n

LEMMA IdleImport ==
    NoImport \in ImportRecord /\ NoImport.pc = "idle" /\ ~NoImport.erased
<1>1. NoEntries \in Contents BY DEF NoEntries, Contents
<1>2. 1 \in Places BY Numbered DEF Places
<1> QED BY <1>1, <1>2 DEF NoImport, ImportRecord

\* An export is a configuration
LEMMA Exporting == ASSUME NEW c \in Contents PROVE Exported(c) \in Contents
  BY DEF Exported, Contents

----------------------------------------------------------------------------
(* Each step keeps the types. *)

LEMMA ImportTyped ==
    ASSUME NvsIInv, NEW file, file.text \in Contents, NEW o \in Options, Import(file, o)
    PROVE  /\ NvsTyped' /\ ~imp'.erased
           /\ imp'.pc \in {"export", "apply"} /\ (imp'.pc = "export" <=> o.keep)
           /\ imp'.text = file.text /\ imp'.before = nvs
           /\ imp'.at = NextOf(Todo(imp'.text, imp'.before, imp'.replace), 1)
<1> DEFINE n == NextOf(Todo(file.text, nvs, o.replace), 1)
<1>1. 1 \in Places BY Numbered DEF Places
<1>2. n \in Places BY <1>1, NextToDo
<1>3. o.replace \in BOOLEAN /\ o.keep \in BOOLEAN BY DEF Options
<1>4. nvs \in Contents /\ snaps \in 0 .. MaxSnaps BY DEF NvsIInv, NvsTyped
<1>5. imp' = [pc |-> IF o.keep THEN "export" ELSE "apply", text |-> file.text, before |-> nvs,
              replace |-> o.replace, at |-> n, erased |-> FALSE]
  BY DEF Import
<1>6. imp'.at = NextOf(Todo(imp'.text, imp'.before, imp'.replace), 1) BY <1>5
<1> HIDE DEF n
<1>7. imp' \in ImportRecord BY <1>2, <1>3, <1>4, <1>5 DEF ImportRecord
<1>8. snaps' \in 0 .. MaxSnaps BY <1>4, NvsAssumption DEF Import
<1>9. /\ ~imp'.erased /\ imp'.pc \in {"export", "apply"} /\ (imp'.pc = "export" <=> o.keep)
      /\ imp'.text = file.text /\ imp'.before = nvs
  BY <1>3, <1>5
<1> QED BY <1>6, <1>7, <1>8, <1>9 DEF Import, NvsIInv, NvsTyped

LEMMA SnapshotTyped == ASSUME NvsIInv, Snapshot PROVE NvsTyped'
<1>1. Exported(nvs) \in Contents BY Exporting DEF NvsIInv, NvsTyped
<1>2. imp \in ImportRecord BY DEF NvsIInv, NvsTyped
<1>3. imp' \in ImportRecord BY <1>2, IdleImport DEF Snapshot, Refuse, ImportRecord
<1>4. files' \in [Files -> Contents \cup {Absent}]
  BY <1>1 DEF Snapshot, ExportTo, NvsIInv, NvsTyped, Files, Snapshots
<1>5. good' \in Contents /\ snaps' \in 0 .. MaxSnaps
  BY <1>1, NvsAssumption DEF Snapshot, NvsIInv, NvsTyped
<1> QED BY <1>3, <1>4, <1>5 DEF Snapshot, NvsIInv, NvsTyped

LEMMA MoveTyped == ASSUME NvsIInv, MoveAside \/ MoveIn PROVE NvsTyped'
<1>1. imp \in ImportRecord BY DEF NvsIInv, NvsTyped
<1>2. imp' \in ImportRecord BY <1>1, IdleImport DEF MoveAside, MoveIn, Refuse, ImportRecord
<1>3. files' \in [Files -> Contents \cup {Absent}]
  BY DEF MoveAside, MoveIn, Moves, MovedTo, NvsIInv, NvsTyped, Files, Snapshots
<1> QED BY <1>2, <1>3 DEF MoveAside, MoveIn, history, NvsIInv, NvsTyped

LEMMA ApplyTyped == ASSUME NvsIInv, SetOne \/ EraseOne \/ WriteFails \/ Succeed PROVE NvsTyped'
<1>1. imp \in ImportRecord /\ nvs \in Contents /\ imp.text \in Contents
  BY ImportFields DEF NvsIInv, NvsTyped
<1>2. imp' \in ImportRecord
  <2>1. CASE SetOne BY <2>1, GoesOn DEF SetOne, NvsIInv
  <2>2. CASE EraseOne
    <3>1. CASE Doing = "remove" BY <2>2, <3>1, GoesOn DEF EraseOne, NvsIInv
    <3>2. CASE Doing # "remove" BY <2>2, <3>2, <1>1 DEF EraseOne, ImportRecord
    <3> QED BY <3>1, <3>2
  <2> QED BY <2>1, <2>2, IdleImport DEF WriteFails, Succeed
<1>3. nvs' \in Contents
  BY <1>1 DEF SetOne, EraseOne, WriteFails, Succeed, Contents
<1> QED BY <1>2, <1>3 DEF SetOne, EraseOne, WriteFails, Succeed, history, NvsIInv, NvsTyped

\* The other commands, the other tasks and a restart
OtherSteps ==
    \/ \E f \in Files : Export(f)
    \/ \E w \in Written : Other(w) \/ \E outside \in BOOLEAN : SetValue(w, outside)
    \/ \E e \in Entries : EraseEntries({e}) \/ EraseEntries({d \in Entries : NsOf[d] = NsOf[e]})
    \/ OtherCommand \/ NvsRestart

LEMMA OthersLeave ==
    ASSUME NvsIInv, OtherSteps
    PROVE  /\ NvsTyped'
           /\ \A f \in Snapshots : files'[f] = files[f]
           /\ UNCHANGED <<good, torn, snaps, bare>>
           /\ \/ UNCHANGED <<imp, nvs, disturbed>>
              \/ UNCHANGED imp /\ disturbed'
              \/ imp' = NoImport
<1>1. ASSUME NEW f \in Files, Export(f) PROVE files' \in [Files -> Contents \cup {Absent}] /\ \A g \in Snapshots : files'[g] = files[g]
  <2>1. Exported(nvs) \in Contents BY Exporting DEF NvsIInv, NvsTyped
  <2> QED BY <1>1, <2>1 DEF Export, ExportTo, NvsIInv, NvsTyped, Snapshots, Files
<1>2. \A w \in Written : w.of \in Entries /\ w.value \in Values BY NvsAssumption
<1>3. nvs \in Contents BY DEF NvsIInv, NvsTyped
<1>4. nvs' \in Contents
  BY <1>2, <1>3 DEF OtherSteps, Export, Other, SetValue, EraseEntries, OtherCommand, NvsRestart, Contents
<1>5. imp' \in ImportRecord
  BY IdleImport DEF OtherSteps, Export, Other, SetValue, EraseEntries, OtherCommand, NvsRestart, NvsIInv, NvsTyped
<1>6. files' \in [Files -> Contents \cup {Absent}] /\ \A g \in Snapshots : files'[g] = files[g]
  BY <1>1 DEF OtherSteps, Other, SetValue, EraseEntries, OtherCommand, NvsRestart, NvsIInv, NvsTyped
<1>7. UNCHANGED <<good, torn, snaps, bare>>
  BY DEF OtherSteps, Export, Other, SetValue, EraseEntries, OtherCommand, NvsRestart, history
<1>8. UNCHANGED <<imp, nvs, disturbed>> \/ (UNCHANGED imp /\ disturbed') \/ imp' = NoImport
  BY DEF OtherSteps, Export, Other, SetValue, EraseEntries, OtherCommand, NvsRestart, history
<1> QED BY <1>4, <1>5, <1>6, <1>7, <1>8 DEF NvsIInv, NvsTyped

----------------------------------------------------------------------------
(* Each step keeps the rest. *)

LEMMA ImportSteps ==
    ASSUME NvsIInv, NEW file, file.text \in Contents, NEW o \in Options, Import(file, o)
    PROVE  NvsIInv'
<1> DEFINE T == Todo(imp'.text, imp'.before, imp'.replace)
<1>1. /\ NvsTyped' /\ ~imp'.erased /\ imp'.pc \in {"export", "apply"} /\ (imp'.pc = "export" <=> o.keep)
      /\ imp'.before = nvs /\ imp'.at = NextOf(T, 1)
  BY ImportTyped
<1>2. HalfOfOne' BY <1>1 DEF HalfOfOne
<1>3. Kept'
  <2>1. imp.pc = "idle" /\ (bare' <=> (bare \/ ~o.keep)) /\ UNCHANGED <<files, good, torn>>
        /\ snaps' = IF torn \/ o.keep THEN snaps ELSE 0
    BY DEF Import
  <2>2. SUFFICES ASSUME ~bare' PROVE Kept' BY DEF Kept
  <2>3. ~bare /\ o.keep /\ snaps' = snaps /\ imp'.pc = "export" BY <1>1, <2>1, <2>2
  <2> QED BY <2>1, <2>3 DEF Kept, NvsIInv
<1>4. InOrder'
  <2>1. nvs' = nvs BY DEF Import
  <2>2. 1 \in Places /\ Len(Order) \in Nat BY Numbered DEF Places
  <2>3. /\ imp'.at \in Places
        /\ \A k \in 1 .. imp'.at - 1 : Order[k] \notin T
    BY <1>1, <2>2, NextToDo
  <2>4. ASSUME NEW k \in 1 .. Len(Order)
        PROVE  nvs'[Order[k]] = IF k < imp'.at THEN Target(imp'.text, imp'.before, imp'.replace, Order[k])
                               ELSE IF k = imp'.at /\ imp'.erased THEN Absent ELSE imp'.before[Order[k]]
    <3>1. CASE k < imp'.at
      <4>1. k \in 1 .. imp'.at - 1 BY <2>2, <2>3, <3>1 DEF Places
      <4>2. Order[k] \notin T /\ Order[k] \in Entries BY <2>3, <4>1, Numbered
      <4> QED BY <1>1, <2>1, <3>1, <4>2, Asks
    <3>2. CASE ~(k < imp'.at) BY <1>1, <2>1, <3>2
    <3> QED BY <3>1, <3>2
  <2> QED BY <2>4 DEF InOrder, Halfway
<1> QED BY <1>1, <1>2, <1>3, <1>4 DEF NvsIInv

LEMMA SnapshotSteps == ASSUME NvsIInv, Snapshot PROVE NvsIInv'
<1>1. imp \in ImportRecord /\ imp.pc = "export" /\ UNCHANGED <<nvs, torn, disturbed>> BY DEF NvsIInv, NvsTyped, Snapshot
<1>2. CASE /\ ExportTo("next")
           /\ imp' = [imp EXCEPT !.pc = "aside"]
           /\ good' = IF torn THEN good ELSE Exported(nvs)
           /\ snaps' = IF ~torn THEN 1 ELSE IF snaps < MaxSnaps THEN snaps + 1 ELSE snaps
           /\ bare' = (bare /\ torn)
  <2>1. /\ imp'.pc = "aside" /\ imp'.at = imp.at /\ imp'.text = imp.text /\ imp'.before = imp.before
        /\ imp'.replace = imp.replace /\ imp'.erased = imp.erased
    BY <1>1, <1>2 DEF ImportRecord
  <2>2. /\ files'["next"] = Exported(nvs) /\ files'["snapshot"] = files["snapshot"]
    BY <1>2 DEF ExportTo, NvsIInv, NvsTyped, Files, Snapshots
  <2>3. Kept'
    <3>1. SUFFICES ASSUME ~bare' PROVE Kept' BY DEF Kept
    <3>2. CASE ~torn BY <1>1, <1>2, <2>1, <2>2, <3>2 DEF Kept
    <3>3. CASE torn
      <4>1. ~bare /\ snaps >= 1 /\ (snaps = 1 => files["snapshot"] = good) BY <1>2, <3>1, <3>3 DEF NvsIInv, Kept
      <4>2. snaps \in 0 .. MaxSnaps /\ MaxSnaps \in Nat /\ MaxSnaps > 2 BY NvsAssumption DEF NvsIInv, NvsTyped
      <4>3. snaps' = IF snaps < MaxSnaps THEN snaps + 1 ELSE snaps BY <1>2, <3>3
      <4>4. snaps' >= 2 /\ snaps' \in Nat /\ (snaps' = 2 => snaps = 1) BY <4>1, <4>2, <4>3
      <4> QED BY <1>1, <1>2, <2>1, <2>2, <3>3, <4>1, <4>4 DEF Kept
    <3> QED BY <3>2, <3>3
  <2>4. HalfOfOne' BY <2>1 DEF NvsIInv, HalfOfOne, Doing
  <2>5. InOrder' BY <1>1, <2>1 DEF NvsIInv, InOrder, Halfway
  <2> QED BY <2>3, <2>4, <2>5, SnapshotTyped DEF NvsIInv
<1>3. CASE /\ \E left \in {files["next"], Absent} : files' = [files EXCEPT !["next"] = left]
           /\ Refuse /\ UNCHANGED <<good, snaps, bare>>
  <2>1. files'["snapshot"] = files["snapshot"] /\ files'["prev"] = files["prev"]
    BY <1>3 DEF NvsIInv, NvsTyped, Files, Snapshots
  <2>2. imp'.pc = "idle" /\ ~imp'.erased BY <1>3, IdleImport DEF Refuse
  <2>3. Kept' BY <1>1, <1>3, <2>1, <2>2 DEF NvsIInv, Kept
  <2> QED BY <2>2, <2>3, SnapshotTyped DEF NvsIInv, HalfOfOne, InOrder
<1> QED BY <1>2, <1>3 DEF Snapshot

LEMMA AsideSteps == ASSUME NvsIInv, MoveAside PROVE NvsIInv'
<1>1. imp \in ImportRecord /\ imp.pc = "aside" /\ UNCHANGED <<nvs, good, torn, snaps, disturbed>>
      /\ imp' = [imp EXCEPT !.pc = "in"]
      /\ (bare' <=> (bare \/ (files["snapshot"] # Absent /\ files' # MovedTo("snapshot", "prev"))))
  BY DEF NvsIInv, NvsTyped, MoveAside
<1>2. /\ imp'.pc = "in" /\ imp'.at = imp.at /\ imp'.text = imp.text /\ imp'.before = imp.before
      /\ imp'.replace = imp.replace /\ imp'.erased = imp.erased
  BY <1>1 DEF ImportRecord
<1>3. HalfOfOne' BY <1>2 DEF NvsIInv, HalfOfOne, Doing
<1>4. InOrder' BY <1>1, <1>2 DEF NvsIInv, InOrder, Halfway
<1>5. Kept'
  <2>1. SUFFICES ASSUME ~bare' PROVE Kept' BY DEF Kept
  <2>2. ~bare /\ (files["snapshot"] # Absent => files' = MovedTo("snapshot", "prev")) BY <1>1, <2>1
  <2>3. files'["next"] = files["next"]
    BY DEF MoveAside, Moves, NvsIInv, NvsTyped, Files, Snapshots
  <2>4. files["snapshot"] # Absent => files'["prev"] = files["snapshot"]
    BY <2>2 DEF MovedTo, NvsIInv, NvsTyped, Files, Snapshots
  <2>5. good # Absent BY NvsAssumption DEF NvsIInv, NvsTyped
  <2>6. /\ torn => snaps >= 1 /\ snaps # 1
        /\ torn /\ snaps = 2 => files["snapshot"] = good
        /\ ~torn => snaps = 1 /\ files["next"] = good
    BY <1>1, <2>2 DEF NvsIInv, Kept
  <2> QED BY <1>1, <1>2, <2>3, <2>4, <2>5, <2>6 DEF Kept
<1> QED BY <1>3, <1>4, <1>5, MoveTyped DEF NvsIInv

LEMMA InSteps == ASSUME NvsIInv, MoveIn PROVE NvsIInv'
<1>1. imp \in ImportRecord /\ imp.pc = "in" /\ UNCHANGED <<nvs, good, torn, snaps, bare, disturbed>>
  BY DEF NvsIInv, NvsTyped, MoveIn, history
<1>2. files'["prev"] = files["prev"]
  BY DEF MoveIn, Moves, MovedTo, NvsIInv, NvsTyped, Files, Snapshots
<1>3. CASE files' = MovedTo("next", "snapshot") /\ imp' = [imp EXCEPT !.pc = "apply"]
  <2>1. /\ imp'.pc = "apply" /\ imp'.at = imp.at /\ imp'.text = imp.text /\ imp'.before = imp.before
        /\ imp'.replace = imp.replace /\ imp'.erased = imp.erased
    BY <1>1, <1>3 DEF ImportRecord
  <2>2. files'["snapshot"] = files["next"]
    BY <1>3 DEF MovedTo, NvsIInv, NvsTyped, Files, Snapshots
  <2>3. Kept' BY <1>1, <1>2, <2>1, <2>2 DEF NvsIInv, Kept
  <2>4. HalfOfOne' BY <2>1 DEF NvsIInv, HalfOfOne, Doing
  <2>5. InOrder' BY <1>1, <2>1 DEF NvsIInv, InOrder, Halfway
  <2> QED BY <2>3, <2>4, <2>5, MoveTyped DEF NvsIInv
<1>4. CASE Refuse
  <2>1. imp'.pc = "idle" /\ ~imp'.erased BY <1>4, IdleImport DEF Refuse
  <2>2. Kept' BY <1>1, <1>2, <2>1 DEF NvsIInv, Kept
  <2> QED BY <2>1, <2>2, MoveTyped DEF NvsIInv, HalfOfOne, InOrder
<1> QED BY <1>3, <1>4 DEF MoveIn

\* An entry is done, and those up to the next to do have nothing to be done
LEMMA Advances ==
    ASSUME NvsTyped, Halfway([nvs |-> nvs], imp), Doing # "done", Onward,
           NEW v, v = Target(imp.text, imp.before, imp.replace, Order[imp.at]),
           nvs' = [nvs EXCEPT ![Order[imp.at]] = v]
    PROVE  Halfway([nvs |-> nvs'], imp')
<1> DEFINE T == Todo(imp.text, imp.before, imp.replace)
<1>1. /\ ~imp'.erased /\ imp'.text = imp.text /\ imp'.before = imp.before /\ imp'.replace = imp.replace
      /\ imp'.at = NextOf(T, imp.at + 1) /\ imp.at \in 1 .. Len(Order) /\ imp.at + 1 \in Places
  BY GoesOn
<1>2. Len(Order) \in Nat BY Numbered
<1>3. /\ imp'.at \in Places /\ imp'.at >= imp.at + 1
      /\ \A k \in imp.at + 1 .. imp'.at - 1 : Order[k] \notin T
  BY <1>1, NextToDo
<1>4. \A k, l \in 1 .. Len(Order) : Order[k] = Order[l] => k = l BY NvsAssumption, Numbered
<1>5. \A k \in 1 .. Len(Order) : Order[k] \in Entries BY Numbered
<1>6. nvs \in Contents BY DEF NvsTyped
<1>7. ASSUME NEW k \in 1 .. Len(Order)
      PROVE  nvs'[Order[k]] = IF k < imp'.at THEN Target(imp.text, imp.before, imp.replace, Order[k])
                             ELSE IF k = imp'.at /\ imp'.erased THEN Absent ELSE imp.before[Order[k]]
  <2>1. nvs[Order[k]] = IF k < imp.at THEN Target(imp.text, imp.before, imp.replace, Order[k])
                        ELSE IF k = imp.at /\ imp.erased THEN Absent ELSE imp.before[Order[k]]
    BY DEF Halfway
  <2>2. nvs'[Order[k]] = IF k = imp.at THEN v ELSE nvs[Order[k]] BY <1>1, <1>4, <1>5, <1>6 DEF Contents
  <2> DEFINE a == imp.at
             b == imp'.at
  <2>3. a \in Nat /\ b \in Nat /\ b >= a + 1 /\ k \in Nat BY <1>1, <1>2, <1>3 DEF Places
  <2>4. CASE k = a BY <2>2, <2>3, <2>4
  <2>5. CASE k < a BY <2>1, <2>2, <2>3, <2>5
  <2>6. CASE a < k /\ k < b
    <3>1. k \in a + 1 .. b - 1 BY <2>3, <2>6
    <3>2. Order[k] \notin T BY <1>3, <3>1
    <3>3. Target(imp.text, imp.before, imp.replace, Order[k]) = imp.before[Order[k]] BY <1>5, <3>2, Asks
    <3>4. ~(k < a) /\ k # a BY <2>3, <2>6
    <3> QED BY <2>1, <2>2, <2>6, <3>3, <3>4
  <2>7. CASE b <= k
    <3>1. ~(k < a) /\ k # a /\ ~(k < b) BY <2>3, <2>7
    <3> QED BY <1>1, <2>1, <2>2, <3>1
  <2> HIDE DEF a, b
  <2>8. k = a \/ k < a \/ (a < k /\ k < b) \/ b <= k BY <2>3
  <2> QED BY <2>4, <2>5, <2>6, <2>7, <2>8
<1> QED BY <1>1, <1>7 DEF Halfway

LEMMA SetSteps == ASSUME NvsIInv, SetOne PROVE NvsIInv'
<1>1. Doing # "done" /\ Doing \in {"add", "change", "retype"} /\ imp.pc = "apply" /\ Onward
      /\ UNCHANGED <<files, good, snaps, bare, disturbed>> /\ torn'
  BY DEF SetOne
<1>2. imp'.pc = "apply" /\ ~imp'.erased BY <1>1, GoesOn DEF NvsIInv
<1>3. Kept' BY <1>1, <1>2 DEF NvsIInv, Kept
<1>4. InOrder'
  <2>1. SUFFICES ASSUME ~disturbed' PROVE Halfway([nvs |-> nvs'], imp') BY DEF InOrder
  <2>2. Halfway([nvs |-> nvs], imp) BY <1>1, <2>1 DEF NvsIInv, InOrder
  <2>3. imp.at \in 1 .. Len(Order) BY <1>1, GoesOn DEF NvsIInv
  <2>4. Order[imp.at] \in Entries BY <2>3, Numbered
  <2>5. Does(imp.text, imp.before, imp.replace, Order[imp.at]) \in {"add", "change", "retype"}
    BY <1>1 DEF Doing
  <2>6. Target(imp.text, imp.before, imp.replace, Order[imp.at]) = imp.text[Order[imp.at]]
    BY <2>4, <2>5, Asks
  <2>7. nvs' = [nvs EXCEPT ![Order[imp.at]] = imp.text[Order[imp.at]]] BY DEF SetOne
  <2> QED BY <1>1, <2>2, <2>6, <2>7, Advances DEF NvsIInv
<1> QED BY <1>2, <1>3, <1>4, ApplyTyped DEF NvsIInv, HalfOfOne

LEMMA EraseSteps == ASSUME NvsIInv, EraseOne PROVE NvsIInv'
<1>1. Doing # "done" /\ Doing \in {"remove", "retype"} /\ imp.pc = "apply" /\ ~imp.erased
      /\ UNCHANGED <<files, good, snaps, bare, disturbed>> /\ torn'
      /\ nvs' = [nvs EXCEPT ![Order[imp.at]] = Absent]
      /\ IF Doing = "remove" THEN Onward ELSE imp' = [imp EXCEPT !.erased = TRUE]
  BY DEF EraseOne
<1>2. CASE Doing = "remove"
  <2>1. imp'.pc = "apply" /\ ~imp'.erased BY <1>1, <1>2, GoesOn DEF NvsIInv
  <2>2. Kept' BY <1>1, <2>1 DEF NvsIInv, Kept
  <2>3. InOrder'
    <3>1. SUFFICES ASSUME ~disturbed' PROVE Halfway([nvs |-> nvs'], imp') BY DEF InOrder
    <3>2. Halfway([nvs |-> nvs], imp) BY <1>1, <3>1 DEF NvsIInv, InOrder
    <3>3. imp.at \in 1 .. Len(Order) BY <1>1, <1>2, GoesOn DEF NvsIInv
    <3>4. Order[imp.at] \in Entries BY <3>3, Numbered
    <3>5. Does(imp.text, imp.before, imp.replace, Order[imp.at]) = "remove"
      BY <1>2 DEF Doing
    <3>6. Target(imp.text, imp.before, imp.replace, Order[imp.at]) = Absent
      BY <3>4, <3>5, Asks
    <3> QED BY <1>1, <1>2, <3>2, <3>6, Advances DEF NvsIInv
  <2> QED BY <2>1, <2>2, <2>3, ApplyTyped DEF NvsIInv, HalfOfOne
<1>3. CASE Doing # "remove"
  <2>1. imp \in ImportRecord /\ nvs \in Contents BY DEF NvsIInv, NvsTyped
  <2>2. /\ imp'.pc = "apply" /\ imp'.at = imp.at /\ imp'.text = imp.text /\ imp'.before = imp.before
        /\ imp'.replace = imp.replace /\ imp'.erased
    BY <1>1, <1>3, <2>1 DEF ImportRecord
  <2>3. Kept' BY <1>1, <2>2 DEF NvsIInv, Kept
  <2>4. HalfOfOne' BY <1>1, <1>3, <2>2 DEF HalfOfOne, Doing
  <2>5. InOrder'
    <3>1. SUFFICES ASSUME ~disturbed' PROVE Halfway([nvs |-> nvs'], imp') BY DEF InOrder
    <3>2. Halfway([nvs |-> nvs], imp) BY <1>1, <3>1 DEF NvsIInv, InOrder
    <3>3. imp.at \in Places /\ imp.at <= Len(Order) /\ Len(Order) \in Nat
      BY <1>1, <2>1, ImportFields, Numbered DEF Doing
    <3>4. imp.at \in 1 .. Len(Order) BY <3>3 DEF Places
    <3>5. \A k, l \in 1 .. Len(Order) : Order[k] = Order[l] => k = l BY NvsAssumption, Numbered
    <3>6. \A k \in 1 .. Len(Order) : Order[k] \in Entries BY Numbered
    <3>7. \A k \in 1 .. Len(Order) : nvs'[Order[k]] = IF k = imp.at THEN Absent ELSE nvs[Order[k]]
      BY <1>1, <2>1, <3>4, <3>5, <3>6 DEF Contents
    <3> QED BY <1>1, <2>2, <3>2, <3>3, <3>7 DEF Halfway
  <2> QED BY <2>3, <2>4, <2>5, ApplyTyped DEF NvsIInv
<1> QED BY <1>2, <1>3

LEMMA EndSteps == ASSUME NvsIInv, WriteFails \/ Succeed PROVE NvsIInv'
<1>1. imp'.pc = "idle" /\ ~imp'.erased BY IdleImport DEF WriteFails, Succeed
<1>2. Kept'
  <2>1. CASE WriteFails BY <1>1, <2>1 DEF WriteFails, history, NvsIInv, Kept
  <2>2. CASE Succeed BY <1>1, <2>2 DEF Succeed, Kept
  <2> QED BY <2>1, <2>2
<1> QED BY <1>1, <1>2, ApplyTyped DEF NvsIInv, HalfOfOne, InOrder

LEMMA OtherwiseSteps == ASSUME NvsIInv, OtherSteps PROVE NvsIInv'
<1>1. /\ NvsTyped' /\ \A f \in Snapshots : files'[f] = files[f]
      /\ UNCHANGED <<good, torn, snaps, bare>>
  BY OthersLeave
<1>2. {"snapshot", "prev", "next"} = Snapshots BY DEF Snapshots
<1>3. CASE UNCHANGED <<imp, nvs, disturbed>> \/ (UNCHANGED imp /\ disturbed')
  BY <1>1, <1>2, <1>3 DEF NvsIInv, HalfOfOne, Doing, Kept, InOrder, Halfway
<1>4. CASE imp' = NoImport
  <2>1. imp'.pc = "idle" /\ ~imp'.erased BY <1>4, IdleImport
  <2>2. Kept' BY <1>1, <1>2, <2>1 DEF NvsIInv, Kept
  <2> QED BY <1>1, <2>1, <2>2 DEF NvsIInv, HalfOfOne, InOrder
<1> QED BY <1>3, <1>4, OthersLeave

LEMMA NvsStarts == NvsInit => NvsIInv
<1> SUFFICES ASSUME NvsInit PROVE NvsIInv OBVIOUS
<1>1. NoEntries \in Contents BY DEF NoEntries, Contents
<1>2. NvsTyped BY <1>1, IdleImport, NvsAssumption DEF NvsInit, NvsTyped
<1>3. imp.pc = "idle" /\ ~imp.erased BY IdleImport DEF NvsInit
<1> QED BY <1>2, <1>3 DEF NvsInit, NvsIInv, HalfOfOne, Kept, InOrder

LEMMA NvsSteps == NvsIInv /\ [NvsNext]_nvsVars => NvsIInv'
<1> SUFFICES ASSUME NvsIInv, [NvsNext]_nvsVars PROVE NvsIInv' OBVIOUS
<1>1. ASSUME NEW o \in Options, ImportUpload(o) PROVE NvsIInv'
  <2>1. PICK file \in Uploads : Import(file, o) BY <1>1 DEF ImportUpload
  <2>2. file.text \in Contents BY NvsAssumption DEF Parsed
  <2> QED BY <2>1, <2>2, ImportSteps
<1>2. ASSUME NEW o \in Options, NEW f \in Files, ImportFile(f, o) PROVE NvsIInv'
  <2>1. files[f] \in Contents BY <1>2 DEF ImportFile, NvsIInv, NvsTyped
  <2>2. OfThisBoard(files[f]).text \in Contents BY <2>1 DEF OfThisBoard
  <2> QED BY <1>2, <2>2, ImportSteps DEF ImportFile
<1>3. CASE UNCHANGED nvsVars
  BY <1>3 DEF nvsVars, NvsIInv, NvsTyped, HalfOfOne, Doing, Kept, InOrder, Halfway
<1>4. CASE NvsNext
  BY <1>1, <1>2, <1>4, SnapshotSteps, AsideSteps, InSteps, SetSteps, EraseSteps, EndSteps, OtherwiseSteps
  DEF NvsNext, OtherSteps
<1> QED BY <1>3, <1>4

LEMMA NvsPromises == NvsIInv => NvsTypeOK /\ UndoStays /\ ImportedIsAsked
<1> SUFFICES ASSUME NvsIInv PROVE NvsTypeOK /\ UndoStays /\ ImportedIsAsked OBVIOUS
<1>1. NvsTypeOK
  BY ImportFields DEF NvsIInv, NvsTyped, NvsTypeOK, HalfOfOne, Places
<1>2. UndoStays
  <2>1. SUFFICES ASSUME torn, ~bare, snaps <= 2 PROVE good \in {files["snapshot"], files["prev"]}
    BY DEF UndoStays
  <2>2. snaps = 1 \/ snaps = 2
    BY <2>1, NvsAssumption DEF NvsIInv, NvsTyped, Kept
  <2> QED BY <2>1, <2>2 DEF NvsIInv, Kept
<1>3. ImportedIsAsked
  <2>1. SUFFICES ASSUME imp.pc = "apply", Doing = "done", ~disturbed, NEW e \in Entries
                 PROVE  nvs[e] = Target(imp.text, imp.before, imp.replace, e)
    BY DEF ImportedIsAsked, Target
  <2>2. PICK k \in 1 .. Len(Order) : e = Order[k] BY Numbered
  <2>3. Halfway([nvs |-> nvs], imp) BY <2>1 DEF NvsIInv, InOrder
  <2>4. Does(imp.text, imp.before, imp.replace, Order[imp.at]) # "done" BY DEF Does
  <2>5. ~(imp.at <= Len(Order)) BY <2>1, <2>4 DEF Doing
  <2>6. imp.at \in Places /\ Len(Order) \in Nat BY ImportFields, Numbered DEF NvsIInv, NvsTyped
  <2>7. k < imp.at BY <2>5, <2>6 DEF Places
  <2> QED BY <2>2, <2>3, <2>7 DEF Halfway
<1> QED BY <1>1, <1>2, <1>3

----------------------------------------------------------------------------
(* The three, as the runs have them. *)

KeptIInv == KnownIInv /\ ApIInv /\ NvsIInv

LEMMA KeptHolds == Spec => []KeptIInv
<1>1. Init => KeptIInv BY KnownStarts, ApStarts, NvsStarts DEF Init, KeptIInv
<1>2. KeptIInv /\ [Next]_vars => KeptIInv'
  <2>1. [Next]_vars => [KnownNext]_knownVars /\ [ApNext]_apVars /\ [NvsNext]_nvsVars BY DEF Next, vars
  <2> QED BY <2>1, KnownSteps, ApSteps, NvsSteps DEF KeptIInv
<1> QED BY <1>1, <1>2, PTL DEF Spec

LEMMA KeptPromises ==
    KeptIInv => /\ TypeOK
                /\ WantedIsPursued /\ OffIsOff /\ ForgottenStays
                /\ ApKeepsItsWord
                /\ UndoStays /\ ImportedIsAsked
  BY KnownPromises, ApPromises, NvsPromises DEF KeptIInv, TypeOK

\* Every variable keeps its type: among the rest, never more than KNOWN_MAX networks in the store,
\* whatever joins and saves are made (wifi_known.c), never more fast retries than configured, and half
\* of a retype only while there is a retype to finish (nvs_backup.c).
THEOREM KeptTyped == Spec => []TypeOK
  BY KeptHolds, KeptPromises, PTL

\* A station that is wanted, has a network and is left with nothing on its way has an address, or is
\* joining, or its retry timer runs (wifi_known.c, on_disconnected() and retry_timer_cb()), for any
\* callers, networks, passphrases, fast retries and events waiting.
THEOREM PursuedUntilLetGo == Spec => []WantedIsPursued
  BY KeptHolds, KeptPromises, PTL

\* `wifi off`, and a forget of the network in use, leave the link down, whatever event, retry or call
\* was on its way (wifi_known_set_enabled() and wifi_known_forget()), but for a connect decided on
\* before.
THEOREM OffStaysOff == Spec => []OffIsOff
  BY KeptHolds, KeptPromises, PTL

\* A network that was forgotten is not written back by an answer to its join, nor rejoined at the next
\* boot (wifi_known_forget(), on_got_ip(), on_disconnected()), but for an event between the erase and
\* the clearing of the join.
THEOREM StaysForgotten == Spec => []ForgottenStays
  BY KeptHolds, KeptPromises, PTL

\* An access point that was turned on to stay is on once nobody is at it, no count of an earlier "for a
\* while" is left to end it, it is on the air when it says so and only then, and with the credentials
\* stored (wifi_ap.c), but for a step that acted on a look no longer true; for any callers, any
\* credentials, and whatever the station's joins do to the mode.
THEOREM KeepsItsWord == Spec => []ApKeepsItsWord
  BY KeptHolds, KeptPromises, PTL

\* An import that failed or was cut short, and one try to undo it that went the same way, leave the
\* configuration before them in one of the two snapshots (nvs_backup.c, the snapshot and the two moves
\* after it), for any entries, files and configurations.
THEOREM Undone == Spec => []UndoStays
  BY KeptHolds, KeptPromises, PTL

\* An import that ends well has made the entries the file names what it says, erased those it lacks if
\* it was to, and left alone every entry that is kept back (nvs_backup.c, the diff and its apply), if
\* nobody else wrote in between.
THEOREM Imported == Spec => []ImportedIsAsked
  BY KeptHolds, KeptPromises, PTL
=============================================================================
