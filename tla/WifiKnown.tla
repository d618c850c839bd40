----------------------------- MODULE WifiKnown -----------------------------
(***************************************************************************)
(* Remembered WiFi networks, cmd_wifi/wifi_known.c: the store, the join,   *)
(* and the reconnection when the link drops.                               *)
(*                                                                         *)
(* Its callers -- the commands, and the web server's requests of           *)
(* web_api/web_net.c --, the event task and the timer's task share the     *)
(* state under s_lock and call the driver after they let it go: a step is  *)
(* a critical section, or a call of the driver.  The driver is modelled    *)
(* from how it is used: it joins what it is configured for, and posts an   *)
(* event for each address and each disconnect to the event task's queue.   *)
(*                                                                         *)
(* A write of the store that fails is only logged; here it does not fail.  *)
(***************************************************************************)
EXTENDS Integers, Sequences, SequencesExt

CONSTANTS
    Ssids, NoSsid,  \* networks, and ""
    Passes,         \* passphrases: Right opens every network, Empty is ""
    Right, Empty,
    KnownMax,       \* KNOWN_MAX
    FastRetries,    \* CONFIG_CMD_WIFI_KNOWN_FAST_RETRIES
    Callers,        \* the tasks that call the API
    Main,           \* the one that calls wifi_known_start() at boot
    MaxEvents       \* bound on the events waiting

ASSUME KnownAssumption ==
    /\ NoSsid \notin Ssids /\ {Right, Empty} \subseteq Passes /\ Right # Empty
    /\ KnownMax \in Nat \ {0} /\ FastRetries \in Nat /\ Main \in Callers

VARIABLES
    known,      \* s_known, in RAM and in NVS: the entries, oldest first, and the last joined
    join,       \* the join in flight, s_joining: s_join_ssid, s_join_pass, s_join_commit
    haveIp,     \* s_have_ip
    want,       \* s_want_connected
    retries,    \* s_retries
    timer,      \* s_retry_timer is running
    call,       \* each caller: where it is, and its arguments
    evt,        \* the event task: what it decided under the lock
    fire,       \* the timer's task is about to connect
    cfg,        \* the driver's configuration: the network, and whether the passphrase opens it
    link,       \* the driver's link: "down", "connecting", "up"
    peer,       \* what it is connecting or connected to
    events,     \* the events posted, oldest first
    forgotten,  \* history: the network forgotten last, until it is asked for again
    refused,    \* history: the driver refused the last join's connect
    late,       \* history: a call of the driver was pending when the station was given up on, asked
                \* for, or a join was made
    crossed     \* history: an event was taken for a join it was not about

state == <<haveIp, want, retries>>
radio == <<cfg, link, peer, events>>
tasks == <<call, evt, fire>>
past == <<forgotten, refused, late, crossed>>
knownVars == <<known, join, state, timer, tasks, radio, past>>

NoJoin == [ssid |-> NoSsid, pass |-> Empty, commit |-> FALSE]
NoCfg == [ssid |-> NoSsid, opens |-> FALSE]
Idle == [pc |-> "idle", op |-> "none", ssid |-> NoSsid, pass |-> Empty]
Decided == [pc |-> "idle", retry |-> FALSE, keep |-> FALSE]

KnownInit ==
    /\ known = [entries |-> <<>>, last |-> NoSsid]
    /\ join = NoJoin
    /\ haveIp = FALSE /\ want = FALSE /\ retries = 0 /\ timer = FALSE
    /\ call = [c \in Callers |-> Idle] /\ evt = Decided /\ fire = FALSE
    /\ cfg = NoCfg /\ link = "down" /\ peer = NoCfg /\ events = <<>>
    /\ forgotten = NoSsid /\ refused = FALSE /\ late = FALSE /\ crossed = FALSE

----------------------------------------------------------------------------
(* The store. *)

Entry(s) == {i \in 1 .. Len(known.entries) : known.entries[i].ssid = s}
Has(s) == Entry(s) # {}
PassOf(s) == known.entries[CHOOSE i \in Entry(s) : TRUE].pass

\* Mutant: no entry makes room for another
PutUnbounded(s, p, asLast) ==
    LET new == [ssid |-> s, pass |-> p]
    IN  known' = [entries |-> IF Has(s) THEN [i \in DOMAIN known.entries |->
                                                 IF i \in Entry(s) THEN new ELSE known.entries[i]]
                              ELSE Append(known.entries, new),
                  last |-> IF asLast THEN s ELSE known.last]

\* known_put(): in place, or at the end, the oldest out when there is no room
Put(s, p, asLast) ==
    LET new == [ssid |-> s, pass |-> p]
        kept == IF Len(known.entries) < KnownMax THEN known.entries ELSE Tail(known.entries)
    IN  known' = [entries |-> IF Has(s) THEN [i \in DOMAIN known.entries |->
                                                 IF i \in Entry(s) THEN new ELSE known.entries[i]]
                              ELSE Append(kept, new),
                  last |-> IF asLast THEN s ELSE known.last]

\* known_erase(): the entry, which is the only one of that network
Erase(s) ==
    known' = [entries |-> RemoveAt(known.entries, CHOOSE i \in Entry(s) : TRUE),
              last |-> IF known.last = s THEN NoSsid ELSE known.last]

----------------------------------------------------------------------------
(* The driver. *)

Post(what, why) == Append(events, [what |-> what, ssid |-> peer.ssid, why |-> why])

\* esp_wifi_connect(): nothing to do when it is connecting or connected, or has no network
Connect ==
    /\ IF link = "down" /\ cfg.ssid # NoSsid
       THEN link' = "connecting" /\ peer' = cfg ELSE UNCHANGED <<link, peer>>
    /\ UNCHANGED <<cfg, events>>

\* esp_wifi_disconnect(): the event names what was left
Disconnect ==
    /\ Len(events) < MaxEvents
    /\ link' = "down" /\ peer' = NoCfg
    /\ events' = IF link = "down" THEN events ELSE Post("lost", "leave")
    /\ UNCHANGED cfg

Associate ==
    /\ link = "connecting" /\ peer.opens /\ Len(events) < MaxEvents
    /\ link' = "up" /\ UNCHANGED peer
    /\ events' = Post("gotIp", "none")

\* A right passphrase may fail as well: wifi_known.c:335-337
Fail(why) ==
    /\ link = "connecting" /\ Len(events) < MaxEvents
    /\ link' = "down" /\ peer' = NoCfg
    /\ events' = Post("lost", why)

LoseLink ==
    /\ link = "up" /\ Len(events) < MaxEvents
    /\ link' = "down" /\ peer' = NoCfg
    /\ events' = Post("lost", "absent")

Driver ==
    /\ Associate \/ LoseLink \/ \E why \in {"auth", "absent"} : Fail(why)
    /\ UNCHANGED <<known, join, state, timer, tasks, cfg, past>>

----------------------------------------------------------------------------
(* The event task. *)

\* Mutant: the timer is not started when the fast retries have run out
DecideOnce(wanted) ==
    LET now == wanted /\ retries < FastRetries
    IN  /\ retries' = IF now THEN retries + 1 ELSE retries
        /\ evt' = [pc |-> "act", retry |-> now, keep |-> now]

\* What on_disconnected() and the joins' failure decide alike
Decide(wanted) ==
    LET now == wanted /\ retries < FastRetries
    IN  /\ retries' = IF now THEN retries + 1 ELSE retries
        /\ evt' = [pc |-> "act", retry |-> now, keep |-> wanted]

joining == join # NoJoin

\* A passphrase just typed is kept unless it is wrong
Saves(auth) == join.commit /\ ~auth

Ours(e) == e.ssid = join.ssid /\ e.why # "leave"

\* The forgets whose erase is done and whose join is not cleared yet
Forgetting(s) == \E c \in Callers : call[c].pc = "uses" /\ call[c].ssid = s

\* A call of the driver that was decided on under the lock and is still to be made, by a caller of
\* the API or by any task
Calling == \E c \in Callers : call[c].op = "join" \/ call[c].pc \in {"on", "leave"}
Pending == Calling \/ fire \/ (evt.pc = "act" /\ evt.keep)

Event(what) == evt.pc = "idle" /\ events # <<>> /\ Head(events).what = what /\ events' = Tail(events)

\* on_disconnected(), while a join is in flight: it is not every disconnect that ends the join
JoinLost ==
    LET e == Head(events)
        auth == e.why = "auth"
        wanted == want /\ ~(auth /\ join.commit)
    IN  /\ Event("lost") /\ joining
        /\ haveIp' = FALSE
        /\ IF Ours(e)
           THEN /\ join' = NoJoin /\ want' = wanted
                /\ IF Saves(auth) THEN Put(join.ssid, join.pass, TRUE) ELSE UNCHANGED known
                /\ Decide(wanted)
                /\ crossed' = (crossed \/ (join.commit /\ ~auth /\ Forgetting(join.ssid)))
           ELSE UNCHANGED <<join, want, known, retries, evt, crossed>>
        /\ late' = (late \/ (want /\ ~want' /\ (Pending \/ link # "down")))
        /\ UNCHANGED <<timer, call, fire, cfg, link, peer, forgotten, refused>>

LinkLost ==
    /\ Event("lost") /\ ~joining
    /\ haveIp' = FALSE
    /\ Decide(want)
    /\ UNCHANGED <<known, join, want, timer, call, fire, cfg, link, peer, past>>

\* ... and after the lock, what was decided under it
Act ==
    /\ evt.pc = "act"
    /\ evt' = Decided
    /\ IF evt.retry THEN Connect ELSE UNCHANGED radio
    /\ timer' = (timer \/ (evt.keep /\ ~evt.retry))
    /\ UNCHANGED <<known, join, state, call, fire, past>>

\* on_got_ip(): a join in flight is over, and its network the last joined
GotIp ==
    /\ Event("gotIp")
    /\ haveIp' = TRUE /\ retries' = 0
    /\ join' = NoJoin /\ evt' = [Decided EXCEPT !.pc = "stop"]
    /\ IF joining
       THEN /\ IF join.commit THEN Put(join.ssid, join.pass, TRUE)
               ELSE known' = [known EXCEPT !.last = join.ssid]
            /\ crossed' = (crossed \/ Forgetting(join.ssid)
                            \/ Head(events).ssid # join.ssid \/ join.pass # Right)
       ELSE UNCHANGED <<known, crossed>>
    /\ UNCHANGED <<want, timer, call, fire, cfg, link, peer, forgotten, refused, late>>

StopTimer ==
    /\ evt.pc = "stop"
    /\ evt' = Decided /\ timer' = FALSE
    /\ UNCHANGED <<known, join, state, call, fire, radio, past>>

\* Mutant: whether or not the station is still wanted
FireAnyway ==
    /\ timer /\ ~fire
    /\ timer' = FALSE
    /\ fire' = ~haveIp
    /\ late' = (late \/ (fire' /\ joining))
    /\ UNCHANGED <<known, join, state, call, evt, radio, forgotten, refused, crossed>>

\* retry_timer_cb(): the look under the lock, and the connect after it
Fire ==
    /\ timer /\ ~fire
    /\ timer' = FALSE
    /\ fire' = (want /\ ~haveIp)
    /\ late' = (late \/ (fire' /\ joining))
    /\ UNCHANGED <<known, join, state, call, evt, radio, forgotten, refused, crossed>>

FireConnect ==
    /\ fire
    /\ fire' = FALSE
    /\ Connect
    /\ UNCHANGED <<known, join, state, timer, call, evt, past>>

----------------------------------------------------------------------------
(* The API. *)

At(c, pc) == call[c].pc = pc
Go(c, pc) == call' = [call EXCEPT ![c].pc = pc]
Done(c) == call' = [call EXCEPT ![c] = Idle]

\* wifi_known_join(), under the lock: the join is in flight from here
Join(c, s, p) ==
    LET recalled == p = Empty /\ Has(s)
        pass == IF recalled THEN PassOf(s) ELSE p
    IN  /\ join' = [ssid |-> s, pass |-> pass, commit |-> ~recalled]
        /\ want' = TRUE /\ retries' = 0
        /\ call' = [call EXCEPT ![c] = [pc |-> "leave", op |-> "join", ssid |-> s, pass |-> pass]]
        /\ forgotten' = IF forgotten = s THEN NoSsid ELSE forgotten
        /\ late' = (late \/ Pending)
        /\ UNCHANGED <<known, haveIp, timer, evt, fire, radio, refused, crossed>>

\* The old link is dropped, by a join, a forget or `wifi off`
Leave(c) ==
    /\ At(c, "leave")
    /\ timer' = FALSE
    /\ Disconnect
    /\ IF call[c].op = "off" THEN Done(c) ELSE Go(c, "config")
    /\ UNCHANGED <<known, join, state, evt, fire, past>>

\* esp_wifi_set_config(): a join's network, or a forget's none
Config(c) ==
    /\ At(c, "config")
    /\ IF call[c].op = "join"
       THEN cfg' = [ssid |-> call[c].ssid, opens |-> call[c].pass = Right] /\ Go(c, "connect")
       ELSE cfg' = NoCfg /\ Done(c)
    /\ UNCHANGED <<known, join, state, timer, evt, fire, link, peer, events, past>>

JoinConnect(c, ok) ==
    /\ At(c, "connect")
    /\ IF ok THEN Connect /\ Done(c) ELSE UNCHANGED radio /\ Go(c, "failed")
    /\ refused' = ~ok
    /\ UNCHANGED <<known, join, state, timer, evt, fire, forgotten, late, crossed>>

JoinFailed(c) ==
    /\ At(c, "failed")
    /\ join' = NoJoin
    /\ Done(c)
    /\ UNCHANGED <<known, state, timer, evt, fire, radio, past>>

\* wifi_known_forget(): the store first
Forget(c, s) ==
    /\ At(c, "idle")
    /\ IF Has(s) THEN Erase(s) ELSE UNCHANGED known
    /\ call' = [call EXCEPT ![c] = [pc |-> "uses", ssid |-> s, pass |-> Empty,
                                    op |-> IF join.ssid = s THEN "forgetJoin" ELSE "forget"]]
    /\ forgotten' = IF Has(s) THEN s ELSE forgotten
    /\ UNCHANGED <<join, state, timer, evt, fire, radio, refused, late, crossed>>

\* sta_uses()
Uses(s) == (link = "up" /\ peer.ssid = s) \/ cfg.ssid = s

\* Mutant: the join in flight is left for the disconnect to end
ForgetJoinLeft(c) ==
    /\ At(c, "uses")
    /\ IF call[c].op = "forgetJoin" \/ Uses(call[c].ssid)
       THEN want' = FALSE /\ late' = (late \/ Pending) /\ Go(c, "leave")
       ELSE UNCHANGED <<want, late>> /\ Done(c)
    /\ UNCHANGED <<known, join, haveIp, retries, timer, evt, fire, radio, forgotten, refused, crossed>>

\* ... and the join and the link when they are about that network
ForgetJoin(c) ==
    /\ At(c, "uses")
    /\ IF call[c].op = "forgetJoin" \/ Uses(call[c].ssid)
       THEN want' = FALSE /\ join' = NoJoin /\ late' = (late \/ Pending) /\ Go(c, "leave")
       ELSE UNCHANGED <<want, join, late>> /\ Done(c)
    /\ UNCHANGED <<known, haveIp, retries, timer, evt, fire, radio, forgotten, refused, crossed>>

\* wifi_known_set_enabled(false)
Off(c) ==
    /\ At(c, "idle")
    /\ want' = FALSE /\ join' = NoJoin
    /\ call' = [call EXCEPT ![c].pc = "leave", ![c].op = "off"]
    /\ late' = (late \/ Pending)
    /\ UNCHANGED <<known, haveIp, retries, timer, evt, fire, radio, forgotten, refused, crossed>>

\* wifi_known_set_enabled(true): from the driver's configuration, or the last network joined
On(c) ==
    /\ At(c, "idle")
    /\ want' = TRUE /\ retries' = 0
    /\ call' = [call EXCEPT ![c].pc = "on", ![c].ssid = known.last]
    /\ late' = (late \/ Calling)
    /\ UNCHANGED <<known, join, haveIp, timer, evt, fire, radio, forgotten, refused, crossed>>

OnConnect(c) ==
    /\ At(c, "on")
    /\ IF cfg.ssid # NoSsid THEN Connect /\ Done(c)
       ELSE UNCHANGED radio /\ IF call[c].ssid # NoSsid THEN Go(c, "rejoin") ELSE Done(c)
    /\ UNCHANGED <<known, join, state, timer, evt, fire, past>>

Rejoin(c) == At(c, "rejoin") /\ Join(c, call[c].ssid, Empty)

\* wifi_known_save(): for later
Save(c, s, p) ==
    /\ At(c, "idle")
    /\ Put(s, p, FALSE)
    /\ forgotten' = IF forgotten = s THEN NoSsid ELSE forgotten
    /\ UNCHANGED <<join, state, timer, tasks, radio, refused, late, crossed>>

\* A restart, and wifi_known_start(): the last network joined, if s_autojoin says so,
\* a setting of the store that nothing else reads
Restart(autojoin) ==
    /\ join' = NoJoin
    /\ haveIp' = FALSE /\ want' = FALSE /\ retries' = 0 /\ timer' = FALSE
    /\ evt' = Decided /\ fire' = FALSE
    /\ cfg' = NoCfg /\ link' = "down" /\ peer' = NoCfg /\ events' = <<>>
    /\ call' = [c \in Callers |-> IF c = Main /\ autojoin /\ known.last # NoSsid
                                  THEN [Idle EXCEPT !.pc = "rejoin", !.ssid = known.last] ELSE Idle]
    /\ refused' = FALSE /\ late' = FALSE
    /\ UNCHANGED <<known, forgotten, crossed>>

\* `wifi_save`, `wifi_forget`, `wifi on` and `wifi off` on the console
Commands(c) ==
    \/ \E s \in Ssids, p \in Passes : At(c, "idle") /\ (p = Empty => Has(s)) /\ Join(c, s, p)
    \/ \E s \in Ssids : Forget(c, s)
    \/ Off(c) \/ On(c)

\* PATCH /network: a link that is wanted is not dropped by being asked for
NetworkPatch(c, on) == on # want /\ IF on THEN On(c) ELSE Off(c)

\* PUT and DELETE /network/known: a wrong passphrase gets into the store by a join; only a network
\* that is known is forgotten
KnownPut(c, s) == Save(c, s, Right)
KnownDelete(c, s) == Has(s) /\ Forget(c, s)

\* POST /network/join, its reply sent
JoinPost(c, s, p) == At(c, "idle") /\ (p = Empty => Has(s)) /\ Join(c, s, p)

\* web_api/web_net.c: what the requests ask of it
Requests(c) ==
    \/ \E on \in BOOLEAN : NetworkPatch(c, on)
    \/ \E s \in Ssids : KnownPut(c, s) \/ KnownDelete(c, s) \/ \E p \in Passes : JoinPost(c, s, p)

Api(c) ==
    \/ Commands(c) \/ Requests(c)
    \/ Leave(c) \/ Config(c) \/ JoinFailed(c) \/ ForgetJoin(c)
    \/ \E ok \in BOOLEAN : JoinConnect(c, ok)
    \/ OnConnect(c) \/ Rejoin(c)

EventTask == JoinLost \/ LinkLost \/ Act \/ GotIp \/ StopTimer
TimerTask == Fire \/ FireConnect

KnownNext == Driver \/ EventTask \/ TimerTask
    \/ (\E autojoin \in BOOLEAN : Restart(autojoin)) \/ \E c \in Callers : Api(c)

KnownSpec == KnownInit /\ [][KnownNext]_knownVars

----------------------------------------------------------------------------
(* What is promised. *)

Credentials == [ssid : Ssids \cup {NoSsid}, pass : Passes]
Configs == [ssid : Ssids \cup {NoSsid}, opens : BOOLEAN]

KnownTypeOK ==
    /\ known.entries \in Seq(Credentials) /\ Len(known.entries) <= KnownMax
    /\ known.last \in Ssids \cup {NoSsid}
    /\ {haveIp, want, timer, fire, refused, late, crossed} \subseteq BOOLEAN
    /\ join \in [ssid : Ssids \cup {NoSsid}, pass : Passes, commit : BOOLEAN]
    /\ retries \in 0 .. FastRetries
    /\ \A c \in Callers :
          /\ call[c].pc \in {"idle", "leave", "config", "connect", "failed", "uses", "on", "rejoin"}
          /\ [ssid |-> call[c].ssid, pass |-> call[c].pass] \in Credentials
    /\ evt \in [pc : {"idle", "act", "stop"}, retry : BOOLEAN, keep : BOOLEAN]
    /\ cfg \in Configs /\ peer \in Configs /\ link \in {"down", "connecting", "up"}
    /\ events \in Seq([what : {"gotIp", "lost"}, ssid : Ssids, why : {"none", "leave", "auth", "absent"}])
    /\ forgotten \in Ssids \cup {NoSsid}

Calm == evt.pc = "idle" /\ ~fire /\ events = <<>> /\ \A c \in Callers : At(c, "idle")

\* wifi_known.c:92-94, "so a board whose access point went away for a minute comes back by
\* itself": while the station is wanted and has a network, it has an address, or is joining, or the
\* retry timer runs; no order of events, retries and calls leaves it wanted and given up, but for a
\* call of the driver that was decided on before.
WantedIsPursued ==
    Calm /\ want /\ ~refused /\ ~late /\ cfg.ssid # NoSsid => link # "down" \/ timer

\* `wifi off` "disconnects the station and nothing reconnects it" (wifi_known.c:889), but for a
\* call of the driver that was decided on before.
OffIsOff == Calm /\ ~want /\ ~late => link = "down"

\* wifi_known.c:663-666: a network that was forgotten is neither written back nor the one to rejoin
\* at boot, whatever was on its way when it was; but for an event that came between the erase and
\* the clearing of the join.
ForgottenStays == ~crossed /\ forgotten # NoSsid => ~Has(forgotten) /\ known.last # forgotten
=============================================================================
