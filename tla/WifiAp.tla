------------------------------- MODULE WifiAp -------------------------------
(***************************************************************************)
(* The board's own access point, cmd_wifi/wifi_ap.c: on to stay, on for a  *)
(* while, off, restarted with new credentials.                             *)
(*                                                                         *)
(* There is no lock.  The callers (the console, an app), the web server's  *)
(* handler of /network/ap (web_api/web_net.c), the timer that ends "a      *)
(* while", and the station's joins, which change the same radio mode,      *)
(* interleave at every look at the radio and every change of it.           *)
(***************************************************************************)
EXTENDS Integers

CONSTANTS
    ApCallers,      \* the tasks that call the API: the console's, the application's
    ApServer,       \* the web server's task
    Creds           \* an SSID and a passphrase

ASSUME ApAssumption ==
    /\ ApServer \notin ApCallers /\ "timer" \notin ApCallers \cup {ApServer}
    /\ Creds # {}

VARIABLES
    apOn,           \* s_on
    offAt,          \* s_off_at_us is set
    offTimer,       \* s_off_timer is running
    mode,           \* the radio's mode
    cred,           \* the credentials stored in NVS
    live,           \* those the access point was configured with
    ap,             \* each caller, and the timer's callback: where it is
    sta,            \* the station's join: the mode it saw
    stay,           \* history: wifi_ap_start() was called while no other task had a call under way, and
                    \* neither failed nor was followed by wifi_ap_start_for() or wifi_ap_stop()
    beaten          \* history: a change was made on a look at the mode or the credentials that was
                    \* no longer true, a stop met a start, or a restart with new credentials failed

apVars == <<apOn, offAt, offTimer, mode, cred, live, ap, sta, stay, beaten>>

Tasks == ApCallers \cup {ApServer, "timer"}
Modes == {"null", "sta", "ap", "apsta"}
Airing(m) == m \in {"ap", "apsta"}
NoTask == [pc |-> "idle", op |-> "none", saw |-> "null", cred |-> CHOOSE c \in Creds : TRUE,
           next |-> "idle"]

ApInit ==
    /\ apOn = FALSE /\ offAt = FALSE /\ offTimer = FALSE
    /\ mode = "null" /\ cred = NoTask.cred /\ live = cred
    /\ ap = [t \in Tasks |-> NoTask] /\ sta = "none"
    /\ stay = FALSE /\ beaten = FALSE

----------------------------------------------------------------------------

ApIsOn == apOn /\ Airing(mode)

ApAt(t, pc) == ap[t].pc = pc
ApGo(t, pc) == ap' = [ap EXCEPT ![t].pc = pc]

\* A request that has set the credentials goes on to turn the access point on or off
ApDone(t) == ap' = [ap EXCEPT ![t] = [NoTask EXCEPT !.pc = ap[t].next]]

\* Mutant: the timer is stopped and its deadline left
CancelTimer == offTimer' = FALSE /\ UNCHANGED offAt

CancelOff == offAt' = FALSE /\ offTimer' = FALSE

\* Whoever acts on a mode it saw and finds another
SetMode(saw, m) == mode' = m /\ beaten' = (beaten \/ mode # saw)

\* wifi_ap_start()
ApStart(t) ==
    /\ CancelOff
    /\ IF ApIsOn THEN ApDone(t) ELSE ap' = [ap EXCEPT ![t].pc = "up", ![t].op = "start"]
    /\ stay' = (\A u \in Tasks \ {t} : ApAt(u, "idle"))
    /\ UNCHANGED <<apOn, mode, cred, live, sta, beaten>>

\* wifi_ap_start_for(): what is on to stay stays
ApStartFor(t) ==
    /\ ApAt(t, "idle")
    /\ ~(ApIsOn /\ ~offAt)
    /\ ap' = [ap EXCEPT ![t].pc = IF ApIsOn THEN "count" ELSE "up", ![t].op = "for"]
    /\ stay' = FALSE
    /\ UNCHANGED <<apOn, offAt, offTimer, mode, cred, live, sta, beaten>>

\* ap_up(): the stored credentials and the mode are read ...
ApUp(t) ==
    /\ ApAt(t, "up")
    /\ ap' = [ap EXCEPT ![t].pc = "mode", ![t].cred = cred, ![t].saw = mode]
    /\ UNCHANGED <<apOn, offAt, offTimer, mode, cred, live, sta, stay, beaten>>

\* ... the access point is added to the mode ...
ApMode(t) ==
    /\ ApAt(t, "mode")
    /\ SetMode(ap[t].saw, IF ap[t].saw \in {"sta", "apsta"} THEN "apsta" ELSE "ap")
    /\ ApGo(t, "config")
    /\ UNCHANGED <<apOn, offAt, offTimer, cred, live, sta, stay>>

\* ... and configured, or the mode put back
ApConfig(t) ==
    /\ ApAt(t, "config")
    /\ live' = ap[t].cred /\ apOn' = TRUE
    /\ IF ap[t].op = "for" THEN ApGo(t, "count") ELSE ApDone(t)
    /\ beaten' = (beaten \/ cred # ap[t].cred \/ ~Airing(mode))
    /\ UNCHANGED <<offAt, offTimer, mode, cred, sta, stay>>

ApConfigFails(t) ==
    /\ ApAt(t, "config")
    /\ mode' = ap[t].saw
    /\ beaten' = (beaten \/ ap[t].op = "set" \/ apOn \/ ~Airing(mode))
    /\ ApDone(t)
    /\ stay' = (stay /\ ap[t].op # "start")
    /\ UNCHANGED <<apOn, offAt, offTimer, cred, live, sta>>

\* The count is started over
ApCount(t) ==
    /\ ApAt(t, "count")
    /\ offAt' = TRUE /\ offTimer' = TRUE
    /\ ApDone(t)
    /\ UNCHANGED <<apOn, mode, cred, live, sta, stay, beaten>>

\* off_timer_cb(): on to stay since, or off
OffTimer ==
    /\ offTimer /\ ApAt("timer", "idle")
    /\ offTimer' = FALSE
    /\ IF offAt THEN ApGo("timer", "stop") ELSE UNCHANGED ap
    /\ UNCHANGED <<apOn, offAt, mode, cred, live, sta, stay, beaten>>

\* The console stops it, on or not; a request only if it is on
ApOff(t) ==
    /\ IF t \in ApCallers \/ ApIsOn THEN ApGo(t, "stop") /\ stay' = FALSE
       ELSE ApDone(t) /\ UNCHANGED stay
    /\ UNCHANGED <<apOn, offAt, offTimer, mode, cred, live, sta, beaten>>

\* wifi_ap_stop(): the mode is read first and set last
ApStop(t) ==
    /\ ApAt(t, "stop")
    /\ CancelOff
    /\ apOn' = FALSE
    /\ IF Airing(mode) THEN ap' = [ap EXCEPT ![t].pc = "down", ![t].saw = mode] ELSE ApDone(t)
    /\ UNCHANGED <<mode, cred, live, sta, stay, beaten>>

ApDown(t) ==
    /\ ApAt(t, "down")
    /\ mode' = "sta"
    /\ beaten' = (beaten \/ mode # ap[t].saw \/ apOn)
    /\ ApDone(t)
    /\ UNCHANGED <<apOn, offAt, offTimer, cred, live, sta, stay>>

\* wifi_ap_set_credentials(): what runs is restarted with them, its count running on
ApSetCredentials(t, c, next) ==
    /\ ApAt(t, "idle")
    /\ cred' = c
    /\ ap' = IF ApIsOn THEN [ap EXCEPT ![t].pc = "up", ![t].op = "set", ![t].next = next]
             ELSE [ap EXCEPT ![t].pc = next]
    /\ UNCHANGED <<apOn, offAt, offTimer, mode, live, sta, stay, beaten>>

\* PATCH /network/ap, the reply sent: new credentials, if it gives any, and then on or off, if it says
ApPatch(t) ==
    \E next \in {"idle", "start", "off"} :
       \/ \E c \in Creds : ApSetCredentials(t, c, next)
       \/ /\ next # "idle" /\ ApAt(t, "idle")
          /\ ApGo(t, next)
          /\ UNCHANGED <<apOn, offAt, offTimer, mode, cred, live, sta, stay, beaten>>

\* wifi_known_join(): the station is added to the mode it saw
StaLook ==
    /\ sta = "none"
    /\ sta' = mode
    /\ UNCHANGED <<apOn, offAt, offTimer, mode, cred, live, ap, stay, beaten>>

StaMode ==
    /\ sta # "none"
    /\ IF sta \in {"null", "ap"} THEN SetMode(sta, IF sta = "ap" THEN "apsta" ELSE "sta")
       ELSE UNCHANGED <<mode, beaten>>
    /\ sta' = "none"
    /\ UNCHANGED <<apOn, offAt, offTimer, cred, live, ap, stay>>

ApCaller(t) ==
    ApAt(t, "idle") /\ (ApStart(t) \/ ApStartFor(t) \/ ApOff(t) \/ \E c \in Creds : ApSetCredentials(t, c, "idle"))

ApRequest(t) == ApPatch(t) \/ (ApAt(t, "start") /\ ApStart(t)) \/ (ApAt(t, "off") /\ ApOff(t))

ApStep(t) ==
    ApUp(t) \/ ApMode(t) \/ ApConfig(t) \/ ApConfigFails(t) \/ ApCount(t) \/ ApStop(t) \/ ApDown(t)

ApNext ==
    \/ \E t \in ApCallers : ApCaller(t)
    \/ ApRequest(ApServer)
    \/ \E t \in Tasks : ApStep(t)
    \/ OffTimer \/ StaLook \/ StaMode
----------------------------------------------------------------------------
(* What is promised. *)

ApTypeOK ==
    /\ {apOn, offAt, offTimer, stay, beaten} \subseteq BOOLEAN
    /\ mode \in Modes /\ sta \in Modes \cup {"none"} /\ {cred, live} \subseteq Creds
    /\ ap \in [Tasks -> [pc : {"idle", "up", "mode", "config", "count", "stop", "down", "start", "off"},
                          op : {"none", "start", "for", "set"}, saw : Modes, cred : Creds,
                          next : {"idle", "start", "off"}]]

ApQuiet == sta = "none" /\ \A t \in Tasks : ApAt(t, "idle")

\* wifi_ap.h:37-40: an access point that was turned on to stay, while no callback was already past
\* its look at the deadline, is on and no count of an earlier "for a while" is left to end it.
StaysOn == ApQuiet /\ stay /\ ~beaten => ApIsOn /\ ~offAt

\* A count always has its timer; the board is on the air when it says so and not otherwise, whatever
\* the station's joins do to the mode; what is on the air runs with the stored credentials.
ApSettles ==
    ApQuiet =>
        /\ offAt => offTimer
        /\ ~beaten => (apOn <=> Airing(mode)) /\ (apOn => live = cred)

\* wifi_ap.h:37-40 and wifi_known.c:597-601: both, whoever calls, and whatever the station does
ApKeepsItsWord == StaysOn /\ ApSettles
=============================================================================
