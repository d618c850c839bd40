----------------------------- MODULE WebServer -----------------------------
(***************************************************************************)
(* The settings and the routes of web_server/web_server.c, and api_core's  *)
(* tables behind them.                                                     *)
(*                                                                         *)
(* The application's task starts the server and registers routes, before   *)
(* or after; the console's runs `web`; the server's own runs               *)
(* PATCH /api/v1/web.  Nothing here is locked, and each setting is stored  *)
(* first and put in effect by a later step.                                *)
(*                                                                         *)
(* An allowlist is the set of its origins.  The server's event streams are *)
(* WebEvents'.                                                             *)
(***************************************************************************)
EXTENDS Naturals, Sequences, FiniteSets

CONSTANTS
    Hosts,          \* the names a board may be given
    DefaultHost,    \* the one it makes from its prefix and its MAC
    Origins,
    DefaultCors,    \* CONFIG_WEB_SERVER_CORS_ORIGINS
    MaxOrigins,     \* how many fit in CONFIG_WEB_SERVER_CORS_MAX_LEN
    Unset,          \* a key NVS does not hold, or null in a request
    Missing,        \* a member a request does not have
    WebRoutes,      \* what web_register() is called with: [path, method]
    ApiRoutes,      \* those of them in api_core's tables, and the built-in ones
    BuiltIn,        \* what web_server_start() registers
    MaxRoutes       \* CONFIG_WEB_SERVER_MAX_ROUTES

ASSUME WebServerAssumption ==
    /\ DefaultHost \notin Hosts /\ Unset \notin Hosts \cup {DefaultHost} /\ Missing # Unset
    /\ DefaultCors \subseteq Origins /\ MaxOrigins \in Nat
    /\ \A list \in SUBSET Origins : list # Unset
    /\ ApiRoutes \subseteq WebRoutes /\ MaxRoutes \in Nat
    /\ BuiltIn \in WebRoutes \ ApiRoutes

VARIABLES
    stored,     \* the NVS namespace "web"
    hostname,   \* s_hostname
    cors,       \* s_cors
    mdns,       \* the name announced; Unset when mDNS is not up
    tables,     \* api_core's s_tables, as one list of routes
    routes,     \* s_routes, each with its `live` and `preflight`
    serving,    \* s_server and httpd_stop(): "off", "on", "stopping"
    handlers,   \* what the running server has: <<path, method>>
    loop,       \* start_httpd()'s: the route it is at, and whose task runs it
    app,        \* the application's task
    cli,        \* the console's task in web_cmd(), and the allowlist cors_cmd() built
    patch,      \* the server's task in web_patch(), and the request
    unsynced,   \* history: the allowlist in effect is one that another command has replaced
    unstored,   \* history: `web on` or `web off` could not be stored
    unserved    \* history: the running server had no memory for a registration

settingVars == <<stored, hostname, cors, mdns>>
routeVars == <<tables, routes, serving, handlers, loop>>
taskVars == <<app, cli, patch>>
webHistory == <<unsynced, unstored, unserved>>
webServerVars == <<settingVars, routeVars, taskVars, webHistory>>

Factory == [host |-> Unset, off |-> FALSE, cors |-> Unset, password |-> FALSE]
NoCommand == [pc |-> "idle", list |-> {}]
NoRequest == [pc |-> "idle", body |-> [host |-> Missing, password |-> Missing, cors |-> Missing]]
NotStarting == [at |-> 0, by |-> "nobody"]

\* What a start of the board gives the variables in memory
Fresh ==
    /\ hostname = DefaultHost /\ cors = {} /\ mdns = Unset
    /\ tables = <<>> /\ routes = <<>> /\ serving = "off" /\ handlers = {} /\ loop = NotStarting
    /\ app = "start" /\ cli = NoCommand /\ patch = NoRequest
    /\ unsynced = FALSE /\ unstored = FALSE /\ unserved = FALSE

WebServerInit == stored = Factory /\ Fresh

----------------------------------------------------------------------------
(* Settings: stored, read back, and put in effect. *)

\* nvs_put_str(): it may fail
Put(key, value, ok) == stored' = IF ok THEN [stored EXCEPT ![key] = value] ELSE stored

\* load_hostname(), load_cors(): the stored one, "(even to nothing)", or the build's
LoadHostname == hostname' = IF stored.host = Unset THEN DefaultHost ELSE stored.host
LoadCors ==
    /\ cors' = IF stored.cors = Unset THEN DefaultCors ELSE stored.cors
    /\ unsynced' = FALSE

\* apply_hostname()
ApplyHostname == mdns' = IF mdns = Unset THEN Unset ELSE hostname

\* The console reads a command once the application has started the server
Prompt == app \notin {"start", "starting"} /\ cli.pc = "idle"
Commanded(pc) == Prompt /\ cli' = [cli EXCEPT !.pc = pc]
Ended == cli' = NoCommand

\* web hostname <name>|--clear
HostnameCommand(h, ok) ==
    /\ Commanded(IF ok THEN "loadHost" ELSE "idle")
    /\ Put("host", h, ok)
    /\ UNCHANGED <<hostname, cors, mdns, routeVars, app, patch, webHistory>>

LoadForConsole ==
    /\ cli.pc = "loadHost"
    /\ LoadHostname
    /\ cli' = [cli EXCEPT !.pc = "applyHost"]
    /\ UNCHANGED <<stored, cors, mdns, routeVars, app, patch, webHistory>>

ApplyForConsole ==
    /\ cli.pc = "applyHost"
    /\ ApplyHostname
    /\ Ended
    /\ UNCHANGED <<stored, hostname, cors, routeVars, app, patch, webHistory>>

\* web password <password>|--clear
PasswordCommand(set) ==
    /\ Commanded("idle")
    /\ Put("password", set, TRUE)
    /\ UNCHANGED <<hostname, cors, mdns, routeVars, app, patch, webHistory>>

\* web cors add|remove|none: the list is rebuilt from the one in effect ...
CorsCommand(list) ==
    /\ Prompt
    /\ Cardinality(list) <= MaxOrigins
    /\ \/ list = {}
       \/ \E o \in Origins : list = cors \cup {o} \/ (o \in cors /\ list = cors \ {o})
    /\ cli' = [pc |-> "storeCors", list |-> list]
    /\ UNCHANGED <<settingVars, routeVars, app, patch, webHistory>>

\* ... stored ...
StoreCors(ok) ==
    /\ cli.pc = "storeCors"
    /\ Put("cors", cli.list, ok)
    /\ IF ok THEN cli' = [cli EXCEPT !.pc = "copyCors"] ELSE Ended
    /\ UNCHANGED <<hostname, cors, mdns, routeVars, app, patch, webHistory>>

\* ... and copied, whatever is stored by then
CopyCors ==
    /\ cli.pc = "copyCors"
    /\ cors' = cli.list
    /\ unsynced' = (stored.cors # cli.list)
    /\ Ended
    /\ UNCHANGED <<stored, hostname, mdns, routeVars, app, patch, unstored, unserved>>

\* Mutant: the default is stored and not put in effect
ResetCorsOnly(ok) ==
    /\ Commanded("idle")
    /\ Put("cors", Unset, ok)
    /\ UNCHANGED <<hostname, cors, mdns, routeVars, app, patch, webHistory>>

\* web cors reset, whose failure is not looked at
ResetCors(ok) ==
    /\ Commanded("loadCors")
    /\ Put("cors", Unset, ok)
    /\ UNCHANGED <<hostname, cors, mdns, routeVars, app, patch, webHistory>>

LoadCorsForConsole ==
    /\ cli.pc = "loadCors"
    /\ LoadCors
    /\ Ended
    /\ UNCHANGED <<stored, hostname, mdns, routeVars, app, patch, unstored, unserved>>

Settings ==
    \/ \E h \in Hosts \cup {Unset}, ok \in BOOLEAN : HostnameCommand(h, ok)
    \/ \E set \in BOOLEAN : PasswordCommand(set)
    \/ \E list \in SUBSET Origins : CorsCommand(list)
    \/ \E ok \in BOOLEAN : StoreCors(ok) \/ ResetCors(ok)
    \/ LoadForConsole \/ ApplyForConsole \/ CopyCors \/ LoadCorsForConsole

----------------------------------------------------------------------------
(* PATCH /api/v1/web: all checked, then each stored in turn, to the first  *)
(* that fails.                                                             *)

Bodies == [host : Hosts \cup {Unset, Missing}, password : {TRUE, Unset, Missing},
           cors : {list \in SUBSET Origins : Cardinality(list) <= MaxOrigins} \cup {Unset, Missing}]

\* dispatch(): the request is for an address or for the board's name, and brings the password if
\* one is set
Admitted(host, authorised) ==
    /\ host \in {"address", hostname}
    /\ ~stored.password \/ authorised

\* The step after the settings before `pc` are done
After(pc, body) ==
    CASE pc = "host" /\ body.host # Missing -> "host"
      [] pc \in {"host", "password"} /\ body.password # Missing -> "password"
      [] pc \in {"host", "password", "cors"} /\ body.cors # Missing -> "cors"
      [] OTHER -> "idle"

GoOn(pc) == patch' = [patch EXCEPT !.pc = After(pc, patch.body)]
patchRest == <<routeVars, app, cli, unstored, unserved>>

Request(host, authorised, body) ==
    /\ serving = "on" /\ patch.pc = "idle"
    /\ <<"/web", "PATCH">> \in handlers
    /\ Admitted(host, authorised)
    /\ patch' = [pc |-> After("host", body), body |-> body]
    /\ UNCHANGED <<settingVars, unsynced, patchRest>>

\* The name in effect is read back and announced even when the new one was not stored
PatchHost(ok) ==
    /\ patch.pc = "host"
    /\ Put("host", patch.body.host, ok)
    /\ patch' = [patch EXCEPT !.pc = IF ok THEN "loadHost" ELSE "loadHostOnly"]
    /\ UNCHANGED <<hostname, cors, mdns, unsynced, patchRest>>

PatchLoadHost ==
    /\ patch.pc \in {"loadHost", "loadHostOnly"}
    /\ LoadHostname
    /\ patch' = [patch EXCEPT !.pc = IF @ = "loadHost" THEN "applyHost" ELSE "applyHostOnly"]
    /\ UNCHANGED <<stored, cors, mdns, unsynced, patchRest>>

PatchApplyHost ==
    /\ patch.pc \in {"applyHost", "applyHostOnly"}
    /\ ApplyHostname
    /\ IF patch.pc = "applyHost" THEN GoOn("password") ELSE patch' = NoRequest
    /\ UNCHANGED <<stored, hostname, cors, unsynced, patchRest>>

PatchPassword(ok) ==
    /\ patch.pc = "password"
    /\ Put("password", patch.body.password = TRUE, ok)
    /\ IF ok THEN GoOn("cors") ELSE patch' = NoRequest
    /\ UNCHANGED <<hostname, cors, mdns, unsynced, patchRest>>

PatchCors(ok) ==
    /\ patch.pc = "cors"
    /\ Put("cors", patch.body.cors, ok)
    /\ patch' = [patch EXCEPT !.pc = "loadCors"]
    /\ UNCHANGED <<hostname, cors, mdns, unsynced, patchRest>>

PatchLoadCors ==
    /\ patch.pc = "loadCors"
    /\ LoadCors
    /\ patch' = NoRequest
    /\ UNCHANGED <<stored, hostname, mdns, patchRest>>

Patching ==
    \/ \E host \in {"address"} \cup Hosts, authorised \in BOOLEAN, body \in Bodies :
          Request(host, authorised, body)
    \/ \E ok \in BOOLEAN : PatchHost(ok) \/ PatchPassword(ok) \/ PatchCors(ok)
    \/ PatchLoadHost \/ PatchApplyHost \/ PatchLoadCors

----------------------------------------------------------------------------
(* Routes. *)

Preflight(r) == <<r.path, "OPTIONS">>
Handled(r) == <<r.path, r.method>>

\* register_live(): the route's handler, and an OPTIONS one with its path's first route.  A
\* handler there already, or no memory (`made`), is a failure.
RegisterLive(i, made) ==
    LET r == routes[i]
        live == made /\ serving = "on" /\ Handled(r) \notin handlers
        first == ~\E j \in 1 .. i - 1 :
                     routes[j].preflight /\ routes[j].live /\ routes[j].path = r.path
        added == first /\ Preflight(r) \notin handlers
    IN  /\ routes' = [routes EXCEPT ![i].live = live,
                                    ![i].preflight = IF live THEN added ELSE @]
        /\ handlers' = handlers \cup IF ~live THEN {}
                                     ELSE {Handled(r)} \cup IF added THEN {Preflight(r)} ELSE {}
        /\ unserved' = (unserved \/ (serving = "on" /\ ~made))

Unregistered(r) == [path |-> r.path, method |-> r.method, live |-> FALSE, preflight |-> FALSE]

\* web_register(): the route is in the list ...
Register(r) ==
    /\ app \in {"start", "running"} /\ Len(routes) < MaxRoutes
    /\ \A i \in DOMAIN routes : Handled(routes[i]) # Handled(r)
    /\ r \in WebRoutes \ (ApiRoutes \cup {BuiltIn})
    /\ routes' = Append(routes, Unregistered(r))
    /\ app' = IF app = "start" THEN "start" ELSE "look"
    /\ UNCHANGED <<settingVars, tables, serving, handlers, loop, cli, patch, webHistory>>

\* ... before the server is looked at
Look ==
    /\ app = "look"
    /\ app' = IF serving = "off" THEN "running" ELSE "register"
    /\ UNCHANGED <<settingVars, routeVars, cli, patch, webHistory>>

RegisterNew(made) ==
    /\ app = "register"
    /\ RegisterLive(Len(routes), made)
    /\ app' = "running"
    /\ UNCHANGED <<settingVars, tables, serving, loop, cli, patch, unsynced, unstored>>

\* api_add_routes(): kept for every transport, and told to the HTTP one if it watches.
\* serve_route() is what it tells.
AddRoutes(r) ==
    /\ app \in {"start", "running"} /\ r \in ApiRoutes
    /\ \A i \in DOMAIN tables : tables[i] # r
    /\ tables' = Append(tables, r)
    /\ IF app = "start" THEN UNCHANGED <<routes, app>>
       ELSE /\ Len(routes) < MaxRoutes
            /\ routes' = Append(routes, Unregistered(r))
            /\ app' = "look"
    /\ UNCHANGED <<settingVars, serving, handlers, loop, cli, patch, webHistory>>

\* web_server_start(), to its start_httpd(): the settings, the tables so far, the built-in routes
WebServerStart(up) ==
    /\ app = "start"
    /\ Len(routes) + Len(tables) < MaxRoutes
    /\ LoadHostname /\ LoadCors
    /\ routes' = routes \o [i \in DOMAIN tables |-> Unregistered(tables[i])] \o <<Unregistered(BuiltIn)>>
    /\ mdns' = IF up THEN hostname' ELSE Unset
    /\ app' = IF stored.off THEN "running" ELSE "starting"
    /\ UNCHANGED <<stored, tables, serving, handlers, loop, cli, patch, unstored, unserved>>

----------------------------------------------------------------------------
(* start_httpd() and stop_httpd(). *)

Returned(by) == app' = IF by = "app" THEN "running" ELSE app

\* httpd_start(): it may fail
StartHttpd(by, ok) ==
    /\ IF serving # "off" \/ ~ok THEN UNCHANGED <<serving, loop>> /\ Returned(by)
       ELSE serving' = "on" /\ loop' = [at |-> 1, by |-> by] /\ UNCHANGED app

BootStart(ok) ==
    /\ app = "starting" /\ loop = NotStarting
    /\ StartHttpd("app", ok)
    /\ UNCHANGED <<settingVars, tables, routes, handlers, cli, patch, webHistory>>

\* start_httpd()'s loop: to the end of the list as it is by then
StartNext(made) ==
    /\ loop.at > 0
    /\ IF loop.at <= Len(routes)
       THEN RegisterLive(loop.at, made) /\ loop' = [loop EXCEPT !.at = @ + 1] /\ UNCHANGED <<app, cli>>
       ELSE /\ made
            /\ loop' = NotStarting /\ Returned(loop.by)
            /\ IF loop.by = "cli" THEN Ended ELSE UNCHANGED cli
            /\ UNCHANGED <<routes, handlers, unserved>>
    /\ UNCHANGED <<settingVars, tables, serving, patch, unsynced, unstored>>

\* web on, whose storing may fail and is not looked at
OnCommand(ok) ==
    /\ Commanded("start")
    /\ Put("off", FALSE, ok)
    /\ unstored' = ~ok
    /\ UNCHANGED <<hostname, cors, mdns, routeVars, app, patch, unsynced, unserved>>

OnStart(ok) ==
    /\ cli.pc = "start"
    /\ StartHttpd("cli", ok)
    /\ IF loop' = loop THEN Ended ELSE cli' = [cli EXCEPT !.pc = "starting"]
    /\ UNCHANGED <<settingVars, tables, routes, handlers, patch, webHistory>>

\* web off
OffCommand(ok) ==
    /\ Commanded("stop")
    /\ Put("off", TRUE, ok)
    /\ unstored' = ~ok
    /\ UNCHANGED <<hostname, cors, mdns, routeVars, app, patch, unsynced, unserved>>

\* httpd_stop() waits for the handler that runs; registrations meanwhile go to the old server
OffStop ==
    /\ cli.pc = "stop"
    /\ IF serving = "off" THEN Ended /\ UNCHANGED serving
       ELSE serving' = "stopping" /\ cli' = [cli EXCEPT !.pc = "wait"]
    /\ UNCHANGED <<settingVars, tables, routes, handlers, loop, app, patch, webHistory>>

Stopped ==
    /\ cli.pc = "wait" /\ patch.pc = "idle"
    /\ serving' = "off" /\ handlers' = {}
    /\ routes' = [i \in DOMAIN routes |-> Unregistered(routes[i])]
    /\ unserved' = FALSE
    /\ Ended
    /\ UNCHANGED <<settingVars, tables, loop, app, patch, unsynced, unstored>>

\* A restart of the board, or its power: NVS stays
WebRestart ==
    /\ app # "start"
    /\ hostname' = DefaultHost /\ cors' = {} /\ mdns' = Unset
    /\ tables' = <<>> /\ routes' = <<>> /\ serving' = "off" /\ handlers' = {} /\ loop' = NotStarting
    /\ app' = "start" /\ cli' = NoCommand /\ patch' = NoRequest
    /\ unsynced' = FALSE /\ unstored' = FALSE /\ unserved' = FALSE
    /\ UNCHANGED stored

Routing ==
    \/ \E r \in WebRoutes : Register(r) \/ AddRoutes(r)
    \/ \E ok \in BOOLEAN : RegisterNew(ok) \/ StartNext(ok) \/ BootStart(ok) \/ WebServerStart(ok)
                          \/ OnCommand(ok) \/ OnStart(ok) \/ OffCommand(ok)
    \/ Look \/ OffStop \/ Stopped

WebServerNext == Settings \/ Patching \/ Routing \/ WebRestart

----------------------------------------------------------------------------
(* What is promised. *)

WebServerTypeOK ==
    /\ stored \in [host : Hosts \cup {Unset}, off : BOOLEAN,
                   cors : (SUBSET Origins) \cup {Unset}, password : BOOLEAN]
    /\ hostname \in Hosts \cup {DefaultHost} /\ mdns \in Hosts \cup {DefaultHost, Unset}
    /\ cors \in SUBSET Origins
    /\ tables \in Seq(ApiRoutes) /\ Len(routes) <= MaxRoutes
    /\ {routes[i] : i \in DOMAIN routes} \subseteq [path : {r.path : r \in WebRoutes}, method : {r.method : r \in WebRoutes},
                                live : BOOLEAN, preflight : BOOLEAN]
    /\ serving \in {"off", "on", "stopping"}
    /\ handlers \subseteq {Handled(r) : r \in WebRoutes} \cup {Preflight(r) : r \in WebRoutes}
    /\ loop \in [at : 0 .. MaxRoutes + 1, by : {"nobody", "app", "cli"}]
    /\ app \in {"start", "starting", "running", "look", "register"}
    /\ cli.pc \in {"idle", "loadHost", "applyHost", "storeCors", "copyCors", "loadCors",
                   "start", "starting", "stop", "wait"}
    /\ patch.body \in Bodies
    /\ {unsynced, unstored, unserved} \subseteq BOOLEAN

\* No command, request or registration is under way, and the server was started
Settled == app = "running" /\ cli = NoCommand /\ patch.pc = "idle" /\ loop = NotStarting

\* The settings in effect are those a restart would load, whichever of the console and a request
\* stored last (web_server.c:1092, "what `web hostname`, `web password` and `web cors` do").
InEffect ==
    /\ hostname = IF stored.host = Unset THEN DefaultHost ELSE stored.host
    /\ mdns \in {Unset, hostname}
    /\ unsynced \/ cors = IF stored.cors = Unset THEN DefaultCors ELSE stored.cors

\* web_server.h:51, "Before or after the start": each route and its path's preflight is with the
\* running server, whenever `web on` and `web off` came; and it runs as stored.
Served ==
    /\ unstored \/ (serving = "on" => ~stored.off)
    /\ \A i \in DOMAIN tables : \E j \in DOMAIN routes : Handled(routes[j]) = Handled(tables[i])
    /\ serving = "on" /\ ~unserved =>
          \A i \in DOMAIN routes : {Handled(routes[i]), Preflight(routes[i])} \subseteq handlers

ServedAsAsked == Settled => InEffect /\ Served

=============================================================================
