------------------------------- MODULE MCWeb -------------------------------
(* The event streams, and the web server's settings and routes, each on its own. *)
EXTENDS WebEvents, WebServer, TLC

VARIABLE part   \* what runs: the streams, the settings, or the routes

AllVars == <<part, allVars, webServerVars>>

WebPartsInit == part \in {"streams", "settings", "routes"} /\ WebInit /\ WebServerInit

WebPartsNext ==
    /\ UNCHANGED part
    /\ \/ part = "streams" /\ WebNext /\ UNCHANGED webServerVars
       \/ part = "settings" /\ WebServerNext /\ UNCHANGED allVars
       \/ part = "routes" /\ (Routing \/ WebRestart) /\ UNCHANGED allVars

PartsSpec == WebPartsInit /\ [][WebPartsNext]_AllVars

\* Settings with the built-in route only
Explored == part = "settings" => Len(routes) <= 1 /\ tables = <<>> /\ ~unserved /\ ~unstored

WebPartsTypeOK == WebTypeOK /\ WebServerTypeOK
QuietIsTold == QuietIsCurrent /\ QuietIsDelivered

Asked == {{"leds", "ended"}}    \* what a client wants
Sent == {-1, 1}                 \* what it was sent last

\* Two of a path, one of another; one in api_core's tables, the request's own
Web1 == [path |-> "/web", method |-> "GET"]
Web2 == [path |-> "/web", method |-> "PATCH"]
Servo == [path |-> "/servo", method |-> "GET"]
AppRoute == [path |-> "/servo", method |-> "PATCH"]
Registered == {Web1, Web2, Servo, AppRoute}
InTables == {Servo}
=============================================================================
