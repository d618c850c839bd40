----------------------------- MODULE WebEvents -----------------------------
(***************************************************************************)
(* The event streams of web_server/web_events.c, over the hub of Events,   *)
(* and the HTTP server's start and stop around them (web_server.c).        *)
(*                                                                         *)
(* Three sorts of task meet here.  Publishers call queue_flush() out of    *)
(* notify(); the server's task takes what was queued, opens streams and    *)
(* sends; the console's task starts and stops the server.  A step is what  *)
(* a task does up to the next thing another one can see.                   *)
(*                                                                         *)
(* A state's JSON is a value, 0 or 1, and its hash that value; `system`    *)
(* carries the uptime and so is new each time.                             *)
(***************************************************************************)
EXTENDS Events

CONSTANTS
    Web,        \* web_events.c as a listener of the hub
    System,     \* the kind "system"
    Fds,        \* the sockets of the server
    NoFd,       \* -1
    MaxStreams, \* CONFIG_WEB_SERVER_MAX_STREAMS
    Masks,      \* the kinds a client may ask for
    Afters      \* the number it sends back, -1 for none

ASSUME WebAssumption ==
    /\ Listeners = {Web}
    /\ MaxSinks > 0 /\ MaxStreams \in Nat \ {0} /\ NoFd \notin Fds
    /\ Masks \subseteq SUBSET Kinds /\ Afters \subseteq -1 .. SeqMod

Places == 1 .. MaxStreams

VARIABLES
    httpd,      \* "off": s_server is NULL; "on"; "ended": its task has gone, s_server not yet
    work,       \* what waits on the server's control socket: "flush", "shutdown", oldest first
    queued,     \* s_queued
    asking,     \* the publishers between the exchange of s_queued and httpd_queue_work()
    srv,        \* the server's task: where it is in flush() or the handler
    con,        \* the console's task in stop_httpd()
    conns,      \* the connections open
    closing,    \* those drop() has asked the server to close
    streams,    \* s_streams
    sent,       \* s_sent: state kind -> the value last sent, -1 for none
    value,      \* the states the builders describe
    refused,    \* history: whether the flush last asked for was "refused" or "swallowed"
    shown,      \* history: of each stream and state, the value last sent, or Never, or Due once it
                \* is marked, or Unmade when there was no memory to send it
    base,       \* history: the count after which the stream is due happenings
    had,        \* history: the happenings it was sent
    upto,       \* history: the count its seq stands for
    missed      \* history: those passed over, not stored yet, with no memory to send them, or by a read
                \* a whole round of seqs behind

serverVars == <<httpd, work, queued, asking, srv, con, conns, closing>>
streamVars == <<streams, sent, value>>
delivery == <<base, had, upto, missed>>
streamHistory == <<refused, shown, delivery>>
webVars == <<serverVars, streamVars, streamHistory>>
allVars == <<vars, webVars>>

NoStream == [fd |-> NoFd, want |-> {}, seq |-> 0]
Waiting == [pc |-> "idle", rest |-> {}, at |-> 0]
NotSent == [k \in StateKinds |-> -1]
Never == -1
Due == -2
Unmade == -3
NotShown == [k \in StateKinds |-> Never]
Open(i) == streams[i].fd # NoFd

WebInit ==
    /\ Init
    /\ httpd = "off" /\ work = <<>> /\ queued = FALSE /\ asking = {}
    /\ srv = Waiting /\ con = "idle"
    /\ conns = {} /\ closing = {}
    /\ streams = [i \in Places |-> NoStream]
    /\ sent = NotSent
    /\ value = [k \in StateKinds |-> 0]
    /\ refused = "no"
    /\ shown = [i \in Places |-> NotShown]
    /\ base = [i \in Places |-> 0]
    /\ had = [i \in Places |-> {}]
    /\ upto = [i \in Places |-> 0]
    /\ missed = [i \in Places |-> {}]

----------------------------------------------------------------------------
(* Publishers, and queue_flush() in what notify() calls. *)

Free(p) == p \notin asking

\* A task changes a state and says so, or something happens.  The heartbeat publishes `system`
\* as any task does, and its uptime is new each time.
Publishing(p) ==
    /\ Free(p)
    /\ \/ \E k \in Kinds : Happened(p, k) /\ UNCHANGED value
       \/ \E k \in StateKinds, v \in 0 .. 1 :
             Changed(p, k) /\ value' = IF k = System THEN value ELSE [value EXCEPT ![k] = v]
       \/ \E made \in BOOLEAN : Store(p, made) /\ UNCHANGED value
    /\ UNCHANGED <<serverVars, streams, sent, streamHistory>>

Heard(i, k) == Open(i) /\ id[Web] # -1 /\ Wants(id[Web], k) /\ k \in streams[i].want

\* A state marked for the streams' listener is due to the streams that want it
Marking(p) ==
    /\ Mark(p)
    /\ shown' = [i \in Places |-> [k \in StateKinds |->
                    IF pub[p].kind = k /\ Heard(i, k) /\ shown[i][k] = Never THEN Due ELSE shown[i][k]]]
    /\ UNCHANGED <<serverVars, streamVars, refused, delivery>>

\* queue_flush() up to the exchange: who finds s_queued set leaves it to that flush
QueueFlush(p, s) ==
    /\ Free(p)
    /\ Call(p, s)
    /\ queued' = (queued \/ httpd # "off")
    /\ asking' = IF httpd # "off" /\ ~queued THEN asking \cup {p} ELSE asking
    /\ UNCHANGED <<httpd, work, srv, con, conns, closing, streamVars, streamHistory>>

\* httpd_queue_work() and what follows it: the message is taken, or refused.  A server that has
\* ended takes it and never runs it.
QueueWork(p, taken) ==
    /\ p \in asking
    /\ asking' = asking \ {p}
    /\ work' = IF taken /\ httpd = "on" THEN Append(work, "flush") ELSE work
    /\ queued' = taken
    /\ refused' = IF httpd = "on" /\ taken THEN refused
                  ELSE IF taken THEN "swallowed" ELSE "refused"
    /\ UNCHANGED <<vars, httpd, srv, con, conns, closing, streamVars, shown, delivery>>

Returning(p) ==
    /\ Free(p)
    /\ Return(p)
    /\ UNCHANGED webVars

----------------------------------------------------------------------------
(* What the server's task does with its streams.  hubRest is what a send leaves alone. *)

hubRest == <<vars, httpd, asking, con, conns, value>>

\* Mutant: the connection is told to close and the place left to its closing
DropLater(bad, s) ==
    /\ streams' = s
    /\ closing' = closing \cup {streams[i].fd : i \in bad} \cup {NoFd}

\* drop(), of streams send_all() failed for: it does not wait, so it may fail for any.  The place
\* is free at once; the connection is closed when that message comes round.
Drop(bad, s) ==
    /\ streams' = [i \in Places |-> IF i \in bad THEN NoStream ELSE s[i]]
    /\ closing' = closing \cup {streams[i].fd : i \in bad}

Union == UNION {streams[i].want : i \in {j \in Places : Open(j)}}

\* events_want(), or events_listen() the first time
Wanting(want) ==
    IF id[Web] = -1 THEN \E s \in Slots : Listen(Web, want, s) ELSE Want(Web, want)

\* "whatever changes next, the new stream hears"
SentAtOpen == NotSent

\* web_events_get(): the first free place.  A stream starts after the client's number, or now.
OpenStream(i, fd, want, after) ==
    LET from == IF after = -1 THEN SeqOf(count) ELSE after
    IN  /\ httpd = "on" /\ srv.pc = "idle" /\ fd \notin conns
        /\ ~Open(i) /\ \A j \in Places : j < i => Open(j)
        /\ streams' = [streams EXCEPT ![i] = [fd |-> fd, want |-> want, seq |-> from]]
        /\ sent' = SentAtOpen
        /\ conns' = conns \cup {fd}
        /\ srv' = [pc |-> IF after = -1 THEN "want" ELSE "wantReplay", rest |-> {}, at |-> i]
        /\ shown' = [shown EXCEPT ![i] = NotShown]
        /\ base' = [base EXCEPT ![i] = count]
        /\ had' = [had EXCEPT ![i] = {}]
        /\ upto' = [upto EXCEPT ![i] = count]
        /\ missed' = [missed EXCEPT ![i] = {}]
        /\ UNCHANGED <<vars, httpd, work, queued, asking, con, closing, value, refused>>

\* ... and is wanted from here on
UpdateWant ==
    /\ srv.pc \in {"want", "wantReplay"}
    /\ Wanting(Union)
    /\ base' = IF srv.pc = "want" THEN [base EXCEPT ![srv.at] = count] ELSE base
    /\ srv' = IF srv.pc = "want" THEN Waiting ELSE [srv EXCEPT !.pc = "replay"]
    /\ UNCHANGED <<httpd, work, queued, asking, con, conns, closing, streamVars,
                   refused, shown, had, upto, missed>>

\* send_happenings(): the cursor moves on whether or not there is memory for the text
SendHappenings(i, made, next) ==
    LET new == Since(streams[i].seq, streams[i].want \ StateKinds)
        read == [streams EXCEPT ![i].seq = SeqOf(count)]
    IN  \E bad \in SUBSET IF made /\ new # {} /\ Open(i) THEN {i} ELSE {} :
            /\ Drop(bad, read)
            /\ srv' = next
            /\ had' = [had EXCEPT ![i] = IF made THEN @ \cup new ELSE @]
            /\ upto' = [upto EXCEPT ![i] = count]
            /\ missed' = [missed EXCEPT ![i] = @ \cup {n \in 1 .. count : InFlight(n)}
                                                 \cup (IF made THEN {} ELSE new)
                                                 \cup IF count - upto[i] < SeqMod THEN {} ELSE 1 .. count]
            /\ base' = IF srv.pc = "replay" THEN [base EXCEPT ![i] = From(streams[i].seq, count)] ELSE base
            /\ UNCHANGED <<hubRest, work, queued, sent, refused, shown>>

Replay(made) == srv.pc = "replay" /\ SendHappenings(srv.at, made, Waiting)

Serving(what) == httpd = "on" /\ srv.pc = "idle" /\ work # <<>> /\ Head(work) = what

\* Mutant: s_queued is left to the end, and the flush is asked for meanwhile by nobody
StartFlushLate ==
    /\ Serving("flush")
    /\ work' = Tail(work)
    /\ srv' = [pc |-> "take", rest |-> {}, at |-> 0]
    /\ UNCHANGED <<hubRest, queued, refused, closing, streams, sent, shown, delivery>>

\* flush(): s_queued is cleared before anything is read
StartFlush ==
    /\ Serving("flush")
    /\ work' = Tail(work)
    /\ queued' = FALSE
    /\ refused' = IF refused = "refused" THEN "no" ELSE refused
    /\ srv' = [pc |-> "take", rest |-> {}, at |-> 0]
    /\ UNCHANGED <<hubRest, closing, streams, sent, shown, delivery>>

TakeDirty ==
    /\ srv.pc = "take"
    /\ Take(Web)
    /\ srv' = [pc |-> "states", rest |-> sinks[id[Web]].dirty, at |-> 0]
    /\ UNCHANGED <<httpd, work, queued, asking, con, conns, closing, streamVars,
                   streamHistory>>

\* One dirty kind: built if anyone wants it, sent if it is not what was sent last.  `made`: the
\* JSON and its text are, or the JSON only, or neither.
SendState(k, made) ==
    LET to == {i \in Places : Open(i) /\ k \in streams[i].want}
        again == k # System /\ sent[k] = value[k]
        sends == to # {} /\ made # "none" /\ ~again
    IN  /\ srv.pc = "states" /\ k \in srv.rest
        /\ srv' = [srv EXCEPT !.rest = @ \ {k}]
        /\ sent' = IF sends THEN [sent EXCEPT ![k] = value[k]] ELSE sent
        /\ \E bad \in SUBSET IF sends /\ made = "all" THEN to ELSE {} : Drop(bad, streams)
        /\ shown' = [i \in Places |->
                        IF i \notin to \/ (again /\ made # "none") THEN shown[i]
                        ELSE [shown[i] EXCEPT ![k] = IF made = "all" THEN value[k] ELSE Unmade]]
        /\ UNCHANGED <<hubRest, work, queued, refused, delivery>>

StatesDone ==
    /\ srv.pc = "states" /\ srv.rest = {}
    /\ srv' = [pc |-> "happenings", rest |-> {}, at |-> 1]
    /\ UNCHANGED <<hubRest, closing, work, queued, streams, sent, streamHistory>>

FlushHappenings(made) ==
    LET next == IF srv.at = MaxStreams THEN Waiting ELSE [srv EXCEPT !.at = @ + 1]
    IN  /\ srv.pc = "happenings"
        /\ IF Open(srv.at) THEN SendHappenings(srv.at, made, next)
           ELSE made /\ srv' = next
                /\ UNCHANGED <<hubRest, closing, work, queued, streams, sent, streamHistory>>

\* heartbeat_send(), queued by the timer while the server is up: a comment for those that do
\* not want `system`, and a stream whose client has gone away is found
SendBeat ==
    /\ httpd = "on" /\ srv.pc = "idle"
    /\ \E bad \in SUBSET {i \in Places : Open(i) /\ System \notin streams[i].want} :
          bad # {} /\ Drop(bad, streams)
    /\ UNCHANGED <<hubRest, srv, work, queued, sent, streamHistory>>

\* Mutant: only the listener's wants are brought up to date
WithoutNot(on) == streams

Without(on) == [i \in Places |-> IF i \in on THEN NoStream ELSE streams[i]]

\* web_events_closed(): the listener wants what is left, if a stream was on the connection
Close(fd) ==
    LET on == {i \in Places : streams[i].fd = fd}
        left == Without(on)
    IN  /\ streams' = left
        /\ conns' = conns \ {fd} /\ closing' = closing \ {fd}
        /\ IF on = {} THEN UNCHANGED vars
           ELSE Wanting(UNION {left[i].want : i \in {j \in Places : left[j].fd # NoFd}})

closeRest == <<queued, asking, con, sent, value, shown, delivery>>

\* A connection closes: drop() asked for it, the client closed it, or room is made for another
CloseOne(fd) ==
    /\ httpd = "on" /\ srv.pc = "idle" /\ fd \in conns
    /\ Close(fd)
    /\ UNCHANGED <<httpd, work, srv, refused, closeRest>>

----------------------------------------------------------------------------
(* start_httpd() and stop_httpd(), on the console's task. *)

\* The board's kinds are declared before the server starts
StartServer ==
    /\ con = "idle" /\ httpd = "off" /\ kinds = Kinds
    /\ httpd' = "on"
    /\ UNCHANGED <<vars, work, queued, asking, srv, con, conns, closing, streamVars, streamHistory>>

\* web_events_stopped(): the timer, the streams, then what is wanted
ClearStreams ==
    /\ con = "idle" /\ httpd = "on"
    /\ streams' = [i \in Places |-> NoStream]
    /\ con' = "want"
    /\ UNCHANGED <<vars, httpd, work, queued, asking, srv, conns, closing, sent, value, streamHistory>>

WantNone ==
    /\ con = "want"
    /\ Wanting(Union)
    /\ con' = "stop"
    /\ UNCHANGED <<httpd, work, queued, asking, srv, conns, closing, streamVars, streamHistory>>

\* httpd_stop() asks the server's task to end, and waits for it
Stop ==
    /\ con = "stop"
    /\ work' = Append(work, "shutdown")
    /\ con' = "wait"
    /\ UNCHANGED <<vars, httpd, queued, asking, srv, conns, closing,
                   streamVars, streamHistory>>

\* The task leaves what was queued after the shutdown, and closes its connections
Shutdown ==
    /\ Serving("shutdown")
    /\ work' = <<>>
    /\ refused' = IF "flush" \in {work[m] : m \in 2 .. Len(work)} THEN "swallowed" ELSE refused
    /\ httpd' = "ended"
    /\ UNCHANGED <<vars, srv, conns, closing, streams, closeRest>>

CloseLast(fd) ==
    /\ httpd = "ended" /\ fd \in conns
    /\ Close(fd)
    /\ UNCHANGED <<httpd, work, srv, refused, closeRest>>

ServerOff ==
    /\ con = "wait" /\ httpd = "ended" /\ conns = {}
    /\ httpd' = "off"
    /\ con' = "idle"
    /\ UNCHANGED <<vars, work, queued, asking, srv, conns, closing, streamVars, streamHistory>>

----------------------------------------------------------------------------
Declaring == httpd = "off" /\ (\E k \in Kinds : Declare(k)) /\ UNCHANGED webVars

Notifying(p) ==
    \/ Marking(p) \/ Returning(p)
    \/ \E s \in Slots : QueueFlush(p, s)
    \/ \E taken \in BOOLEAN : QueueWork(p, taken)

\* What the server's task does with what it has been given
Server ==
    \/ UpdateWant \/ StartFlush \/ TakeDirty \/ StatesDone \/ SendBeat \/ Shutdown
    \/ \E made \in BOOLEAN : Replay(made) \/ FlushHappenings(made)
    \/ \E k \in StateKinds, made \in {"all", "json", "none"} : SendState(k, made)
    \/ \E fd \in Fds : CloseOne(fd) \/ CloseLast(fd)

Clients ==
    \E i \in Places, fd \in Fds, want \in Masks, after \in Afters :
        OpenStream(i, fd, want, after)

Console == StartServer \/ ClearStreams \/ WantNone \/ Stop \/ ServerOff

WebNext ==
    \/ Declaring
    \/ \E p \in Publishers : Publishing(p) \/ Notifying(p)
    \/ Server \/ Clients \/ Console

WebSpec == WebInit /\ [][WebNext]_allVars

----------------------------------------------------------------------------
(* What is promised. *)

WebTypeOK ==
    /\ TypeOK
    /\ httpd \in {"off", "on", "ended"}
    /\ work \in Seq({"flush", "shutdown"})
    /\ queued \in BOOLEAN /\ asking \in SUBSET Publishers
    /\ srv \in [pc : {"idle", "want", "wantReplay", "replay", "take", "states", "happenings"},
                rest : SUBSET StateKinds, at : 0 .. MaxStreams]
    /\ con \in {"idle", "want", "stop", "wait"}
    /\ conns \in SUBSET Fds /\ closing \in SUBSET conns
    /\ streams \in [Places -> [fd : Fds \cup {NoFd}, want : SUBSET Kinds, seq : Nat]]
    /\ sent \in [StateKinds -> -1 .. 1] /\ value \in [StateKinds -> 0 .. 1]
    /\ refused \in {"no", "refused", "swallowed"}
    /\ shown \in [Places -> [StateKinds -> Unmade .. 1]]
    /\ {base[i] : i \in Places} \cup {upto[i] : i \in Places} \subseteq Nat
    /\ {had[i] \cup missed[i] : i \in Places} \subseteq SUBSET Nat

\* Nobody is publishing, the server has nothing to do, and no flush was refused
Quiet ==
    /\ \A p \in Publishers : pub[p].pc = "idle"
    /\ asking = {} /\ httpd = "on" /\ con = "idle"
    /\ srv.pc = "idle" /\ work = <<>>
    /\ refused = "no"

\* web_events.c:318, "whatever changes next, the new stream hears": when all is quiet, an open
\* stream has been sent the present value of every state it wants that changed since it opened,
\* however the flushes coalesced, whoever came, and whichever values were sent before.
QuietIsCurrent ==
    Quiet => \A i \in Places : Open(i) =>
        \A k \in streams[i].want \cap StateKinds : shown[i][k] \in {Never, Unmade, value[k]}

\* When all is quiet, an open stream has been sent every happening since the number it began at
\* that it wants and that the ring still keeps, but for those its reads passed over.
QuietIsDelivered ==
    Quiet => \A i \in Places : Open(i) =>
        \A n \in base[i] + 1 .. count :
            n > count - Kept /\ kindOf[n] \in streams[i].want
                => n \in had[i] \cup missed[i] \cup unkept

\* web_events.c:13: streams are the server's task's, and `web off` ends them from the console's:
\* every stream is on a connection of its own, so that none outlives the server and keeps its place.
StreamsAreConnections ==
    \A i \in Places : Open(i) =>
        streams[i].fd \in conns /\ \A j \in Places : streams[j].fd = streams[i].fd => i = j

=============================================================================
