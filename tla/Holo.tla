---------------------------------- MODULE Holo ----------------------------------
(***************************************************************************)
(* The holoprojectors (holo/holo.c): each has two axes and a light, and    *)
(* one task animates them all, a frame at a time under s_lock.  Commands,  *)
(* from the console and the API, take the lock, change what a holo is      *)
(* doing, let the lock go and wake the task, which sleeps only when        *)
(* nothing moves.                                                          *)
(*                                                                         *)
(* A place is a point of a small grid, a leg of a motion takes Frames      *)
(* frames, and a time that was asked for runs out when it does.            *)
(***************************************************************************)
EXTENDS Integers

CONSTANTS
    Holos,          \* s_desc
    Reach,          \* half an axis's travel: a place is -Reach .. Reach on each
    Swing,          \* range, of the motions that have one
    Count,          \* count, of the motions that end by themselves
    Frames,         \* the frames of a leg
    Targets,        \* where moves and nudges are asked to go
    HoloCallers     \* the tasks that give commands

ASSUME HoloAssumption ==
    /\ Reach \in Nat /\ Swing \in 1 .. Reach /\ Count \in Nat \ {0} /\ Frames \in Nat \ {0}
    /\ Targets \subseteq [{"h", "v"} -> -Reach .. Reach]

VARIABLES
    light,      \* each Holo's light: led, after, led_until and leia
    steady,     \* history: the light it was last asked to keep
    holo,       \* its motion
    axis,       \* its two axes, as the hooks or the servo component have them
    armed,      \* what the armed hook says
    task,       \* the task: between frames, "busy" or "idle"
    notified,   \* the task's notification
    waking      \* the callers that have let the lock go and not yet notified

holoVars == <<light, steady, holo, axis, armed, task, notified, waking>>

Both == {"h", "v"}
Middle == [a \in Both |-> 0]
Never == Reach + 1      \* sent_h, sent_v: send the next one whatever it is
Kept == {"off", "on"}
Animated == {"flicker"} \* LED_PULSE, LED_FLICKER, LED_BLINK
Ends == {"wag", "nod", "circle"}
Rim == << [h |-> 0, v |-> Swing], [h |-> -Swing, v |-> 0], [h |-> 0, v |-> -Swing], [h |-> Swing, v |-> 0] >>
CircleSteps == 4
Timed == {"none", "running", "over"}

Still == [motion |-> "hold", moving |-> FALSE, at |-> Middle, to |-> Middle, frames |-> 0, until |-> "none",
          total |-> 0, left |-> 0, home |-> Middle, step |-> 0, sent |-> [a \in Both |-> Never],
          stopped |-> "no", ended |-> "none"]

Unmoved == [fitted |-> TRUE, calibrated |-> TRUE, placed |-> FALSE, at |-> 0, driven |-> FALSE]

HoloInit ==
    /\ light = [i \in Holos |-> [led |-> "off", after |-> "off", until |-> "none", leia |-> FALSE]]
    /\ steady = [i \in Holos |-> "off"]
    /\ holo = [i \in Holos |-> Still]
    /\ axis = [i \in Holos |-> [a \in Both |-> Unmoved]]
    /\ armed = TRUE /\ task = "busy" /\ notified = FALSE /\ waking = {}

----------------------------------------------------------------------------
(* Motions. *)

\* Mutant: only one end of the travel is kept to
ClampUp(p) == [a \in Both |-> IF p[a] > Reach THEN Reach ELSE p[a]]

Clamp(p) == [a \in Both |-> IF p[a] > Reach THEN Reach ELSE IF p[a] < -Reach THEN -Reach ELSE p[a]]
Plus(p, q) == [a \in Both |-> p[a] + q[a]]

\* The axis hooks: move_axis(), release_axis() and set_endpoints(), which need a servo that is there
MovedTo(x, p) == [x EXCEPT !.at = p, !.placed = TRUE, !.driven = TRUE]
Limp(x) == [x EXCEPT !.driven = FALSE]
WithEndpoints(x, kept) == IF x.fitted THEN [x EXCEPT !.calibrated = kept] ELSE x

\* locate()
Located(i) == [a \in Both |-> IF axis[i][a].fitted /\ axis[i][a].placed THEN axis[i][a].at ELSE 0]

Segment(m, to) == [m EXCEPT !.moving = TRUE, !.to = Clamp(to), !.frames = Frames]

\* stop_motion()
StoppedBy(m, why) == [m EXCEPT !.stopped = why, !.motion = "hold", !.moving = FALSE, !.until = "none"]

\* begin(); "ended" is history: the motion that ended by itself
Begun(i, motion, until, total) ==
    [holo[i] EXCEPT !.motion = motion, !.at = Located(i), !.home = Located(i), !.moving = FALSE, !.stopped = "no",
                    !.sent = [a \in Both |-> Never], !.step = 0, !.until = until,
                    !.total = total, !.left = total, !.ended = "none"]

Ended(m) == [m EXCEPT !.motion = "hold", !.ended = m.motion]

\* Mutant: a swing that is the last is taken for one across
SwingAway(m, k, left) ==
    LET a == IF m.motion = "wag" THEN "h" ELSE "v"
    IN  [m.at EXCEPT ![a] = m.home[a] + IF k % 2 = 1 THEN -Swing ELSE Swing]

\* A swing is out, across and across, and the last one home
SwingTo(m, k, left) ==
    LET a == IF m.motion = "wag" THEN "h" ELSE "v"
        off == IF left = 0 THEN 0 ELSE IF k % 2 = 1 THEN -Swing ELSE Swing
    IN  [m.at EXCEPT ![a] = m.home[a] + off]

CircleTo(m, k, left) ==
    IF left = 0 THEN m.home
    ELSE IF k = 0 THEN Plus(m.home, Rim[CircleSteps])
    ELSE Plus(m.home, Rim[1 + ((k - 1) % CircleSteps)])

\* next_segment()
NextSegment(m) ==
    LET k == m.total - m.left
        left == m.left - 1
    IN  CASE m.motion \in {"hold", "move"} -> Ended(m)
          [] m.motion = "twitch" -> m
          [] m.motion \in Ends /\ m.left <= 0 -> Ended(m)
          [] m.motion \in {"wag", "nod"} /\ m.left > 0 -> [Segment(m, SwingTo(m, k, left)) EXCEPT !.left = left]
          [] m.motion = "circle" /\ m.left > 0 -> [Segment(m, CircleTo(m, k, left)) EXCEPT !.left = left]
          [] m.motion = "scan" ->
               [Segment(m, [m.at EXCEPT !["h"] = IF m.step = 1 THEN -Swing ELSE Swing]) EXCEPT !.step = 1 - @]

----------------------------------------------------------------------------
(* The light. *)

\* Mutant: a timed mode goes back to the one before it, timed or not
LitChain(l, led, timed) ==
    [led |-> led, after |-> IF timed THEN l.led ELSE l.after,
     until |-> IF timed THEN "running" ELSE "none", leia |-> FALSE]

\* set_led(): a mode for a time, and then what it was, unless that was timed too; or a mode to stay
Lit(l, led, timed) ==
    [led |-> led, after |-> IF timed /\ l.until = "none" THEN l.led ELSE l.after,
     until |-> IF timed THEN "running" ELSE "none", leia |-> FALSE]

SetLed(i, led, timed) ==
    /\ light' = [light EXCEPT ![i] = Lit(@, led, timed)]
    /\ steady' = IF timed THEN steady ELSE [steady EXCEPT ![i] = led]

LedAnimated(l) == l.led \in Animated \/ l.until # "none"
LightTick(l) ==
    IF l.until = "over" THEN [led |-> l.after, after |-> l.after, until |-> "none", leia |-> FALSE] ELSE l

----------------------------------------------------------------------------
(* Commands. *)

\* motion_refusal()
Refused(i) == ~armed \/ \E a \in Both : ~axis[i][a].fitted \/ ~axis[i][a].calibrated

\* The lock let go: the task is notified after it
Commanded(c) == c \notin waking /\ waking' = waking \cup {c} /\ UNCHANGED <<armed, task, notified>>

Start(i, m) ==
    /\ holo' = IF Refused(i) THEN holo ELSE [holo EXCEPT ![i] = m]
    /\ UNCHANGED <<light, steady, axis>>

\* start_motion(): HOLO_CENTER and HOLO_MOVE; HOLO_NUDGE; HOLO_TWITCH; HOLO_SCAN, HOLO_WAG, HOLO_NOD, HOLO_CIRCLE
MoveTo(i, to) == Start(i, Segment(Begun(i, "move", "none", 0), to))
Nudge(i, by) == Start(i, Segment(Begun(i, "move", "none", 0), Plus(Located(i), by)))
Twitch(i, until) == Start(i, Begun(i, "twitch", until, 0))
Scan(i, until) == Start(i, NextSegment(Begun(i, "scan", until, 0)))
WagOrNod(i, motion) == Start(i, NextSegment(Begun(i, motion, "none", 2 * Count + 1)))
Circle(i) == Start(i, NextSegment(Begun(i, "circle", "none", CircleSteps * Count + 2)))

StopMotion(i) == holo' = [holo EXCEPT ![i] = StoppedBy(@, "no")] /\ UNCHANGED <<light, steady, axis>>

\* HOLO_OFF: the axes limp and the light off
SwitchOff(i) ==
    /\ holo' = [holo EXCEPT ![i] = StoppedBy(@, "no")]
    /\ axis' = [axis EXCEPT ![i] = [a \in Both |-> Limp(@[a])]]
    /\ SetLed(i, "off", FALSE)

Light(i, led, timed) == SetLed(i, led, timed) /\ UNCHANGED <<holo, axis>>

\* leia(): the light flickers for a time, and the holo looks straight out if it may
Leia(i) ==
    /\ light' = [light EXCEPT ![i] = [Lit(@, "flicker", TRUE) EXCEPT !.leia = TRUE]]
    /\ holo' = IF Refused(i) THEN holo ELSE [holo EXCEPT ![i] = Segment(Begun(i, "move", "none", 0), Middle)]
    /\ UNCHANGED <<steady, axis>>

\* holo endpoints: an axis's calibration, saved or cleared; it stops nothing
Endpoints(i, a, saved) ==
    /\ axis' = [axis EXCEPT ![i][a] = WithEndpoints(@, saved)]
    /\ UNCHANGED <<light, steady, holo>>

\* start_motion(), of what is within its limits
Motion(i) ==
    \/ \E p \in Targets : MoveTo(i, p) \/ Nudge(i, p)
    \/ \E until \in {"none", "running"} : Twitch(i, until) \/ Scan(i, until)
    \/ WagOrNod(i, "wag") \/ WagOrNod(i, "nod") \/ Circle(i)
    \/ StopMotion(i) \/ SwitchOff(i)

\* The C API, for the web and a panel: what it checks is kept to, and the light is one that is fitted
HoloMotion(c, i) == Commanded(c) /\ Motion(i)
HoloLight(c, i) == Commanded(c) /\ \E led \in Kept \cup Animated, timed \in BOOLEAN : Light(i, led, timed)
HoloLeia(c, i) == Commanded(c) /\ Leia(i)

\* The command, which has the endpoints besides
HoloCommand(c, i) ==
    \/ HoloMotion(c, i) \/ HoloLight(c, i) \/ HoloLeia(c, i)
    \/ Commanded(c) /\ \E a \in Both, saved \in BOOLEAN : Endpoints(i, a, saved)

\* xTaskNotifyGive()
Wake(c) ==
    /\ c \in waking
    /\ waking' = waking \ {c} /\ notified' = TRUE
    /\ UNCHANGED <<light, steady, holo, axis, armed, task>>

----------------------------------------------------------------------------
(* The task. *)

\* Along the leg: the last frame is at its end exactly
Stepped(m) == [a \in Both |-> m.at[a] + (m.to[a] - m.at[a]) \div m.frames]

\* send(): the horizontal axis, then the vertical, and only one whose place changed
Needs(m, p) == {a \in Both : m.sent[a] # p[a]}
Refusing(i, m, p) == \E a \in Needs(m, p) : ~axis[i][a].fitted
Sends(i, m, p) == {a \in Needs(m, p) : axis[i][a].fitted /\ (a = "v" => "h" \notin Needs(m, p) \/ axis[i]["h"].fitted)}

\* tick_holo(), where a twitch whose pause is over looks at "aim"
Tick(i, looks, aim) ==
    LET m == holo[i]
        p == Stepped(m)
        moves == m.moving /\ armed
        on == [m EXCEPT !.at = p, !.frames = @ - 1,
                        !.sent = [a \in Both |-> IF a \in Sends(i, m, p) THEN p[a] ELSE m.sent[a]]]
    IN  CASE m.motion = "hold" -> m
          [] m.motion # "hold" /\ ~armed -> StoppedBy(m, "not armed")
          [] m.motion # "hold" /\ armed /\ m.until = "over" /\ ~m.moving -> StoppedBy(m, "no")
          [] moves /\ Refusing(i, m, p) -> StoppedBy(on, "refused")
          [] moves /\ ~Refusing(i, m, p) -> IF on.frames = 0 THEN NextSegment([on EXCEPT !.moving = FALSE]) ELSE on
          [] OTHER -> IF looks THEN Segment(m, aim) ELSE m

\* Its places on the axes
AxesMoved(i) ==
    LET p == Stepped(holo[i])
        moved == IF holo[i].moving /\ armed THEN Sends(i, holo[i], p) ELSE {}
    IN  [a \in Both |-> IF a \in moved THEN MovedTo(axis[i][a], p[a]) ELSE axis[i][a]]

\* Mutant: a light that is on for a time keeps nobody awake
BusyMoving(i, m, l) == l.led \in Animated \/ holo[i].motion # "hold"

\* Whether it keeps the task awake: it moves, or has just ended by itself, or has light to change
Busy(i, m, l) == LedAnimated(l) \/ (holo[i].motion # "hold" /\ (m.motion # "hold" \/ m.ended # "none"))

\* holo_task(): a frame of every holo, and how long until the next
Frame ==
    /\ task = "busy" \/ notified
    /\ \E looking \in SUBSET {i \in Holos : holo[i].motion = "twitch" /\ ~holo[i].moving}, aim \in Targets :
          holo' = [i \in Holos |-> Tick(i, i \in looking, aim)]
    /\ light' = [i \in Holos |-> LightTick(light[i])]
    /\ axis' = [i \in Holos |-> AxesMoved(i)]
    /\ task' = IF \E i \in Holos : Busy(i, holo'[i], light'[i]) THEN "busy" ELSE "idle"
    /\ notified' = IF task = "idle" THEN FALSE ELSE notified
    /\ UNCHANGED <<steady, armed, waking>>

\* IDLE_REFRESH_MS
Refresh == task = "idle" /\ ~notified /\ task' = "busy" /\ UNCHANGED <<light, steady, holo, axis, armed, notified, waking>>

----------------------------------------------------------------------------
(* Time and the world. *)

LightRunsOut(i) ==
    /\ light[i].until = "running" /\ light' = [light EXCEPT ![i].until = "over"]
    /\ UNCHANGED <<steady, holo, axis, armed, task, notified, waking>>

MotionRunsOut(i) ==
    /\ holo[i].until = "running" /\ holo' = [holo EXCEPT ![i].until = "over"]
    /\ UNCHANGED <<light, steady, axis, armed, task, notified, waking>>

Arm == armed' = ~armed /\ UNCHANGED <<light, steady, holo, axis, task, notified, waking>>

\* A servo's board stops answering, or answers again; somebody else moves a servo
Fit(i, a) ==
    /\ axis' = [axis EXCEPT ![i][a].fitted = ~@]
    /\ UNCHANGED <<light, steady, holo, armed, task, notified, waking>>
Disturb(i, a, p) ==
    /\ axis[i][a].fitted /\ axis' = [axis EXCEPT ![i][a].at = p, ![i][a].driven = TRUE]
    /\ UNCHANGED <<light, steady, holo, armed, task, notified, waking>>

HoloNext ==
    \/ \E c \in HoloCallers : Wake(c) \/ \E i \in Holos : HoloCommand(c, i)
    \/ Frame \/ Refresh \/ Arm
    \/ \E i \in Holos :
          \/ LightRunsOut(i) \/ MotionRunsOut(i)
          \/ \E a \in Both : Fit(i, a) \/ Disturb(i, a, Reach)

----------------------------------------------------------------------------
(* What is promised. *)

HoloTypeOK ==
    \A i \in Holos :
       /\ light[i] \in [led : Kept \cup Animated, after : Kept \cup Animated, until : Timed, leia : BOOLEAN]
       /\ \A p \in {holo[i].at, holo[i].to, holo[i].home} : p \in [Both -> -Reach .. Reach]
       /\ holo[i].moving => holo[i].motion # "hold" /\ holo[i].frames \in 1 .. Frames
       /\ holo[i].left \in 0 .. holo[i].total

\* holo.c:847, "a chain of timed modes unwinds in one": whatever was timed meanwhile, by the
\* console, a panel or a leia, the light that is not timed is the last one that was to stay.
LightComesBack ==
    \A i \in Holos :
       /\ (IF light[i].until = "none" THEN light[i].led ELSE light[i].after) = steady[i]
       /\ light[i].leia => light[i].led = "flicker" /\ light[i].until # "none"

\* holo.c:315, "then back there": a wag, a nod or a circle that ends by itself has put both axes
\* back where it found them, however near the end of the travel that was.
ReturnsHome ==
    \A i \in Holos : holo[i].ended \in Ends =>
       holo[i].at = holo[i].home /\ holo[i].sent = holo[i].home

\* holo.c:420, "True while it animates": a task that sleeps until it is told has nothing to do,
\* no motion to go on with and no light to change.
AwakeWhileBusy ==
    task = "idle" /\ ~notified /\ waking = {} =>
       \A i \in Holos : holo[i].motion = "hold" /\ ~LedAnimated(light[i])

\* holo.c:82, "twitch and scan with -t: hold from then": a motion whose time is over ends.
Overdue == \E i \in Holos : holo[i].until = "over"
HoldsFromThen == Overdue ~> ~Overdue
=============================================================================
