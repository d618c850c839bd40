------------------------------- MODULE Servo -------------------------------
(***************************************************************************)
(* The servo component: the servos of one PCA9685 board and those on pins  *)
(* of the chip's own, their drive policy, their saved ranges and the       *)
(* report of their outputs (servo/src/Servo.cpp, ServoManager.cpp,         *)
(* PCA9685ServoController.cpp, Esp32PwmServo.cpp, servo_api.cpp), with the *)
(* console's commands (cmd_servo.cpp) and the web server's requests        *)
(* (web_api/web_servo.c).                                                  *)
(*                                                                         *)
(* A call of the API runs under the manager's lock, and so does a frame: the       *)
(* policy's tick, then the board's one write.  What changed is told to the *)
(* listener after the lock, by whichever task ran the frame: the servo     *)
(* task, or the caller of a command that must not wait for it.  The        *)
(* commands that are typed take no lock, and may meet the tick halfway.    *)
(*                                                                         *)
(* Pulses are positions on a small scale; time is what the settling of a   *)
(* servo tells apart: how long ago the last command was, up to settle_ms.  *)
(***************************************************************************)
EXTENDS Integers, FiniteSets

CONSTANTS
    Servos,         \* the idents in use
    Gpio,           \* those on a pin of the chip's own
    AbsMin, AbsMax, \* absMin_, absMax_
    Ranges,         \* the ranges asked for: opMin_, opMax_, invert_
    Policies,       \* the drive policies asked for: Release or not in each zone
    Settle,         \* settle_ms, in ticks of the clock
    Full,           \* a percentage is of this
    MaxEvents,      \* MAX_EVENTS
    ServoCallers,   \* the tasks that call the API
    Typist,         \* the console's, which runs the commands
    ServoServer,    \* the web server's, which runs the requests
    NoServo,        \* no ident
    Absent          \* no such key

ASSUME ServoAssumption ==
    /\ AbsMin \in Nat /\ AbsMax \in Nat /\ AbsMin <= AbsMax /\ Full \in Nat \ {0}
    /\ ServoServer # Typist /\ ServoServer \notin ServoCallers /\ NoServo \notin Servos
    /\ Gpio \subseteq Servos /\ Settle \in Nat /\ MaxEvents \in Nat
    /\ Ranges \subseteq [min : AbsMin .. AbsMax, max : AbsMin .. AbsMax, invert : BOOLEAN]
    /\ \A r \in Ranges : r.min <= r.max
    /\ Policies \subseteq [closed : BOOLEAN, open : BOOLEAN, mid : BOOLEAN]

VARIABLES
    servo,      \* each Servo
    saved,      \* its keys in NVS
    chan,       \* its channel's part of the controller: pulseWidth_, enable_, pwm_, duty_
    dirty,      \* dirty_
    wire,       \* what the chip puts out on the channel
    frame,      \* each task: the update it owes, the events it is to tell, and the servo of a move
                \* that is not done with that
    told,       \* what the listener was told last
    limp,       \* history: the servos driven when the board was reset, or whose pin would not start, or
                \* of which a typed move met the tick or a
                \* call, and not enabled since
    stale,      \* history: the last write to the board failed
    overtaken,  \* history: a task had events of a servo to tell when another took newer ones, or a
                \* typed move met the tick or a call
    mixed       \* history: the servos a save of which failed midway over an older record

servoVars == <<servo, saved, chan, dirty, wire, frame, told, limp, stale, overtaken, mixed>>

FrameTask == "servo"
Board == Servos \ Gpio
ServoTasks == ServoCallers \cup {Typist, ServoServer, FrameTask}
Off == <<"off", 0>>
Default == [min |-> AbsMin, max |-> AbsMax, invert |-> FALSE]
HoldAll == [closed |-> FALSE, open |-> FALSE, mid |-> FALSE]
Centre == (AbsMin + AbsMax) \div 2
NoKeys == [min |-> Absent, max |-> Absent, invert |-> Absent, drive |-> Absent, settle |-> Absent]
NoFrame == [pc |-> "idle", events |-> {}, of |-> NoServo]

\* LoadSettings(): all three keys or none, the policy's two keys or none
Loaded(keys) ==
    LET whole == Absent \notin {keys.min, keys.max} /\ keys.invert # Absent
        fits == AbsMin <= keys.min /\ keys.max <= AbsMax /\ keys.min <= keys.max
    IN  [range |-> IF whole /\ fits THEN [min |-> keys.min, max |-> keys.max, invert |-> keys.invert]
                   ELSE Default,
         calibrated |-> whole /\ fits,
         policy |-> IF keys.drive # Absent /\ keys.settle # Absent THEN keys.drive ELSE HoldAll]

\* A servo is parked at the centre and not driven until it is told to be
Parked(keys) ==
    [value |-> Centre, driven |-> FALSE, released |-> FALSE, hold |-> FALSE, changed |-> FALSE,
     age |-> Settle, range |-> Loaded(keys).range, calibrated |-> Loaded(keys).calibrated,
     policy |-> Loaded(keys).policy]

\* A channel of the board, and a pin as Setup() leaves it: forced low, its pulse at the centre
NoOutput == [pulse |-> Centre, on |-> FALSE, pwm |-> FALSE, duty |-> 0]

Keys(r, p) == [min |-> r.min, max |-> r.max, invert |-> r.invert, drive |-> p, settle |-> Settle]

ServoInit ==
    /\ saved \in [Servos -> {NoKeys} \cup {Keys(r, p) : r \in Ranges, p \in Policies}]
    /\ servo = [s \in Servos |-> Parked(saved[s])]
    /\ chan = [s \in Servos |-> NoOutput] /\ dirty = TRUE
    /\ wire = [s \in Servos |-> Off]
    /\ frame = [t \in ServoTasks |-> NoFrame]
    /\ told = [s \in Servos |-> <<FALSE, FALSE>>]
    /\ limp = {} /\ stale = FALSE /\ overtaken = FALSE /\ mixed = {}

----------------------------------------------------------------------------
(* What a command does to a servo and its channel. *)

\* ApplyEnable() and ApplyValue() both leave the board to be written
Enabled(v) == [v EXCEPT !.driven = TRUE, !.released = FALSE, !.age = 0, !.changed = @ \/ ~v.driven]

\* Mutant: only a driven servo changes by being disabled
DisabledQuietly(v) ==
    [v EXCEPT !.driven = FALSE, !.released = FALSE, !.hold = FALSE, !.changed = @ \/ v.driven]

Disabled(v) ==
    [v EXCEPT !.driven = FALSE, !.released = FALSE, !.hold = FALSE, !.changed = @ \/ v.driven \/ v.released]
Moved(v, to) ==
    [v EXCEPT !.value = to, !.age = 0, !.hold = FALSE, !.driven = TRUE, !.released = FALSE,
              !.changed = @ \/ ~v.driven]

\* MoveToPercentage()
At(v, p) ==
    v.range.min + ((v.range.max - v.range.min) * (IF v.range.invert THEN Full - p ELSE p)) \div Full

Free(t) == frame[t].pc = "idle"

\* servo_move_us() takes any pulse
ClampUs(us) == IF us < AbsMin THEN AbsMin ELSE IF us > AbsMax THEN AbsMax ELSE us

\* What a channel or a pin puts out
Output(c) == IF c.pwm THEN <<"duty", c.duty>> ELSE IF c.on THEN <<"pulse", c.pulse>> ELSE Off

\* A pin may fail to start; a channel's enable is a bit of what the next frame writes
Starts(s) == IF s \in Gpio THEN BOOLEAN ELSE {TRUE}

\* ApplyValue() and ApplyEnable(): a pin's driver is told at once, a board is left to be written
Apply(s, v, c) ==
    /\ servo' = [servo EXCEPT ![s] = v]
    /\ chan' = [chan EXCEPT ![s] = c]
    /\ dirty' = (dirty \/ s \in Board)
    /\ wire' = IF s \in Gpio THEN [wire EXCEPT ![s] = Output(c)] ELSE wire

\* Who asks for the output and does not get it is limp
LimpUnless(s, got) == IF got THEN limp \ {s} ELSE limp \cup {s}

\* Mutant: a servo the policy released stays released
MoveReleased(s, to, ok) ==
    /\ Apply(s, Moved(servo[s], to), [chan[s] EXCEPT !.pulse = to, !.on = @ \/ (~(servo[s].driven \/ servo[s].released) /\ ok)])
    /\ limp' = IF servo[s].driven THEN limp ELSE LimpUnless(s, ok)

\* MoveToValue() enables the output only if the servo is not driven
Move(s, to, ok) ==
    /\ Apply(s, Moved(servo[s], to), [chan[s] EXCEPT !.pulse = to, !.on = @ \/ (~servo[s].driven /\ ok)])
    /\ limp' = IF servo[s].driven THEN limp ELSE LimpUnless(s, ok)

\* servo_move_us(): the next frame sends it
MoveUs(s, us) ==
    /\ \E ok \in Starts(s) : Move(s, ClampUs(us), ok)
    /\ UNCHANGED <<saved, frame, told, stale, overtaken, mixed>>

\* ApplyEnable(), with ApplyValue() of a move; a command that does not wait for the frame runs it
Switch(s, v, on) ==
    /\ \E ok \in Starts(s) :
          LET got == on /\ ((s \in Gpio /\ chan[s].on) \/ ok)
          IN  Apply(s, v, [chan[s] EXCEPT !.pulse = v.value, !.on = got]) /\ limp' = LimpUnless(s, got = on)
    /\ UNCHANGED <<saved, told, stale, overtaken, mixed>>

Command(t, s, v, on) == Free(t) /\ Switch(s, v, on) /\ frame' = [frame EXCEPT ![t].pc = "update"]

SetEnable(t, s, enable) == Command(t, s, IF enable THEN Enabled(servo[s]) ELSE Disabled(servo[s]), enable)
HoldOn(t, s) == Command(t, s, [Enabled(servo[s]) EXCEPT !.hold = TRUE], TRUE)
SetPercentage(t, s, p) == Command(t, s, Moved(Enabled(servo[s]), At(servo[s], p)), TRUE)

\* POST /servos/move: a move, and then, under the lock again, the enable of the same servo
MovePost(t, s) ==
    /\ Free(t)
    /\ \/ \E us \in AbsMin .. AbsMax, ok \in Starts(s) :
            Move(s, us, ok) /\ UNCHANGED <<saved, told, stale, overtaken, mixed>>
            /\ frame' = [frame EXCEPT ![t].pc = "enable", ![t].of = s]
       \/ \E p \in {0, Full} :
            Switch(s, Moved(Enabled(servo[s]), At(servo[s], p)), TRUE)
            /\ frame' = [frame EXCEPT ![t].pc = "update", ![t].of = s]

EnablePost(t) ==
    /\ frame[t].pc = "enable"
    /\ Switch(frame[t].of, Enabled(servo[frame[t].of]), TRUE)
    /\ frame' = [frame EXCEPT ![t] = [NoFrame EXCEPT !.pc = "update"]]

\* `servo_move` and `servo_sweep` enable the servo...
TypeEnable(t, s, what) ==
    /\ Free(t)
    /\ Switch(s, Enabled(servo[s]), TRUE)
    /\ frame' = [frame EXCEPT ![t].pc = what, ![t].of = s]

\* ...and move it, once, with a frame after it...
MoveServo(t) ==
    /\ frame[t].pc = "move"
    /\ \E to \in AbsMin .. AbsMax, ok \in Starts(frame[t].of) : Move(frame[t].of, to, ok)
    /\ frame' = [frame EXCEPT ![t] = [NoFrame EXCEPT !.pc = "update"]]
    /\ UNCHANGED <<saved, told, stale, overtaken, mixed>>

\* ...or to and fro, the last time to the middle, and the servo task sends each
SweepServo(t, p, last) ==
    /\ frame[t].pc = "sweep"
    /\ \E ok \in Starts(frame[t].of) : Move(frame[t].of, At(servo[frame[t].of], p), ok)
    /\ frame' = IF last THEN [frame EXCEPT ![t] = NoFrame] ELSE frame
    /\ UNCHANGED <<saved, told, stale, overtaken, mixed>>

\* Meanwhile the tick may be letting go of that servo, or a request switching it off: each flag is
\* left by whoever wrote it last, the move's, the tick's, or the enable's before the move
MoveMeets(t) ==
    /\ frame[t].pc \in {"move", "sweep"}
    /\ \E moved, driven, released, on, changed \in BOOLEAN :
         \E to \in IF moved THEN AbsMin .. AbsMax ELSE {servo[frame[t].of].value} :
          /\ Apply(frame[t].of,
                   [Moved(servo[frame[t].of], to) EXCEPT !.driven = driven, !.released = released, !.changed = changed],
                   [chan[frame[t].of] EXCEPT !.pulse = to, !.on = on])
          /\ frame' = IF moved /\ frame[t].pc = "move"
                      THEN [frame EXCEPT ![t] = [NoFrame EXCEPT !.pc = "update"]] ELSE frame
    /\ limp' = limp \cup {frame[t].of} /\ overtaken' = TRUE
    /\ UNCHANGED <<saved, told, stale, mixed>>

\* Plain PWM: the channel is claimed and shows its duty, whatever its servo asks for
SetDuty(s, duty) ==
    /\ chan' = [chan EXCEPT ![s].pwm = TRUE, ![s].duty = duty]
    /\ dirty' = (dirty \/ chan' # chan)
    /\ UNCHANGED <<servo, saved, wire, frame, told, limp, stale, overtaken, mixed>>

ReleaseDuty(s) ==
    /\ chan' = [chan EXCEPT ![s].pwm = FALSE, ![s].duty = 0]
    /\ dirty' = TRUE
    /\ UNCHANGED <<servo, saved, wire, frame, told, limp, stale, overtaken, mixed>>

\* servo_reset_controllers(): every channel off; the servos are not told
ResetBoard ==
    /\ chan' = [s \in Servos |-> IF s \in Board THEN [chan[s] EXCEPT !.on = FALSE, !.duty = 0] ELSE chan[s]]
    /\ dirty' = TRUE
    /\ limp' = limp \cup {s \in Board : servo[s].driven}
    /\ UNCHANGED <<servo, saved, wire, frame, told, stale, overtaken, mixed>>

----------------------------------------------------------------------------
(* The frame. *)

\* ZoneOf(), of the commanded value
Zone(v) ==
    LET closed == IF v.range.invert THEN v.range.max ELSE v.range.min
        open == IF v.range.invert THEN v.range.min ELSE v.range.max
    IN  IF ~v.calibrated \/ closed = open THEN "mid"
        ELSE IF (closed < open /\ v.value <= closed) \/ (closed > open /\ v.value >= closed) THEN "closed"
        ELSE IF (closed < open /\ v.value >= open) \/ (closed > open /\ v.value <= open) THEN "open"
        ELSE "mid"

\* Tick(): the policy releases a servo that has settled
Releases(v) == v.driven /\ ~v.hold /\ v.policy[Zone(v)] /\ v.age = Settle
Ticked(v) ==
    IF Releases(v) THEN [v EXCEPT !.driven = FALSE, !.released = TRUE, !.changed = TRUE] ELSE v
TickedOutput(s) == [chan[s] EXCEPT !.on = @ /\ ~Releases(servo[s])]

\* Where a frame leaves its task
Then(f) == IF f.of = NoServo THEN "idle" ELSE "enable"

\* ServoManager::Update(): every servo's tick, then the write, if the board is dirty
Update(t) ==
    LET after == [s \in Servos |-> Ticked(servo[s])]
        out == [s \in Servos |-> TickedOutput(s)]
        writes == dirty \/ \E s \in Board : Releases(servo[s])
        changes == {s \in Servos : after[s].changed}
    IN  /\ frame[t].pc = "update" \/ (t = FrameTask /\ Free(t))
        /\ \E E \in SUBSET changes, ok \in BOOLEAN :
              /\ Cardinality(E) = IF Cardinality(changes) > MaxEvents THEN MaxEvents ELSE Cardinality(changes)
              /\ frame' = [frame EXCEPT ![t] =
                             [pc |-> IF E = {} THEN Then(@) ELSE "tell", of |-> @.of,
                              events |-> {[of |-> s, out |-> <<after[s].driven, after[s].released>>] : s \in E}]]
              /\ servo' = [s \in Servos |-> [after[s] EXCEPT !.changed = FALSE]]
              /\ chan' = out /\ dirty' = FALSE
              /\ wire' = [s \in Servos |-> IF s \in Gpio \/ (writes /\ ok) THEN Output(out[s]) ELSE wire[s]]
              /\ stale' = IF writes THEN ~ok ELSE stale
              /\ overtaken' = (overtaken \/ E # changes \/ \E u \in ServoTasks \ {t} : \E e \in frame[u].events : e.of \in E)
              /\ UNCHANGED <<saved, told, limp, mixed>>

\* The listener, with the lock let go
Tell(t) ==
    /\ frame[t].pc = "tell"
    /\ \E e \in frame[t].events :
          /\ told' = [told EXCEPT ![e.of] = e.out]
          /\ frame' = [frame EXCEPT ![t].pc = IF frame[t].events = {e} THEN Then(frame[t]) ELSE "tell",
                                    ![t].events = @ \ {e}]
    /\ UNCHANGED <<servo, saved, chan, dirty, wire, limp, stale, overtaken, mixed>>

Elapse ==
    /\ \E s \in Servos : servo[s].age < Settle
    /\ servo' = [s \in Servos |-> [servo[s] EXCEPT !.age = IF @ < Settle THEN @ + 1 ELSE @]]
    /\ UNCHANGED <<saved, chan, dirty, wire, frame, told, limp, stale, overtaken, mixed>>

----------------------------------------------------------------------------
(* The saved range and policy; a write of NVS may fail after k keys of it. *)

HasRange(keys) == keys.min # Absent \/ keys.max # Absent \/ keys.invert # Absent
WrittenRange(keys, r, k) ==
    [keys EXCEPT !.min = IF k > 0 THEN r.min ELSE @, !.max = IF k > 1 THEN r.max ELSE @,
                 !.invert = IF k > 2 THEN r.invert ELSE @]

\* SetOpLimits(); k = 4 when the commit is done too
SetOpLimits(s, r, k) ==
    /\ saved' = [saved EXCEPT ![s] = WrittenRange(@, r, k)]
    /\ servo' = IF k = 4 THEN [servo EXCEPT ![s].range = r, ![s].calibrated = TRUE] ELSE servo
    /\ mixed' = IF k = 4 THEN mixed \ {s}
                ELSE IF k \in {1, 2} /\ HasRange(saved[s]) THEN mixed \cup {s} ELSE mixed
    /\ UNCHANGED <<chan, dirty, wire, frame, told, limp, stale, overtaken>>

\* ClearOpLimits(): the policy goes with the calibration
ClearOpLimits(s, k) ==
    /\ saved' = [saved EXCEPT ![s] =
                   [min |-> IF k > 0 THEN Absent ELSE @.min, max |-> IF k > 1 THEN Absent ELSE @.max,
                    invert |-> IF k > 2 THEN Absent ELSE @.invert, drive |-> IF k > 3 THEN Absent ELSE @.drive,
                    settle |-> IF k > 4 THEN Absent ELSE @.settle]]
    /\ servo' = IF k = 6 THEN [servo EXCEPT ![s].range = Default, ![s].calibrated = FALSE,
                                            ![s].policy = HoldAll] ELSE servo
    /\ mixed' = IF k = 6 THEN mixed \ {s} ELSE mixed
    /\ UNCHANGED <<chan, dirty, wire, frame, told, limp, stale, overtaken>>

SetDrivePolicy(s, p, k) ==
    /\ saved' = [saved EXCEPT ![s].drive = IF k > 0 THEN p ELSE @, ![s].settle = IF k > 1 THEN Settle ELSE @]
    /\ servo' = IF k = 3 THEN [servo EXCEPT ![s].policy = p] ELSE servo
    /\ UNCHANGED <<chan, dirty, wire, frame, told, limp, stale, overtaken, mixed>>

\* The device restarts, and attaches its servos again; a board keeps what it was last sent
Reboot ==
    /\ servo' = [s \in Servos |-> Parked(saved[s])]
    /\ chan' = [s \in Servos |-> NoOutput] /\ dirty' = TRUE
    /\ frame' = [t \in ServoTasks |-> NoFrame]
    /\ told' = [s \in Servos |-> <<FALSE, FALSE>>]
    /\ wire' = [s \in Servos |-> IF s \in Gpio THEN Off ELSE wire[s]]
    /\ limp' = {} /\ overtaken' = FALSE
    /\ UNCHANGED <<saved, stale, mixed>>

----------------------------------------------------------------------------

Caller(t, s) ==
    \/ \E enable \in BOOLEAN : SetEnable(t, s, enable)
    \/ HoldOn(t, s)
    \/ \E p \in {0, Full} : SetPercentage(t, s, p)

\* What is typed: `servo_off` does as the API
TypedOn(t, s) == TypeEnable(t, s, "move") \/ TypeEnable(t, s, "sweep") \/ SetEnable(t, s, FALSE)
TypedMoves(t) ==
    \/ MoveServo(t) \/ MoveMeets(t)
    \/ \E p \in 0 .. Full : SweepServo(t, p, FALSE)
    \/ SweepServo(t, Full \div 2, TRUE)

\* POST /servos/release
ReleasePost(t, s) == SetEnable(t, s, FALSE)

\* Commands to some of the servos, frames and time
Drive(S) ==
    \/ \E s \in S :
          \/ \E t \in ServoCallers : Caller(t, s)
          \/ TypedOn(Typist, s)
          \/ MovePost(ServoServer, s) \/ ReleasePost(ServoServer, s)
          \/ \E us \in AbsMin - 1 .. AbsMax + 1 : MoveUs(s, us)
          \/ s \in Board /\ (SetDuty(s, 1) \/ ReleaseDuty(s))
    \/ TypedMoves(Typist) \/ EnablePost(ServoServer)
    \/ \E t \in ServoTasks : Update(t) \/ Tell(t)
    \/ ResetBoard \/ Elapse

\* `servo_config`, and the requests' PUT and DELETE /servos/calibration, PUT /servos/policy
ConfigServo(s) == \E r \in Ranges, k \in 0 .. 4 : SetOpLimits(s, r, k)
CalibrationPut(s) == \E r \in Ranges, k \in 0 .. 4 : r.min < r.max /\ SetOpLimits(s, r, k)
CalibrationDelete(s) == \E k \in 0 .. 6 : ClearOpLimits(s, k)
PolicyPut(s) == \E p \in Policies, k \in 0 .. 3 : SetDrivePolicy(s, p, k)

Calibrate(S) ==
    \E s \in S :
       ConfigServo(s) \/ CalibrationPut(s) \/ CalibrationDelete(s) \/ PolicyPut(s)

ServoNext == Drive(Servos) \/ Calibrate(Servos) \/ Reboot

----------------------------------------------------------------------------
(* What is promised. *)

ServoTypeOK ==
    \A s \in Servos :
       /\ servo[s].value \in AbsMin .. AbsMax /\ servo[s].age \in 0 .. Settle
       /\ (servo[s].driven /\ servo[s].released => s \in limp) /\ (servo[s].hold => servo[s].driven)
       /\ chan[s].pulse = servo[s].value
       /\ chan[s] \in [pulse : AbsMin .. AbsMax, on : BOOLEAN, pwm : BOOLEAN, duty : {0, 1}]
       /\ servo[s].driven => chan[s].on \/ s \in limp

Settled == dirty = FALSE /\ (\A t \in ServoTasks : Free(t)) /\ \A s \in Servos : ~servo[s].changed

\* PCA9685ServoController.cpp:153, "a change that lands while this runs is never lost": once a
\* frame has gone out, each channel puts out its servo's last command while the servo says it is
\* driven, and nothing otherwise, whatever the policy released meanwhile; but for a write that
\* failed, and for a servo the board was reset under.  A pin does so at every moment, unless its
\* timer would not start.
WireFollows ==
    \A s \in Servos \ limp : s \in Gpio \/ (Settled /\ ~stale) =>
        wire[s] = IF chan[s].pwm THEN <<"duty", chan[s].duty>>
                  ELSE IF servo[s].driven THEN <<"pulse", servo[s].value>> ELSE Off

\* The listener's last word on each servo is what it is (ServoManager.cpp:78), although two tasks
\* tell with the lock let go; but for a task that was overtaken, or more changes than MAX_EVENTS.
ListenerIsCurrent ==
    Settled /\ ~overtaken => \A s \in Servos : told[s] = <<servo[s].driven, servo[s].released>>

\* Servo.cpp:75, "all three or nothing": whatever saves and clears failed midway, a servo works in
\* a range that was asked for or in its default; but for a save that failed over an older record.
RangeIsWhole == \A s \in Servos \ mixed : servo[s].range \in Ranges \cup {Default}
=============================================================================
