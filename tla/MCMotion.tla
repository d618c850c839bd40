------------------------------ MODULE MCMotion ------------------------------
(* The servos, the bus their board is on, and the holoprojectors, each on its own. *)
EXTENDS Servo, Holo, I2cBusGuard, TLC

VARIABLE part   \* what runs: a board's servo, a pin's, their calibration, the bus, a holo's motion,
                \* its light

vars == <<part, servoVars, holoVars, i2cVars>>

Init ==
    /\ part \in {"board", "pin", "range", "bus", "motion", "light"}
    /\ ServoInit /\ HoloInit /\ I2cInit
    /\ \A s \in Servos : saved[s] = NoKeys \/ (part = "board" /\ s \in Board)
                          \/ (part = "pin" /\ s \in Gpio) \/ (part = "range" /\ s \in Board)

Next ==
    /\ UNCHANGED part
    /\ \/ part = "board" /\ (Drive(Board) \/ Reboot) /\ UNCHANGED <<holoVars, i2cVars>>
       \/ part = "pin" /\ (Drive(Gpio) \/ Reboot) /\ UNCHANGED <<holoVars, i2cVars>>
       \/ part = "range" /\ (Calibrate(Board) \/ Reboot) /\ UNCHANGED <<holoVars, i2cVars>>
       \/ part \in {"motion", "light"} /\ HoloNext /\ UNCHANGED <<servoVars, i2cVars>>
       \/ part = "bus" /\ I2cNext /\ UNCHANGED <<servoVars, holoVars>>

Spec == Init /\ [][Next]_vars

TypeOK == ServoTypeOK /\ RangeIsWhole /\ HoloTypeOK /\ I2cTypeOK

\* The range asked for, and the same turned round further on
AskedRanges == {[min |-> 1, max |-> 2, invert |-> FALSE], [min |-> 2, max |-> 3, invert |-> TRUE]}
Released == {[closed |-> TRUE, open |-> FALSE, mid |-> FALSE]}
Corner == {[h |-> 1, v |-> -1]}

\* What a holo may be short of at once: its arming, an axis's calibration, an axis
Faults(i) == (IF armed THEN 0 ELSE 1) + Cardinality({a \in Both : ~axis[i][a].calibrated})
                                     + Cardinality({a \in Both : ~axis[i][a].fitted})

\* Servos up to the first event told out of turn and the first typed move that met the tick;
\* commands of two steps with no channel of plain PWM and no write that failed.  A light over moves
\* only, with nothing wrong; motions with the light off and one fault at a time, of either axis's
\* own kind.
Explored ==
    /\ ~overtaken
    /\ stale \/ (\E s \in Servos : chan[s].pwm) => \A t \in ServoTasks : frame[t].of = NoServo
    /\ \A i \in Holos :
          /\ axis[i]["h"].driven = axis[i]["v"].driven
          /\ part = "light" => Faults(i) = 0 /\ holo[i].motion \in {"hold", "move"}
          /\ part = "motion" =>
                /\ Faults(i) <= 1 /\ axis[i]["h"].fitted /\ axis[i]["v"].calibrated
                /\ light[i].led = "off" /\ light[i].until = "none"

\* The task runs its frames
ScanSpec == Init /\ part = "motion" /\ [][Next]_vars /\ WF_vars(Frame /\ UNCHANGED <<part, servoVars, i2cVars>>)
=============================================================================
