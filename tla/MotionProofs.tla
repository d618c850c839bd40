---------------------------- MODULE MotionProofs ----------------------------
(***************************************************************************)
(* The holoprojectors and the servos, for any of them, any travel, any     *)
(* tasks and any policy: the theorems are of MCMotion's specification,     *)
(* whose parts share no variable.                                          *)
(***************************************************************************)
EXTENDS MCMotion, I2cBusGuardProofs

----------------------------------------------------------------------------
(* A holo's motion. *)

Points == [Both -> -Reach .. Reach]
Motions == {"hold", "move", "twitch", "scan", "wag", "nod", "circle"}

MotionRecord ==
    [motion : Motions, moving : BOOLEAN, at : Points, to : Points, frames : 0 .. Frames, until : Timed,
     total : Nat, left : Nat, home : Points, step : {0, 1}, sent : [Both -> Int],
     stopped : {"no", "not armed", "refused"}, ended : Motions \cup {"none"}]

\* A wag stays at the height it found, a nod straight above and below
OneAxis(m) ==
    /\ m.motion = "wag" => m.at["v"] = m.home["v"]
    /\ m.motion = "nod" => m.at["h"] = m.home["h"]

\* ...and so does the leg it is on; the last leg is home
Leg(m) ==
    /\ m.motion = "wag" => m.to["v"] = m.home["v"]
    /\ m.motion = "nod" => m.to["h"] = m.home["h"]
    /\ m.left = 0 => m.to = m.home

HomeAgain(m) == m.at = m.home /\ m.sent = m.home

\* A motion that ends by itself is always on a leg, and one that has ended is over
MotionOK(m) ==
    /\ m \in MotionRecord /\ m.left <= m.total
    /\ m.moving => m.motion # "hold" /\ m.frames \in 1 .. Frames
    /\ OneAxis(m)
    /\ m.motion \in Ends => m.moving /\ Leg(m)
    /\ m.ended # "none" => m.motion = "hold"
    /\ m.ended \in Ends => HomeAgain(m)

LEMMA Fields ==
  ASSUME NEW m \in MotionRecord
  PROVE  /\ m.motion \in Motions /\ m.moving \in BOOLEAN /\ m.at \in Points /\ m.to \in Points
         /\ m.frames \in 0 .. Frames /\ m.until \in Timed /\ m.total \in Nat /\ m.left \in Nat
         /\ m.home \in Points /\ m.step \in {0, 1} /\ m.sent \in [Both -> Int]
         /\ m.ended \in Motions \cup {"none"}
  BY DEF MotionRecord

LEMMA ClampIn ==
  ASSUME NEW p \in [Both -> Int]
  PROVE  /\ Clamp(p) \in Points
         /\ \A a \in Both : p[a] \in -Reach .. Reach => Clamp(p)[a] = p[a]
         /\ p \in Points => Clamp(p) = p
<1>1. Reach \in Nat
  BY HoloAssumption
<1>2. Clamp(p) \in Points
  BY <1>1 DEF Clamp, Points, Both
<1>3. \A a \in Both : p[a] \in -Reach .. Reach => Clamp(p)[a] = p[a]
  BY <1>1 DEF Clamp, Both
<1>4. p \in Points => Clamp(p) = p
  <2> SUFFICES ASSUME p \in Points PROVE Clamp(p) = p
    OBVIOUS
  <2>1. \A a \in Both : Clamp(p)[a] = p[a]
    BY <1>3 DEF Points
  <2> QED
    BY <1>2, <2>1 DEF Points
<1> QED
  BY <1>2, <1>3, <1>4

LEMMA PointsAreInts == Points \subseteq [Both -> Int] /\ Middle \in Points /\ Targets \subseteq Points
  BY HoloAssumption DEF Points, Both, Middle

LEMMA PlusInts == \A p, q \in [Both -> Int] : Plus(p, q) \in [Both -> Int]
  BY DEF Plus, Both

\* A frame's share of the way that is left is no more than that
LEMMA ShareWithin ==
  ASSUME NEW d \in Int, NEW f \in Nat \ {0}
  PROVE  /\ d \div f \in Int
         /\ d >= 0 => 0 <= d \div f /\ d \div f <= d
         /\ d <= 0 => d <= d \div f /\ d \div f <= 0
         /\ f = 1 => d \div f = d
<1> DEFINE q == d \div f
           r == d % f
<1>1. q \in Int /\ r \in 0 .. f - 1 /\ d = f * q + r
  BY SMT
<1> HIDE DEF q, r
<1>2. d >= 0 => 0 <= q /\ q <= d
  <2>1. ASSUME d >= 0, q <= -1 PROVE FALSE
    <3>1. f * q <= f * (-1) /\ f * (-1) = -f /\ f * q \in Int
      BY <1>1, <2>1
    <3> QED
      BY <1>1, <2>1, <3>1
  <2>2. ASSUME q >= 0 PROVE q <= d
    <3>1. f * q >= 1 * q /\ f * q \in Int
      BY <1>1, <2>2
    <3> QED
      BY <1>1, <3>1
  <2> QED
    BY <1>1, <2>1, <2>2
<1>3. d <= 0 => d <= q /\ q <= 0
  <2>1. ASSUME d <= 0, q >= 1 PROVE FALSE
    <3>1. f * q >= f * 1 /\ f * 1 = f /\ f * q \in Int
      BY <1>1, <2>1
    <3> QED
      BY <1>1, <2>1, <3>1
  <2>2. ASSUME d <= 0, q <= d - 1 PROVE FALSE
    <3>1. f * q <= f * (d - 1) /\ f * (d - 1) = f * d - f /\ f * d <= 1 * d /\ f * q \in Int /\ f * d \in Int
      BY <1>1, <2>2
    <3> QED
      BY <1>1, <2>2, <3>1
  <2> QED
    BY <1>1, <2>1, <2>2
<1>4. f = 1 => q = d
  <2>1. f = 1 => r = 0 /\ f * q = q
    BY <1>1
  <2> QED
    BY <1>1, <2>1
<1> QED
  BY <1>1, <1>2, <1>3, <1>4 DEF q

LEMMA SteppedIn ==
  ASSUME NEW m \in MotionRecord, m.frames # 0
  PROVE  /\ Stepped(m) \in Points
         /\ \A a \in Both : m.at[a] = m.to[a] => Stepped(m)[a] = m.at[a]
         /\ m.frames = 1 => Stepped(m) = m.to
<1>1. /\ Reach \in Nat /\ m.frames \in Nat \ {0} /\ DOMAIN m.to = Both /\ m.to = [a \in Both |-> m.to[a]]
      /\ \A a \in Both : m.at[a] \in -Reach .. Reach /\ m.to[a] \in -Reach .. Reach
  <2>1. m.at \in Points /\ m.to \in Points /\ m.frames \in 0 .. Frames
    BY DEF MotionRecord
  <2> QED
    BY <2>1, HoloAssumption DEF Points
<1>2. ASSUME NEW a \in Both
      PROVE  /\ Stepped(m)[a] \in -Reach .. Reach
             /\ m.at[a] = m.to[a] => Stepped(m)[a] = m.at[a]
             /\ m.frames = 1 => Stepped(m)[a] = m.to[a]
  <2> DEFINE x == m.at[a]
             y == m.to[a]
             f == m.frames
             s == (y - x) \div f
  <2>1. x \in -Reach .. Reach /\ y \in -Reach .. Reach /\ f \in Nat \ {0} /\ y - x \in Int /\ Stepped(m)[a] = x + s
    BY <1>1, <1>2 DEF Stepped
  <2>2. /\ s \in Int
        /\ y - x >= 0 => 0 <= s /\ s <= y - x
        /\ y - x <= 0 => y - x <= s /\ s <= 0
        /\ f = 1 => s = y - x
    BY <2>1, ShareWithin
  <2> HIDE DEF s, f
  <2>3. x + s \in -Reach .. Reach /\ (x = y => x + s = x) /\ (f = 1 => x + s = y)
    BY <1>1, <2>1, <2>2
  <2> QED
    BY <2>1, <2>3 DEF f
<1>3. Stepped(m) \in Points
  BY <1>2 DEF Stepped, Points
<1>4. m.frames = 1 => Stepped(m) = m.to
  BY <1>1, <1>2 DEF Stepped
<1> QED
  BY <1>2, <1>3, <1>4

LEMMA SegmentFields ==
  ASSUME NEW m \in MotionRecord, NEW p \in [Both -> Int]
  PROVE  /\ Segment(m, p) \in MotionRecord
         /\ Segment(m, p).moving /\ Segment(m, p).to = Clamp(p) /\ Segment(m, p).frames \in 1 .. Frames
         /\ Segment(m, p).motion = m.motion /\ Segment(m, p).at = m.at /\ Segment(m, p).home = m.home
         /\ Segment(m, p).left = m.left /\ Segment(m, p).total = m.total /\ Segment(m, p).ended = m.ended
         /\ Segment(m, p).sent = m.sent
<1>1. Clamp(p) \in Points /\ Frames \in 0 .. Frames /\ Frames \in 1 .. Frames
  BY ClampIn, HoloAssumption
<1> QED
  BY <1>1 DEF Segment, MotionRecord

\* Where the legs of a wag, a nod and a circle go
LEMMA SwingLeg ==
  ASSUME NEW m \in MotionRecord, m.motion \in {"wag", "nod"}, OneAxis(m), NEW k \in Int, NEW left \in Nat
  PROVE  /\ SwingTo(m, k, left) \in [Both -> Int]
         /\ m.motion = "wag" => Clamp(SwingTo(m, k, left))["v"] = m.home["v"]
         /\ m.motion = "nod" => Clamp(SwingTo(m, k, left))["h"] = m.home["h"]
         /\ left = 0 => Clamp(SwingTo(m, k, left)) = m.home
<1> DEFINE a == IF m.motion = "wag" THEN "h" ELSE "v"
           b == IF m.motion = "wag" THEN "v" ELSE "h"
           off == IF left = 0 THEN 0 ELSE IF k % 2 = 1 THEN -Swing ELSE Swing
           s == SwingTo(m, k, left)
<1>1. /\ a \in Both /\ b \in Both /\ a # b /\ Both = {a, b} /\ off \in Int /\ m.at \in Points /\ m.home \in Points
      /\ m.at[b] = m.home[b] /\ m.home[a] \in Int /\ m.home[a] \in -Reach .. Reach /\ m.home[b] \in -Reach .. Reach
  <2>1. m.at \in Points /\ m.home \in Points /\ Reach \in Nat /\ Swing \in Int /\ -Swing \in Int
    BY Fields, HoloAssumption
  <2>2. a \in Both /\ b \in Both /\ a # b /\ Both = {a, b}
    BY DEF Both
  <2>3. m.at[b] = m.home[b]
    BY DEF OneAxis
  <2>4. m.home[a] \in -Reach .. Reach /\ m.home[b] \in -Reach .. Reach /\ m.home[a] \in Int
    BY <2>1, <2>2 DEF Points
  <2>5. off \in Int
    BY <2>1
  <2> HIDE DEF a, b, off
  <2> QED
    BY <2>1, <2>2, <2>3, <2>4, <2>5
<1>2. s = [m.at EXCEPT ![a] = m.home[a] + off]
  BY DEF SwingTo
<1> HIDE DEF a, b, off, s
<1>3. /\ s \in [Both -> Int] /\ s[b] = m.home[b] /\ s[a] = m.home[a] + off
  BY <1>1, <1>2, PointsAreInts
<1>4. Clamp(s)[b] = m.home[b]
  BY <1>1, <1>3, ClampIn
<1>5. ASSUME left = 0
      PROVE  Clamp(s) = m.home
  <2>1. s[a] = m.home[a]
    BY <1>1, <1>3, <1>5 DEF off
  <2>2. \A c \in Both : s[c] = m.home[c]
    BY <1>1, <1>3, <2>1
  <2>3. s = m.home
    BY <1>1, <1>3, <2>2 DEF Points
  <2> QED
    BY <1>1, <1>3, <2>3, ClampIn
<1> QED
  BY <1>3, <1>4, <1>5 DEF s, b

LEMMA CircleLeg ==
  ASSUME NEW m \in MotionRecord, NEW k \in Int, NEW left \in Nat
  PROVE  CircleTo(m, k, left) \in [Both -> Int] /\ (left = 0 => Clamp(CircleTo(m, k, left)) = m.home)
<1>1. m.home \in Points /\ m.home \in [Both -> Int]
  BY PointsAreInts DEF MotionRecord
<1>2. \A j \in 1 .. 4 : Rim[j] \in [Both -> Int]
  <2>1. Swing \in Int /\ -Swing \in Int
    BY HoloAssumption
  <2> QED
    BY <2>1 DEF Rim, Both
<1>3. (k - 1) % CircleSteps \in 0 .. 3 /\ CircleSteps = 4
  BY DEF CircleSteps
<1>4. 1 + ((k - 1) % CircleSteps) \in 1 .. 4 /\ CircleSteps \in 1 .. 4
  BY <1>3
<1>5. CircleTo(m, k, left) \in [Both -> Int]
  BY <1>1, <1>2, <1>4, PlusInts DEF CircleTo
<1>6. left = 0 => Clamp(CircleTo(m, k, left)) = m.home
  BY <1>1, ClampIn DEF CircleTo
<1> QED
  BY <1>5, <1>6

\* A leg is over, or a motion begins
LEMMA NextSegmentOK ==
  ASSUME NEW m \in MotionRecord, m.left <= m.total, ~m.moving, m.ended = "none", OneAxis(m),
         m.motion \in Ends /\ m.left = 0 => HomeAgain(m)
  PROVE  MotionOK(NextSegment(m))
<1> DEFINE k == m.total - m.left
           left == m.left - 1
<1>1. /\ m.motion \in Motions /\ m.left \in Nat /\ m.total \in Nat /\ k \in Int /\ m.at \in Points
      /\ m.step \in {0, 1} /\ ((m.left <= 0) <=> (m.left = 0))
  <2>1. m.motion \in Motions /\ m.left \in Nat /\ m.total \in Nat /\ m.at \in Points /\ m.step \in {0, 1}
    BY Fields
  <2> QED
    BY <2>1
<1>2. CASE m.motion \in {"hold", "move"} \/ (m.motion \in Ends /\ m.left = 0)
  <2>1. NextSegment(m) = Ended(m)
    BY <1>1, <1>2 DEF NextSegment, Ends
  <2>2. /\ Ended(m) \in MotionRecord /\ Ended(m).motion = "hold" /\ Ended(m).ended = m.motion
        /\ Ended(m).left = m.left /\ Ended(m).total = m.total /\ Ended(m).moving = FALSE
        /\ Ended(m).at = m.at /\ Ended(m).home = m.home /\ Ended(m).sent = m.sent
    BY <1>1 DEF Ended, MotionRecord, Motions
  <2> QED
    BY <1>2, <2>1, <2>2 DEF MotionOK, OneAxis, Ends, HomeAgain
<1>3. CASE m.motion = "twitch"
  <2>1. NextSegment(m) = m
    BY <1>3 DEF NextSegment, Ends
  <2> QED
    BY <1>3, <2>1 DEF MotionOK, OneAxis, Ends
<1>4. CASE m.motion = "scan"
  <2> DEFINE p == [m.at EXCEPT !["h"] = IF m.step = 1 THEN -Swing ELSE Swing]
             n == Segment(m, p)
  <2>1. NextSegment(m) = [n EXCEPT !.step = 1 - @]
    BY <1>4 DEF NextSegment, Ends
  <2>2. p \in [Both -> Int]
    <3>1. Swing \in Int /\ -Swing \in Int /\ m.at \in [Both -> Int] /\ "h" \in Both
      BY <1>1, HoloAssumption, PointsAreInts DEF Both
    <3> QED
      BY <3>1
  <2>3. /\ n \in MotionRecord /\ n.motion = "scan" /\ n.left = m.left /\ n.total = m.total /\ n.ended = "none"
        /\ n.frames \in 1 .. Frames
    BY <1>4, <2>2, SegmentFields
  <2> HIDE DEF n, p
  <2>4. 1 - n.step \in {0, 1}
    <3>1. n.step \in {0, 1}
      BY <2>3, Fields
    <3> QED
      BY <3>1
  <2> QED
    BY <2>1, <2>3, <2>4 DEF MotionOK, MotionRecord, OneAxis, Ends
<1>5. ASSUME m.motion \in Ends, m.left > 0, NEW p \in [Both -> Int],
             NextSegment(m) = [Segment(m, p) EXCEPT !.left = left],
             m.motion = "wag" => Clamp(p)["v"] = m.home["v"],
             m.motion = "nod" => Clamp(p)["h"] = m.home["h"],
             left = 0 => Clamp(p) = m.home
      PROVE  MotionOK(NextSegment(m))
  <2> DEFINE n == Segment(m, p)
             o == [n EXCEPT !.left = left]
  <2>1. /\ n \in MotionRecord /\ n.moving /\ n.to = Clamp(p) /\ n.frames \in 1 .. Frames
        /\ n.motion = m.motion /\ n.at = m.at /\ n.home = m.home
        /\ n.total = m.total /\ n.ended = "none" /\ left \in Nat /\ left <= m.total
    BY <1>1, <1>5, SegmentFields
  <2> HIDE DEF n, left
  <2>2. /\ o \in MotionRecord /\ o.moving /\ o.to = Clamp(p) /\ o.frames \in 1 .. Frames
        /\ o.motion = m.motion /\ o.at = m.at /\ o.home = m.home
        /\ o.total = m.total /\ o.ended = "none" /\ o.left = left
    BY <2>1 DEF MotionRecord
  <2>3. NextSegment(m) = o
    BY <1>5 DEF n
  <2> HIDE DEF o
  <2> QED
    BY <1>5, <2>1, <2>2, <2>3 DEF MotionOK, OneAxis, Ends, Leg
<1>6. CASE m.motion \in {"wag", "nod"} /\ m.left > 0
  <2>1. left \in Nat /\ m.motion \in Ends
    BY <1>1, <1>6 DEF Ends
  <2>2. NextSegment(m) = [Segment(m, SwingTo(m, k, left)) EXCEPT !.left = left]
    BY <1>1, <1>6 DEF NextSegment, Ends
  <2> HIDE DEF k, left
  <2> QED
    BY <1>1, <1>5, <1>6, <2>1, <2>2, SwingLeg DEF left
<1>7. CASE m.motion = "circle" /\ m.left > 0
  <2>1. left \in Nat /\ m.motion \in Ends
    BY <1>1, <1>7 DEF Ends
  <2>2. NextSegment(m) = [Segment(m, CircleTo(m, k, left)) EXCEPT !.left = left]
    BY <1>1, <1>7 DEF NextSegment, Ends
  <2> HIDE DEF k, left
  <2> QED
    BY <1>1, <1>5, <1>7, <2>1, <2>2, CircleLeg DEF left
<1> QED
  BY <1>1, <1>2, <1>3, <1>4, <1>6, <1>7 DEF Motions, Ends

LEMMA StoppedOK ==
  ASSUME NEW m \in MotionRecord, m.left <= m.total, m.ended \in Ends => HomeAgain(m),
         NEW why \in {"no", "not armed", "refused"}
  PROVE  MotionOK(StoppedBy(m, why))
<1> DEFINE n == StoppedBy(m, why)
<1>1. /\ n \in MotionRecord /\ n.motion = "hold" /\ n.moving = FALSE /\ n.left = m.left /\ n.total = m.total
      /\ n.ended = m.ended /\ n.at = m.at /\ n.home = m.home /\ n.sent = m.sent
  BY DEF StoppedBy, MotionRecord, Motions, Timed
<1> HIDE DEF n
<1>2. MotionOK(n)
  BY <1>1 DEF MotionOK, OneAxis, Ends, HomeAgain
<1> QED
  BY <1>2 DEF n

----------------------------------------------------------------------------
(* The holos' invariant. *)

LightRecord == [led : Kept \cup Animated, after : Kept \cup Animated, until : Timed, leia : BOOLEAN]
AxisRecord == [fitted : BOOLEAN, calibrated : BOOLEAN, placed : BOOLEAN, at : -Reach .. Reach, driven : BOOLEAN]

LightsOK == light \in [Holos -> LightRecord] /\ steady \in [Holos -> Kept \cup Animated]
AxesOK == axis \in [Holos -> [Both -> AxisRecord]] /\ armed \in BOOLEAN
HolosOK == holo \in [Holos -> MotionRecord] /\ \A i \in Holos : MotionOK(holo[i])

HoloIInv == LightsOK /\ AxesOK /\ HolosOK /\ LightComesBack /\ AwakeWhileBusy

\* A motion begins where the holo is
LEMMA BegunFields ==
  ASSUME HoloIInv, NEW i \in Holos, NEW motion \in Motions, NEW until \in Timed, NEW total \in Nat,
         NEW n, n = Begun(i, motion, until, total)
  PROVE  /\ n \in MotionRecord /\ n.motion = motion /\ ~n.moving /\ n.at = n.home
         /\ n.left = total /\ n.total = total /\ n.ended = "none" /\ OneAxis(n)
<1>1. holo[i] \in MotionRecord /\ axis[i] \in [Both -> AxisRecord]
  BY DEF HoloIInv, HolosOK, AxesOK
<1>2. Located(i) \in Points
  <2>1. \A a \in Both : axis[i][a].at \in -Reach .. Reach /\ 0 \in -Reach .. Reach
    BY <1>1, HoloAssumption DEF AxisRecord
  <2> QED
    BY <2>1 DEF Located, Points
<1>3. [a \in Both |-> Never] \in [Both -> Int]
  BY HoloAssumption DEF Never
<1>4. /\ n \in MotionRecord /\ n.motion = motion /\ ~n.moving /\ n.at = n.home /\ n.left = total
      /\ n.total = total /\ n.ended = "none"
  BY <1>1, <1>2, <1>3 DEF Begun, MotionRecord
<1>5. OneAxis(n)
  BY <1>4 DEF OneAxis
<1> QED
  BY <1>4, <1>5

\* What start_motion() begins is a motion in order
LEMMA MovesOK ==
  ASSUME HoloIInv, NEW i \in Holos, NEW p \in [Both -> Int]
  PROVE  MotionOK(Segment(Begun(i, "move", "none", 0), p))
<1> DEFINE b == Begun(i, "move", "none", 0)
           n == Segment(b, p)
<1>1. /\ b \in MotionRecord /\ b.motion = "move" /\ b.left = 0 /\ b.total = 0 /\ b.ended = "none"
  <2>1. "move" \in Motions /\ "none" \in Timed /\ 0 \in Nat
    BY DEF Motions, Timed
  <2>2. b = Begun(i, "move", "none", 0)
    OBVIOUS
  <2> HIDE DEF b
  <2> QED
    BY <2>1, <2>2, BegunFields
<1> HIDE DEF b
<1>2. /\ n \in MotionRecord /\ n.frames \in 1 .. Frames /\ n.motion = "move" /\ n.left = 0 /\ n.total = 0
      /\ n.ended = "none"
  BY <1>1, SegmentFields
<1> HIDE DEF n
<1>3. MotionOK(n)
  BY <1>2 DEF MotionOK, OneAxis, Ends
<1> QED
  BY <1>3 DEF n, b

LEMMA BeginsOK ==
  ASSUME HoloIInv, NEW i \in Holos, NEW motion \in Motions, NEW until \in Timed, NEW total \in Nat,
         motion \in Ends => total > 0
  PROVE  /\ MotionOK(NextSegment(Begun(i, motion, until, total)))
         /\ motion = "twitch" => MotionOK(Begun(i, motion, until, total))
<1> DEFINE n == Begun(i, motion, until, total)
<1>1. /\ n \in MotionRecord /\ n.motion = motion /\ ~n.moving /\ n.left = total /\ n.total = total
      /\ n.ended = "none" /\ OneAxis(n)
  <2>1. n = Begun(i, motion, until, total)
    OBVIOUS
  <2> HIDE DEF n
  <2> QED
    BY <2>1, BegunFields
<1> HIDE DEF n
<1>2. n.left <= n.total /\ ~(n.motion \in Ends /\ n.left = 0)
  BY <1>1
<1>3. MotionOK(NextSegment(n))
  BY <1>1, <1>2, NextSegmentOK
<1>4. motion = "twitch" => MotionOK(n)
  BY <1>1, <1>2 DEF MotionOK, Ends
<1> QED
  BY <1>3, <1>4 DEF n

----------------------------------------------------------------------------
(* The holos' commands. *)

\* A command on one holo, with the task told afterwards
LEMMA CommandKeeps ==
  ASSUME HoloIInv, NEW c \in HoloCallers, Commanded(c), LightsOK', AxesOK', HolosOK', LightComesBack'
  PROVE  HoloIInv'
  BY DEF HoloIInv, AwakeWhileBusy, Commanded

LEMMA OneHolo ==
  ASSUME HoloIInv, NEW i \in Holos, NEW m, MotionOK(m), holo' = [holo EXCEPT ![i] = m]
  PROVE  HolosOK'
<1>1. m \in MotionRecord
  BY DEF MotionOK
<1>2. \A j \in Holos : holo'[j] = IF j = i THEN m ELSE holo[j]
  BY DEF HoloIInv, HolosOK
<1> QED
  BY <1>1, <1>2 DEF HoloIInv, HolosOK

LEMMA StartKeeps ==
  ASSUME HoloIInv, NEW i \in Holos, NEW m, MotionOK(m), Start(i, m), NEW c \in HoloCallers, Commanded(c)
  PROVE  HoloIInv'
<1>1. HolosOK'
  <2>1. CASE Refused(i)
    BY <2>1 DEF Start, HoloIInv, HolosOK
  <2>2. CASE ~Refused(i)
    BY <2>2, OneHolo DEF Start
  <2> QED
    BY <2>1, <2>2
<1>2. LightsOK' /\ AxesOK' /\ LightComesBack'
  BY DEF Start, Commanded, HoloIInv, LightsOK, AxesOK, LightComesBack
<1> QED
  BY <1>1, <1>2, CommandKeeps

\* set_led() keeps count of the light that is to stay
LEMMA LitKeeps ==
  ASSUME HoloIInv, NEW i \in Holos, NEW led \in Kept \cup Animated, NEW timed \in BOOLEAN, NEW leia \in BOOLEAN,
         NEW l, light' = [light EXCEPT ![i] = l], l = [Lit(light[i], led, timed) EXCEPT !.leia = leia]
                                                  \/ (l = Lit(light[i], led, timed) /\ ~leia),
         steady' = (IF timed THEN steady ELSE [steady EXCEPT ![i] = led]),
         leia => timed /\ led = "flicker"
  PROVE  LightsOK' /\ LightComesBack'
<1>1. light \in [Holos -> LightRecord] /\ steady \in [Holos -> Kept \cup Animated] /\ light[i] \in LightRecord
  BY DEF HoloIInv, LightsOK
<1>2. /\ l \in LightRecord /\ l.led = led /\ l.until = (IF timed THEN "running" ELSE "none") /\ (l.leia <=> leia)
      /\ l.after = (IF timed /\ light[i].until = "none" THEN light[i].led ELSE light[i].after)
  <2> DEFINE after == IF timed /\ light[i].until = "none" THEN light[i].led ELSE light[i].after
             until == IF timed THEN "running" ELSE "none"
  <2>1. after \in Kept \cup Animated /\ until \in Timed
    BY <1>1 DEF LightRecord, Timed
  <2>2. Lit(light[i], led, timed) = [led |-> led, after |-> after, until |-> until, leia |-> FALSE]
    BY DEF Lit
  <2> HIDE DEF after, until
  <2>3. ASSUME l = [Lit(light[i], led, timed) EXCEPT !.leia = leia]
        PROVE  l \in LightRecord /\ l.led = led /\ l.until = until /\ (l.leia <=> leia) /\ l.after = after
    BY <2>1, <2>2, <2>3 DEF LightRecord
  <2>4. ASSUME l = Lit(light[i], led, timed) /\ ~leia
        PROVE  l \in LightRecord /\ l.led = led /\ l.until = until /\ (l.leia <=> leia) /\ l.after = after
    BY <2>1, <2>2, <2>4 DEF LightRecord
  <2>5. l \in LightRecord /\ l.led = led /\ l.until = until /\ (l.leia <=> leia) /\ l.after = after
    BY <2>3, <2>4
  <2> QED
    BY <2>5 DEF after, until
<1>3. light' = [light EXCEPT ![i] = l]
  OBVIOUS
<1>4. LightsOK'
  BY <1>1, <1>2, <1>3 DEF LightsOK
<1>5. ASSUME NEW j \in Holos
      PROVE  /\ (IF light'[j].until = "none" THEN light'[j].led ELSE light'[j].after) = steady'[j]
             /\ light'[j].leia => light'[j].led = "flicker" /\ light'[j].until # "none"
  <2>1. CASE j = i
    BY <1>1, <1>2, <1>3, <2>1 DEF HoloIInv, LightComesBack
  <2>2. CASE j # i
    BY <1>1, <1>3, <2>2 DEF HoloIInv, LightComesBack
  <2> QED
    BY <2>1, <2>2
<1> QED
  BY <1>4, <1>5 DEF LightComesBack

LEMMA CommandsKeep == HoloIInv /\ (\E c \in HoloCallers, i \in Holos : HoloCommand(c, i)) => HoloIInv'
<1> SUFFICES ASSUME HoloIInv, NEW c \in HoloCallers, NEW i \in Holos, HoloCommand(c, i) PROVE HoloIInv'
  OBVIOUS
<1>1. Commanded(c)
  BY DEF HoloCommand, HoloMotion, HoloLight, HoloLeia
<1>2. holo[i] \in MotionRecord /\ MotionOK(holo[i]) /\ Located(i) \in [Both -> Int]
  <2>1. \A a \in Both : axis[i][a].at \in Int /\ 0 \in Int
    BY HoloAssumption DEF HoloIInv, AxesOK, AxisRecord
  <2> QED
    BY <2>1 DEF HoloIInv, HolosOK, Located
<1>3. MotionOK(StoppedBy(holo[i], "no"))
  BY <1>2, StoppedOK DEF MotionOK
<1>4. ASSUME NEW p \in Targets, MoveTo(i, p) \/ Nudge(i, p)
      PROVE  HoloIInv'
  <2>1. p \in [Both -> Int] /\ Plus(Located(i), p) \in [Both -> Int]
    BY <1>2, PlusInts, PointsAreInts
  <2> QED
    BY <1>1, <1>4, <2>1, MovesOK, StartKeeps DEF MoveTo, Nudge
<1>5. ASSUME NEW until \in {"none", "running"}, Twitch(i, until) \/ Scan(i, until)
      PROVE  HoloIInv'
  <2>1. until \in Timed /\ "twitch" \in Motions /\ "scan" \in Motions /\ "twitch" \notin Ends /\ "scan" \notin Ends
    BY DEF Timed, Motions, Ends
  <2> QED
    BY <1>1, <1>5, <2>1, BeginsOK, StartKeeps DEF Twitch, Scan
<1>6. CASE WagOrNod(i, "wag") \/ WagOrNod(i, "nod") \/ Circle(i)
  <2>1. 2 * Count + 1 \in Nat /\ 2 * Count + 1 > 0 /\ CircleSteps * Count + 2 \in Nat /\ CircleSteps * Count + 2 > 0
    BY HoloAssumption DEF CircleSteps
  <2>2. "none" \in Timed /\ "wag" \in Motions /\ "nod" \in Motions /\ "circle" \in Motions
    BY DEF Timed, Motions
  <2> QED
    BY <1>1, <1>6, <2>1, <2>2, BeginsOK, StartKeeps DEF WagOrNod, Circle
<1>7. CASE StopMotion(i)
  <2>1. HolosOK'
    BY <1>3, <1>7, OneHolo DEF StopMotion
  <2>2. LightsOK' /\ AxesOK' /\ LightComesBack'
    BY <1>1, <1>7 DEF StopMotion, Commanded, HoloIInv, LightsOK, AxesOK, LightComesBack
  <2> QED
    BY <1>1, <2>1, <2>2, CommandKeeps
<1>8. CASE SwitchOff(i)
  <2>1. HolosOK'
    BY <1>3, <1>8, OneHolo DEF SwitchOff
  <2>2. AxesOK'
    <3>1. axis[i] \in [Both -> AxisRecord]
      BY DEF HoloIInv, AxesOK
    <3>2. [a \in Both |-> Limp(axis[i][a])] \in [Both -> AxisRecord]
      BY <3>1 DEF Limp, AxisRecord
    <3> QED
      BY <1>1, <1>8, <3>2 DEF SwitchOff, Commanded, HoloIInv, AxesOK
  <2>3. LightsOK' /\ LightComesBack'
    <3>1. light' = [light EXCEPT ![i] = Lit(light[i], "off", FALSE)] /\ steady' = [steady EXCEPT ![i] = "off"]
      BY <1>8 DEF SwitchOff, SetLed
    <3>2. "off" \in Kept \cup Animated
      BY DEF Kept
    <3> QED
      BY <3>1, <3>2, LitKeeps
  <2> QED
    BY <1>1, <2>1, <2>2, <2>3, CommandKeeps
<1>9. ASSUME NEW led \in Kept \cup Animated, NEW timed \in BOOLEAN, Light(i, led, timed)
      PROVE  HoloIInv'
  <2>1. HolosOK' /\ AxesOK'
    BY <1>1, <1>9 DEF Light, Commanded, HoloIInv, HolosOK, AxesOK
  <2>2. /\ light' = [light EXCEPT ![i] = Lit(light[i], led, timed)]
        /\ steady' = (IF timed THEN steady ELSE [steady EXCEPT ![i] = led])
    BY <1>9 DEF Light, SetLed
  <2>3. LightsOK' /\ LightComesBack'
    BY <2>2, LitKeeps
  <2> QED
    BY <1>1, <2>1, <2>3, CommandKeeps
<1>10. CASE Leia(i)
  <2>1. HolosOK' /\ AxesOK'
    <3>1. MotionOK(Segment(Begun(i, "move", "none", 0), Middle))
      BY MovesOK, PointsAreInts
    <3>2. HolosOK'
      <4>1. CASE Refused(i)
        BY <1>10, <4>1 DEF Leia, HoloIInv, HolosOK
      <4>2. CASE ~Refused(i)
        BY <1>10, <3>1, <4>2, OneHolo DEF Leia
      <4> QED
        BY <4>1, <4>2
    <3> QED
      BY <1>1, <1>10, <3>2 DEF Leia, Commanded, HoloIInv, AxesOK
  <2>2. "flicker" \in Kept \cup Animated /\ TRUE \in BOOLEAN
    BY DEF Animated
  <2>3. LightsOK' /\ LightComesBack'
    BY <1>10, <2>2, LitKeeps DEF Leia
  <2> QED
    BY <1>1, <2>1, <2>3, CommandKeeps
<1>11. ASSUME NEW a \in Both, NEW kept \in BOOLEAN, Endpoints(i, a, kept)
       PROVE  HoloIInv'
  <2>1. AxesOK'
    <3>1. axis[i][a] \in AxisRecord /\ axis[i] \in [Both -> AxisRecord]
      BY DEF HoloIInv, AxesOK
    <3>2. WithEndpoints(axis[i][a], kept) \in AxisRecord
      BY <3>1 DEF WithEndpoints, AxisRecord
    <3> QED
      BY <1>1, <1>11, <3>1, <3>2 DEF Endpoints, Commanded, HoloIInv, AxesOK
  <2>2. HolosOK' /\ LightsOK' /\ LightComesBack'
    BY <1>11 DEF Endpoints, HoloIInv, HolosOK, LightsOK, LightComesBack
  <2> QED
    BY <1>1, <2>1, <2>2, CommandKeeps
<1> QED
  BY <1>4, <1>5, <1>6, <1>7, <1>8, <1>9, <1>10, <1>11 DEF HoloCommand, HoloMotion, HoloLight, HoloLeia, Motion

----------------------------------------------------------------------------
(* A frame. *)

\* A frame along a leg: one that is refused nothing has sent its place to both axes
LEMMA AlongOK ==
  ASSUME HoloIInv, NEW i \in Holos, holo[i].moving, NEW p, p = Stepped(holo[i]), NEW on,
         on = [holo[i] EXCEPT !.at = p, !.frames = @ - 1,
                 !.sent = [a \in Both |-> IF a \in Sends(i, holo[i], p) THEN p[a] ELSE holo[i].sent[a]]]
  PROVE  /\ MotionOK(StoppedBy(on, "refused"))
         /\ ~Refusing(i, holo[i], p) /\ on.frames = 0 => MotionOK(NextSegment([on EXCEPT !.moving = FALSE]))
         /\ ~Refusing(i, holo[i], p) /\ on.frames # 0 => MotionOK(on)
<1> DEFINE m == holo[i]
           sent == [a \in Both |-> IF a \in Sends(i, m, p) THEN p[a] ELSE m.sent[a]]
           f == m.frames - 1
<1>1. m \in MotionRecord /\ MotionOK(m) /\ m.moving
  BY DEF HoloIInv, HolosOK
<1>2. /\ m.left <= m.total /\ m.motion # "hold" /\ m.frames \in 1 .. Frames /\ OneAxis(m) /\ m.ended = "none"
      /\ m.motion \in Ends => Leg(m)
  BY <1>1 DEF MotionOK
<1>3. f \in 0 .. Frames /\ (f # 0 => f \in 1 .. Frames) /\ (f = 0 <=> m.frames = 1) /\ m.frames # 0
  BY <1>2, HoloAssumption
<1> HIDE DEF m, f
<1>4. /\ p \in Points /\ (\A a \in Both : m.at[a] = m.to[a] => p[a] = m.at[a]) /\ (f = 0 => p = m.to)
  <2>1. p = Stepped(m)
    BY DEF m
  <2> QED
    BY <1>1, <1>3, <2>1, SteppedIn
<1>5. sent \in [Both -> Int] /\ (~Refusing(i, m, p) => sent = p)
  <2>1. m.sent \in [Both -> Int] /\ p \in [Both -> Int]
    BY <1>1, <1>4, PointsAreInts, Fields
  <2>2. sent \in [Both -> Int]
    BY <2>1
  <2>3. ASSUME ~Refusing(i, m, p), NEW a \in Both PROVE sent[a] = p[a]
    BY <2>1, <2>3 DEF Refusing, Sends, Needs, Both
  <2> QED
    BY <2>1, <2>2, <2>3
<1> HIDE DEF sent
<1>6. /\ on \in MotionRecord /\ on.at = p /\ on.frames = f /\ on.sent = sent /\ on.motion = m.motion /\ on.moving
      /\ on.to = m.to /\ on.left = m.left /\ on.total = m.total /\ on.home = m.home /\ on.ended = "none"
  <2>1. on = [m EXCEPT !.at = p, !.frames = f, !.sent = sent]
    BY DEF m, f, sent
  <2> QED
    BY <1>1, <1>2, <1>3, <1>4, <1>5, <2>1 DEF MotionRecord
<1>7. MotionOK(StoppedBy(on, "refused"))
  BY <1>2, <1>6, StoppedOK DEF Ends
<1>8. ASSUME ~Refusing(i, m, p), f = 0 PROVE MotionOK(NextSegment([on EXCEPT !.moving = FALSE]))
  <2> DEFINE o == [on EXCEPT !.moving = FALSE]
  <2>1. /\ o \in MotionRecord /\ o.at = m.to /\ o.sent = m.to /\ o.motion = m.motion /\ ~o.moving
        /\ o.left = m.left /\ o.total = m.total /\ o.home = m.home /\ o.ended = "none"
    BY <1>4, <1>5, <1>6, <1>8 DEF MotionRecord
  <2> HIDE DEF o
  <2>2. OneAxis(o)
    BY <1>2, <2>1 DEF OneAxis, Leg, Ends
  <2>3. o.motion \in Ends /\ o.left = 0 => HomeAgain(o)
    BY <1>2, <2>1 DEF HomeAgain, Leg
  <2>4. MotionOK(NextSegment(o))
    BY <1>2, <2>1, <2>2, <2>3, NextSegmentOK
  <2> QED
    BY <2>4 DEF o
<1>9. ASSUME ~Refusing(i, m, p), f # 0 PROVE MotionOK(on)
  <2>1. OneAxis(on)
    BY <1>2, <1>4, <1>6 DEF OneAxis, Leg, Ends, Both
  <2>2. on.motion \in Ends => Leg(on)
    BY <1>2, <1>6 DEF Leg
  <2> QED
    BY <1>2, <1>3, <1>6, <1>9, <2>1, <2>2 DEF MotionOK, Ends
<1> QED
  BY <1>6, <1>7, <1>8, <1>9 DEF m

LEMMA TickOK ==
  ASSUME HoloIInv, NEW i \in Holos, NEW looks \in BOOLEAN, NEW aim \in Targets,
         looks => holo[i].motion = "twitch" /\ ~holo[i].moving
  PROVE  MotionOK(Tick(i, looks, aim))
<1> DEFINE m == holo[i]
           p == Stepped(m)
           on == [m EXCEPT !.at = p, !.frames = @ - 1,
                    !.sent = [a \in Both |-> IF a \in Sends(i, m, p) THEN p[a] ELSE m.sent[a]]]
<1>1. m \in MotionRecord /\ MotionOK(m) /\ aim \in [Both -> Int]
  BY PointsAreInts DEF HoloIInv, HolosOK
<1>2. m.left <= m.total /\ (m.ended \in Ends => HomeAgain(m)) /\ (m.ended # "none" => m.motion = "hold")
  BY <1>1 DEF MotionOK
<1>3. MotionOK(StoppedBy(m, "not armed")) /\ MotionOK(StoppedBy(m, "no"))
  BY <1>1, <1>2, StoppedOK
<1>4. ASSUME m.moving
      PROVE  /\ MotionOK(StoppedBy(on, "refused"))
             /\ ~Refusing(i, m, p) /\ on.frames = 0 => MotionOK(NextSegment([on EXCEPT !.moving = FALSE]))
             /\ ~Refusing(i, m, p) /\ on.frames # 0 => MotionOK(on)
  BY <1>4, AlongOK
<1>5. looks => MotionOK(Segment(m, aim))
  <2> DEFINE n == Segment(m, aim)
  <2>1. ASSUME looks PROVE MotionOK(n)
    <3>1. /\ n \in MotionRecord /\ n.frames \in 1 .. Frames /\ n.motion = "twitch" /\ n.left = m.left
          /\ n.total = m.total /\ n.ended = m.ended
      BY <1>1, <2>1, SegmentFields
    <3> HIDE DEF n
    <3>2. n.ended = "none"
      BY <1>2, <2>1, <3>1
    <3> QED
      BY <1>2, <3>1, <3>2 DEF MotionOK, OneAxis, Ends
  <2> QED
    BY <2>1
<1> HIDE DEF on, p
<1>6. Tick(i, looks, aim) =
        CASE m.motion = "hold" -> m
          [] m.motion # "hold" /\ ~armed -> StoppedBy(m, "not armed")
          [] m.motion # "hold" /\ armed /\ m.until = "over" /\ ~m.moving -> StoppedBy(m, "no")
          [] (m.moving /\ armed) /\ Refusing(i, m, p) -> StoppedBy(on, "refused")
          [] (m.moving /\ armed) /\ ~Refusing(i, m, p) ->
               IF on.frames = 0 THEN NextSegment([on EXCEPT !.moving = FALSE]) ELSE on
          [] OTHER -> IF looks THEN Segment(m, aim) ELSE m
  BY DEF Tick, on, p
<1> HIDE DEF m
<1> QED
  BY <1>1, <1>3, <1>4, <1>5, <1>6

\* The axes a frame moves are moved to places they can be at
LEMMA AxesMovedOK ==
  ASSUME HoloIInv, NEW i \in Holos
  PROVE  AxesMoved(i) \in [Both -> AxisRecord]
<1> DEFINE p == Stepped(holo[i])
           moved == IF holo[i].moving /\ armed THEN Sends(i, holo[i], p) ELSE {}
<1>1. holo[i] \in MotionRecord /\ MotionOK(holo[i]) /\ axis[i] \in [Both -> AxisRecord]
  BY DEF HoloIInv, HolosOK, AxesOK
<1>2. ASSUME NEW a \in Both PROVE (IF a \in moved THEN MovedTo(axis[i][a], p[a]) ELSE axis[i][a]) \in AxisRecord
  <2>1. axis[i][a] \in AxisRecord
    BY <1>1, <1>2
  <2>2. ASSUME a \in moved PROVE p[a] \in -Reach .. Reach
    <3>1. holo[i].frames # 0
      BY <1>1, <2>2 DEF MotionOK
    <3>2. p \in Points
      BY <1>1, <3>1, SteppedIn
    <3> QED
      BY <1>2, <3>2 DEF Points
  <2> HIDE DEF p, moved
  <2> QED
    BY <2>1, <2>2 DEF MovedTo, AxisRecord
<1> QED
  BY <1>2 DEF AxesMoved

\* A timed light that is over is again what it was before
LEMMA LightTickOK ==
  ASSUME NEW l \in LightRecord, NEW kept, (IF l.until = "none" THEN l.led ELSE l.after) = kept,
         l.leia => l.led = "flicker" /\ l.until # "none"
  PROVE  /\ LightTick(l) \in LightRecord
         /\ (IF LightTick(l).until = "none" THEN LightTick(l).led ELSE LightTick(l).after) = kept
         /\ LightTick(l).leia => LightTick(l).led = "flicker" /\ LightTick(l).until # "none"
<1>1. CASE l.until = "over"
  <2>1. LightTick(l) = [led |-> l.after, after |-> l.after, until |-> "none", leia |-> FALSE]
    BY <1>1 DEF LightTick
  <2> QED
    BY <1>1, <2>1 DEF LightRecord, Timed
<1>2. CASE l.until # "over"
  BY <1>2 DEF LightTick
<1> QED
  BY <1>1, <1>2

\* A frame after which the task may sleep has left nothing to do
LEMMA FrameKeeps == HoloIInv /\ Frame => HoloIInv'
<1> SUFFICES ASSUME HoloIInv, Frame PROVE HoloIInv'
  OBVIOUS
<1>1. PICK looking \in SUBSET {i \in Holos : holo[i].motion = "twitch" /\ ~holo[i].moving}, aim \in Targets :
        holo' = [i \in Holos |-> Tick(i, i \in looking, aim)]
  BY DEF Frame
<1>2. \A i \in Holos : holo'[i] = Tick(i, i \in looking, aim) /\ MotionOK(holo'[i])
  <2> SUFFICES ASSUME NEW i \in Holos PROVE holo'[i] = Tick(i, i \in looking, aim) /\ MotionOK(holo'[i])
    OBVIOUS
  <2>1. (i \in looking) \in BOOLEAN /\ (i \in looking => holo[i].motion = "twitch" /\ ~holo[i].moving)
    OBVIOUS
  <2>2. MotionOK(Tick(i, i \in looking, aim))
    BY <2>1, TickOK
  <2> QED
    BY <1>1, <2>2
<1>3. HolosOK'
  BY <1>1, <1>2 DEF HolosOK, MotionOK
<1>4. LightsOK' /\ LightComesBack'
  <2>1. /\ light \in [Holos -> LightRecord] /\ steady \in [Holos -> Kept \cup Animated] /\ steady' = steady
        /\ light' = [i \in Holos |-> LightTick(light[i])]
    BY DEF HoloIInv, LightsOK, Frame
  <2>2. ASSUME NEW i \in Holos
        PROVE  /\ light'[i] \in LightRecord
               /\ (IF light'[i].until = "none" THEN light'[i].led ELSE light'[i].after) = steady'[i]
               /\ light'[i].leia => light'[i].led = "flicker" /\ light'[i].until # "none"
    <3>1. /\ light[i] \in LightRecord /\ light'[i] = LightTick(light[i]) /\ steady'[i] = steady[i]
          /\ (IF light[i].until = "none" THEN light[i].led ELSE light[i].after) = steady[i]
          /\ light[i].leia => light[i].led = "flicker" /\ light[i].until # "none"
      BY <2>1 DEF HoloIInv, LightComesBack
    <3> QED
      BY <3>1, LightTickOK
  <2> QED
    BY <2>1, <2>2 DEF LightsOK, LightComesBack
<1>5. AxesOK'
  <2>1. axis' = [i \in Holos |-> AxesMoved(i)] /\ armed' = armed
    BY DEF Frame
  <2> QED
    BY <2>1, AxesMovedOK DEF HoloIInv, AxesOK
<1>6. AwakeWhileBusy'
  <2> SUFFICES ASSUME task' = "idle", NEW i \in Holos
               PROVE  holo'[i].motion = "hold" /\ ~LedAnimated(light'[i])
    BY DEF AwakeWhileBusy
  <2>1. ~Busy(i, holo'[i], light'[i])
    BY DEF Frame
  <2>2. ~LedAnimated(light'[i]) /\ (holo[i].motion = "hold" \/ holo'[i].motion = "hold")
    BY <2>1 DEF Busy
  <2>3. ASSUME holo[i].motion = "hold" PROVE holo'[i] = holo[i]
    <3>1. ~holo[i].moving
      BY <2>3 DEF HoloIInv, HolosOK, MotionOK
    <3>2. Tick(i, i \in looking, aim) = holo[i]
      BY <2>3, <3>1 DEF Tick
    <3> QED
      BY <1>2, <3>2
  <2> QED
    BY <2>2, <2>3
<1> QED
  BY <1>3, <1>4, <1>5, <1>6 DEF HoloIInv

\* What changes of itself changes no light that is to stay and no motion but its time
LEMMA WorldKeeps ==
  HoloIInv /\ ((\E c \in HoloCallers : Wake(c)) \/ Refresh \/ Arm
               \/ \E i \in Holos : \/ LightRunsOut(i) \/ MotionRunsOut(i)
                                   \/ \E a \in Both : Fit(i, a) \/ Disturb(i, a, Reach)) => HoloIInv'
<1> SUFFICES ASSUME HoloIInv,
                    \/ (\E c \in HoloCallers : Wake(c)) \/ Refresh \/ Arm
                    \/ \E i \in Holos : \/ LightRunsOut(i) \/ MotionRunsOut(i)
                                        \/ \E a \in Both : Fit(i, a) \/ Disturb(i, a, Reach)
             PROVE  HoloIInv'
  OBVIOUS
<1>1. CASE (\E c \in HoloCallers : Wake(c)) \/ Refresh \/ Arm
  BY <1>1 DEF Wake, Refresh, Arm, HoloIInv, LightsOK, AxesOK, HolosOK, LightComesBack, AwakeWhileBusy
<1>2. ASSUME NEW i \in Holos, LightRunsOut(i) PROVE HoloIInv'
  <2>1. /\ light \in [Holos -> LightRecord] /\ light[i] \in LightRecord /\ light[i].until = "running"
        /\ light' = [light EXCEPT ![i] = [light[i] EXCEPT !.until = "over"]]
        /\ UNCHANGED <<steady, holo, axis, armed, task, notified, waking>>
    BY <1>2 DEF LightRunsOut, HoloIInv, LightsOK
  <2> DEFINE l == [light[i] EXCEPT !.until = "over"]
  <2>2. l \in LightRecord /\ l.led = light[i].led /\ l.after = light[i].after /\ l.leia = light[i].leia /\ l.until = "over"
    BY <2>1 DEF LightRecord, Timed
  <2>3. \A j \in Holos : light'[j] = IF j = i THEN l ELSE light[j]
    BY <2>1
  <2> HIDE DEF l
  <2>4. LightsOK' /\ AxesOK' /\ HolosOK'
    BY <2>1, <2>2, <2>3 DEF HoloIInv, LightsOK, AxesOK, HolosOK
  <2>5. LightComesBack'
    BY <2>1, <2>2, <2>3 DEF HoloIInv, LightComesBack
  <2>6. AwakeWhileBusy'
    <3> SUFFICES ASSUME task = "idle", ~notified, waking = {} PROVE FALSE
      BY <2>1 DEF AwakeWhileBusy
    <3>1. ~LedAnimated(light[i])
      BY DEF HoloIInv, AwakeWhileBusy
    <3> QED
      BY <2>1, <3>1 DEF LedAnimated
  <2> QED
    BY <2>4, <2>5, <2>6 DEF HoloIInv
<1>3. ASSUME NEW i \in Holos, MotionRunsOut(i) PROVE HoloIInv'
  <2> DEFINE m == [holo[i] EXCEPT !.until = "over"]
  <2>1. holo[i] \in MotionRecord /\ MotionOK(holo[i])
    BY DEF HoloIInv, HolosOK
  <2>2. /\ holo' = [holo EXCEPT ![i] = m]
        /\ UNCHANGED <<light, steady, axis, armed, task, notified, waking>>
    BY <1>3 DEF MotionRunsOut
  <2>3. /\ m \in MotionRecord /\ m.motion = holo[i].motion /\ (m.moving <=> holo[i].moving) /\ m.at = holo[i].at
        /\ m.to = holo[i].to /\ m.frames = holo[i].frames /\ m.total = holo[i].total /\ m.left = holo[i].left
        /\ m.home = holo[i].home /\ m.sent = holo[i].sent /\ m.ended = holo[i].ended
    BY <2>1 DEF MotionRecord, Timed
  <2> HIDE DEF m
  <2>4. MotionOK(m)
    BY <2>1, <2>3 DEF MotionOK, OneAxis, Leg, HomeAgain
  <2>5. HolosOK'
    BY <2>2, <2>4, OneHolo
  <2>6. AwakeWhileBusy'
    <3>1. \A j \in Holos : holo'[j].motion = holo[j].motion
      BY <2>2, <2>3 DEF HoloIInv, HolosOK
    <3> QED
      BY <2>2, <3>1 DEF HoloIInv, AwakeWhileBusy
  <2> QED
    BY <2>2, <2>5, <2>6 DEF HoloIInv, LightsOK, AxesOK, LightComesBack
<1>4. ASSUME NEW i \in Holos, NEW a \in Both, Fit(i, a) \/ Disturb(i, a, Reach) PROVE HoloIInv'
  <2>1. /\ axis \in [Holos -> [Both -> AxisRecord]] /\ axis[i] \in [Both -> AxisRecord] /\ axis[i][a] \in AxisRecord
        /\ Reach \in -Reach .. Reach
    BY HoloAssumption DEF HoloIInv, AxesOK
  <2>2. AxesOK'
    <3>1. CASE Fit(i, a)
      <4>1. [axis[i][a] EXCEPT !.fitted = ~@] \in AxisRecord
        BY <2>1 DEF AxisRecord
      <4> QED
        BY <2>1, <3>1, <4>1 DEF Fit, HoloIInv, AxesOK
    <3>2. CASE Disturb(i, a, Reach)
      <4>1. [axis[i][a] EXCEPT !.at = Reach, !.driven = TRUE] \in AxisRecord
        BY <2>1 DEF AxisRecord
      <4>2. axis' = [axis EXCEPT ![i] = [axis[i] EXCEPT ![a] = [axis[i][a] EXCEPT !.at = Reach, !.driven = TRUE]]]
        <5>1. axis' = [axis EXCEPT ![i][a].at = Reach, ![i][a].driven = TRUE]
          BY <3>2 DEF Disturb
        <5> DEFINE x == [axis EXCEPT ![i][a].at = Reach]
        <5>2. x = [axis EXCEPT ![i] = [axis[i] EXCEPT ![a] = [axis[i][a] EXCEPT !.at = Reach]]]
          OBVIOUS
        <5>3. x[i] = [axis[i] EXCEPT ![a] = [axis[i][a] EXCEPT !.at = Reach]] /\ DOMAIN x = Holos
          BY <2>1, <5>2
        <5>4. x[i][a] = [axis[i][a] EXCEPT !.at = Reach]
          BY <2>1, <5>3
        <5>5. axis' = [x EXCEPT ![i] = [x[i] EXCEPT ![a] = [x[i][a] EXCEPT !.driven = TRUE]]]
          BY <5>1
        <5> QED
          BY <2>1, <5>2, <5>3, <5>4, <5>5
      <4> QED
        BY <2>1, <3>2, <4>1, <4>2 DEF Disturb, HoloIInv, AxesOK
    <3> QED
      BY <1>4, <3>1, <3>2
  <2> QED
    BY <1>4, <2>2 DEF Fit, Disturb, HoloIInv, LightsOK, HolosOK, LightComesBack, AwakeWhileBusy
<1> QED
  BY <1>1, <1>2, <1>3, <1>4

LEMMA HoloInitIInv == HoloInit => HoloIInv
<1> SUFFICES ASSUME HoloInit PROVE HoloIInv
  OBVIOUS
<1>1. Middle \in Points /\ [a \in Both |-> Never] \in [Both -> Int] /\ 0 \in 0 .. Frames /\ 0 \in -Reach .. Reach
  BY HoloAssumption, PointsAreInts DEF Never
<1>2. Still \in MotionRecord
  BY <1>1 DEF Still, MotionRecord, Motions, Timed
<1>3. MotionOK(Still)
  <2>1. /\ Still.motion = "hold" /\ ~Still.moving /\ Still.left = 0 /\ Still.total = 0 /\ Still.ended = "none"
    BY DEF Still
  <2> QED
    BY <1>2, <2>1 DEF MotionOK, OneAxis, Ends
<1>4. HolosOK
  BY <1>2, <1>3 DEF HoloInit, HolosOK
<1>5. LightsOK /\ LightComesBack
  BY DEF HoloInit, LightsOK, LightComesBack, LightRecord, Kept, Timed
<1>6. AxesOK
  BY <1>1 DEF HoloInit, AxesOK, Unmoved, AxisRecord
<1>7. AwakeWhileBusy
  BY DEF HoloInit, AwakeWhileBusy
<1> QED
  BY <1>4, <1>5, <1>6, <1>7 DEF HoloIInv

LEMMA HoloNextIInv == HoloIInv /\ HoloNext => HoloIInv'
  BY CommandsKeep, FrameKeeps, WorldKeeps DEF HoloNext

LEMMA HoloStill == HoloIInv /\ UNCHANGED holoVars => HoloIInv'
  BY DEF holoVars, HoloIInv, LightsOK, AxesOK, HolosOK, LightComesBack, AwakeWhileBusy

LEMMA HoloAlways == Spec => []HoloIInv
<1>1. Init => HoloIInv
  BY HoloInitIInv DEF Init
<1>2. HoloIInv /\ [Next]_vars => HoloIInv'
  BY HoloNextIInv, HoloStill DEF Next, vars
<1> QED
  BY <1>1, <1>2, PTL DEF Spec

\* However timed lights and a leia follow on one another, the light that comes back is the last one
\* that was to stay (holo.c:847).
THEOREM LightComes == Spec => []LightComesBack
  BY HoloAlways, PTL DEF HoloIInv

\* A wag, a nod or a circle of any count and any size that ends by itself has put both axes back
\* where it found them (holo.c:315).
THEOREM Returns == Spec => []ReturnsHome
<1>1. HoloIInv => ReturnsHome
  BY DEF HoloIInv, HolosOK, MotionOK, HomeAgain, ReturnsHome
<1> QED
  BY <1>1, HoloAlways, PTL

\* The task never sleeps on a motion or a light that is not done (holo.c:420).
THEOREM Awake == Spec => []AwakeWhileBusy
  BY HoloAlways, PTL DEF HoloIInv

\* Every holo is, goes and was at a place of its axes, and a leg is of 1 to Frames frames.
THEOREM HoloTyped == Spec => []HoloTypeOK
<1>1. HoloIInv => HoloTypeOK
  <2> SUFFICES ASSUME HoloIInv, NEW i \in Holos
               PROVE  /\ light[i] \in [led : Kept \cup Animated, after : Kept \cup Animated, until : Timed, leia : BOOLEAN]
                      /\ \A p \in {holo[i].at, holo[i].to, holo[i].home} : p \in [Both -> -Reach .. Reach]
                      /\ holo[i].moving => holo[i].motion # "hold" /\ holo[i].frames \in 1 .. Frames
                      /\ holo[i].left \in 0 .. holo[i].total
    BY DEF HoloTypeOK
  <2>1. holo[i] \in MotionRecord /\ MotionOK(holo[i]) /\ light[i] \in LightRecord
    BY DEF HoloIInv, HolosOK, LightsOK
  <2>2. /\ holo[i].at \in Points /\ holo[i].to \in Points /\ holo[i].home \in Points /\ holo[i].left \in Nat
        /\ holo[i].total \in Nat
    BY <2>1, Fields
  <2>3. holo[i].left \in 0 .. holo[i].total
    BY <2>1, <2>2 DEF MotionOK
  <2> QED
    BY <2>1, <2>2, <2>3 DEF MotionOK, LightRecord, Points
<1> QED
  BY <1>1, HoloAlways, PTL

----------------------------------------------------------------------------
(* The servos' invariant. *)

Pulses == AbsMin .. AbsMax
RangeRecord == {r \in [min : Pulses, max : Pulses, invert : BOOLEAN] : r.min <= r.max}
PolicyRecord == [closed : BOOLEAN, open : BOOLEAN, mid : BOOLEAN]
ServoRecord ==
    [value : Pulses, driven : BOOLEAN, released : BOOLEAN, hold : BOOLEAN, changed : BOOLEAN, age : 0 .. Settle,
     range : RangeRecord, calibrated : BOOLEAN, policy : PolicyRecord]
KeyRecord ==
    [min : Pulses \cup {Absent}, max : Pulses \cup {Absent}, invert : BOOLEAN \cup {Absent},
     drive : PolicyRecord \cup {Absent}, settle : {Settle, Absent}]
ChanRecord == [pulse : Pulses, on : BOOLEAN, pwm : BOOLEAN, duty : {0, 1}]
Reports == [of : Servos, out : BOOLEAN \X BOOLEAN]
FrameRecord ==
    [pc : {"idle", "update", "enable", "move", "sweep", "tell"}, events : SUBSET Reports, of : Servos \cup {NoServo}]

ServoTyped ==
    /\ servo \in [Servos -> ServoRecord] /\ saved \in [Servos -> KeyRecord] /\ chan \in [Servos -> ChanRecord]
    /\ frame \in [ServoTasks -> FrameRecord] /\ DOMAIN wire = Servos /\ DOMAIN told = Servos
    /\ dirty \in BOOLEAN /\ stale \in BOOLEAN /\ overtaken \in BOOLEAN
    /\ wire = [s \in Servos |-> wire[s]] /\ told = [s \in Servos |-> told[s]]

\* A task that tells has events to tell, and one that works on a servo has it
FrameOK(f) ==
    /\ f.pc # "tell" => f.events = {}
    /\ f.pc \in {"enable", "move", "sweep"} => f.of \in Servos

FramesOK == \A t \in ServoTasks : FrameOK(frame[t])

\* What a servo's channel is asked for is what the servo is
Driving(v, c, is) ==
    /\ v.hold => v.driven
    /\ c.pulse = v.value
    /\ is \/ ((c.on <=> v.driven) /\ ~(v.driven /\ v.released))

DrivesOK == \A s \in Servos : Driving(servo[s], chan[s], s \in limp)

\* What is written is what was asked for: of a pin at once, of a board with its frame
WiredOK == \A s \in Servos : s \in Gpio \/ (~dirty /\ ~stale) => wire[s] = Output(chan[s])

Is(v) == <<v.driven, v.released>>

\* A servo that has not changed since the last frame is what is still to be told of it, or else
\* what was told of it last
ToldOK ==
    ~overtaken => \A s \in Servos :
       /\ ~(servo[s].driven /\ servo[s].released)
       /\ ~servo[s].changed =>
            /\ \A t \in ServoTasks : \A e \in frame[t].events : e.of = s => e.out = Is(servo[s])
            /\ (\A t \in ServoTasks : \A e \in frame[t].events : e.of # s) => told[s] = Is(servo[s])

Whole(keys) == keys.min # Absent /\ keys.max # Absent /\ keys.invert # Absent
SavedRange(keys) == [min |-> keys.min, max |-> keys.max, invert |-> keys.invert]

\* A servo's range, and the one it will have after a restart, are whole
RangesOK ==
    \A s \in Servos \ mixed :
       servo[s].range \in Ranges \cup {Default} /\ (Whole(saved[s]) => SavedRange(saved[s]) \in Ranges)

ServoIInv == ServoTyped /\ FramesOK /\ DrivesOK /\ WiredOK /\ ToldOK /\ RangesOK

LEMMA ServoFields ==
  ASSUME NEW v \in ServoRecord
  PROVE  /\ v.value \in Pulses /\ v.driven \in BOOLEAN /\ v.released \in BOOLEAN /\ v.hold \in BOOLEAN
         /\ v.changed \in BOOLEAN /\ v.age \in 0 .. Settle /\ v.range \in RangeRecord /\ v.calibrated \in BOOLEAN
         /\ v.policy \in PolicyRecord
  BY DEF ServoRecord

LEMMA RangesFit ==
  /\ Ranges \subseteq RangeRecord /\ Default \in RangeRecord /\ Policies \subseteq PolicyRecord
  /\ HoldAll \in PolicyRecord /\ Centre \in Pulses /\ AbsMin \in Int /\ AbsMax \in Int /\ Settle \in 0 .. Settle
<1>1. AbsMin \in Nat /\ AbsMax \in Nat /\ AbsMin <= AbsMax /\ Settle \in Nat
  BY ServoAssumption
<1>2. Ranges \subseteq RangeRecord /\ Policies \subseteq PolicyRecord
  BY ServoAssumption DEF RangeRecord, PolicyRecord, Pulses
<1>3. Default \in RangeRecord
  BY <1>1 DEF Default, RangeRecord, Pulses
<1>4. HoldAll \in PolicyRecord
  BY DEF HoldAll, PolicyRecord
<1>5. Centre \in Pulses
  BY <1>1 DEF Centre, Pulses
<1> QED
  BY <1>1, <1>2, <1>3, <1>4, <1>5

\* A share of a range is within it
LEMMA PartWithin ==
  ASSUME NEW d \in Nat, NEW q \in Nat, NEW f \in Nat \ {0}, q <= f
  PROVE  (d * q) \div f \in 0 .. d
<1> DEFINE x == (d * q) \div f
           r == (d * q) % f
<1>1. d * q \in Int /\ d * q <= d * f /\ 0 <= d * q /\ d * f \in Int
  OBVIOUS
<1>2. x \in Int /\ r \in 0 .. f - 1 /\ d * q = f * x + r
  BY <1>1, SMT
<1> HIDE DEF x, r
<1>3. ASSUME x <= -1 PROVE FALSE
  <2>1. f * x <= f * (-1) /\ f * (-1) = -f /\ f * x \in Int
    BY <1>2, <1>3
  <2> QED
    BY <1>1, <1>2, <2>1
<1>4. ASSUME x >= d + 1 PROVE FALSE
  <2>1. f * x >= f * (d + 1) /\ f * (d + 1) = d * f + f /\ f * x \in Int
    BY <1>2, <1>4
  <2> QED
    BY <1>1, <1>2, <2>1
<1>5. x \in 0 .. d
  BY <1>2, <1>3, <1>4
<1> QED
  BY <1>5 DEF x

LEMMA AtWithin ==
  ASSUME NEW v \in ServoRecord, NEW p \in 0 .. Full
  PROVE  At(v, p) \in Pulses
<1> DEFINE r == v.range
           d == r.max - r.min
           q == IF r.invert THEN Full - p ELSE p
<1>1. Full \in Nat \ {0} /\ AbsMin \in Int /\ AbsMax \in Int
  BY ServoAssumption
<1>2. r.min \in Pulses /\ r.max \in Pulses /\ r.min <= r.max
  BY ServoFields DEF RangeRecord
<1>3. d \in Nat /\ q \in Nat /\ q <= Full /\ r.min \in Int /\ r.min + d = r.max
  BY <1>1, <1>2 DEF Pulses
<1>4. At(v, p) = r.min + ((d * q) \div Full)
  BY DEF At
<1> HIDE DEF r, d, q
<1>5. (d * q) \div Full \in 0 .. d
  BY <1>1, <1>3, PartWithin
<1> HIDE DEF At
<1>6. r.min + ((d * q) \div Full) \in Pulses
  <2> DEFINE x == (d * q) \div Full
  <2>1. x \in 0 .. d
    BY <1>5
  <2> HIDE DEF x
  <2>2. r.min + x \in Pulses
    BY <1>1, <1>2, <1>3, <2>1 DEF Pulses
  <2> QED
    BY <2>2 DEF x
<1> QED
  BY <1>4, <1>6

LEMMA LoadedOK ==
  ASSUME NEW keys \in KeyRecord
  PROVE  /\ Loaded(keys).range \in RangeRecord /\ Loaded(keys).calibrated \in BOOLEAN
         /\ Loaded(keys).policy \in PolicyRecord
         /\ Loaded(keys).range # Default => Whole(keys) /\ Loaded(keys).range = SavedRange(keys)
<1> DEFINE whole == Absent \notin {keys.min, keys.max} /\ keys.invert # Absent
           fits == AbsMin <= keys.min /\ keys.max <= AbsMax /\ keys.min <= keys.max
<1>1. Loaded(keys) = [range |-> IF whole /\ fits THEN SavedRange(keys) ELSE Default,
                      calibrated |-> whole /\ fits,
                      policy |-> IF keys.drive # Absent /\ keys.settle # Absent THEN keys.drive ELSE HoldAll]
  BY DEF Loaded, SavedRange
<1>2. whole <=> Whole(keys)
  BY DEF Whole
<1>3. whole /\ fits => SavedRange(keys) \in RangeRecord
  BY <1>2 DEF SavedRange, RangeRecord, KeyRecord, Whole
<1>4. keys.drive # Absent => keys.drive \in PolicyRecord
  BY DEF KeyRecord
<1> HIDE DEF whole, fits
<1>5. (whole /\ fits) \in BOOLEAN
  BY DEF whole, fits
<1> QED
  BY <1>1, <1>2, <1>3, <1>4, <1>5, RangesFit

LEMMA ParkedOK ==
  ASSUME NEW keys \in KeyRecord, NEW v, v = Parked(keys)
  PROVE  /\ v \in ServoRecord /\ v.value = Centre /\ ~v.driven /\ ~v.released /\ ~v.hold /\ ~v.changed
         /\ v.range # Default => Whole(keys) /\ v.range = SavedRange(keys)
<1>1. /\ Loaded(keys).range \in RangeRecord /\ Loaded(keys).calibrated \in BOOLEAN
      /\ Loaded(keys).policy \in PolicyRecord
      /\ Loaded(keys).range # Default => Whole(keys) /\ Loaded(keys).range = SavedRange(keys)
  BY LoadedOK
<1> QED
  BY <1>1, RangesFit DEF Parked, ServoRecord

----------------------------------------------------------------------------
(* A command to a servo. *)

\* What a command makes of a servo, its channel, and those it leaves limp
Commands(s, v, c) ==
    /\ v \in ServoRecord /\ c \in ChanRecord /\ v.range = servo[s].range
    /\ Driving(v, c, s \in limp')
    /\ \A u \in Servos : u # s => (u \in limp => u \in limp')
    /\ ~overtaken' => /\ ~overtaken /\ ~(v.driven /\ v.released)
                      /\ ~v.changed => ~servo[s].changed /\ Is(v) = Is(servo[s])

\* A task's frame that goes on from it, with nothing told
FramesGoOn ==
    /\ frame' \in [ServoTasks -> FrameRecord] /\ (\A t \in ServoTasks : FrameOK(frame'[t]))
    /\ \A t \in ServoTasks : frame'[t].events = frame[t].events

LEMMA ApplyKeeps ==
  ASSUME ServoIInv, NEW s \in Servos, NEW v, NEW c, Apply(s, v, c), Commands(s, v, c), FramesGoOn,
         overtaken' \in BOOLEAN, UNCHANGED <<saved, told, mixed, stale>>
  PROVE  ServoIInv'
<1>1. /\ servo' = [servo EXCEPT ![s] = v] /\ chan' = [chan EXCEPT ![s] = c]
      /\ servo \in [Servos -> ServoRecord] /\ chan \in [Servos -> ChanRecord] /\ wire = [u \in Servos |-> wire[u]]
      /\ v \in ServoRecord /\ c \in ChanRecord
      /\ dirty' = (dirty \/ s \in Board)
      /\ wire' = IF s \in Gpio THEN [wire EXCEPT ![s] = Output(c)] ELSE wire
  BY DEF Apply, ServoIInv, ServoTyped, Commands
<1>2. \A u \in Servos : /\ servo'[u] = IF u = s THEN v ELSE servo[u]
                        /\ chan'[u] = IF u = s THEN c ELSE chan[u]
                        /\ wire'[u] = IF u = s /\ s \in Gpio THEN Output(c) ELSE wire[u]
  BY <1>1
<1>3. ServoTyped'
  <2>1. wire' = [u \in Servos |-> wire'[u]] /\ DOMAIN wire' = Servos
    BY <1>1
  <2> QED
    BY <1>1, <2>1 DEF ServoIInv, ServoTyped, FramesGoOn
<1>4. FramesOK'
  BY DEF FramesGoOn, FramesOK
<1>5. DrivesOK'
  <2> SUFFICES ASSUME NEW u \in Servos PROVE Driving(servo'[u], chan'[u], u \in limp')
    BY DEF DrivesOK
  <2>1. CASE u = s
    BY <1>2, <2>1 DEF Commands
  <2>2. CASE u # s
    BY <1>2, <2>2 DEF Commands, ServoIInv, DrivesOK, Driving
  <2> QED
    BY <2>1, <2>2
<1>6. WiredOK'
  <2> SUFFICES ASSUME NEW u \in Servos, u \in Gpio \/ (~dirty' /\ ~stale') PROVE wire'[u] = Output(chan'[u])
    BY DEF WiredOK
  <2>1. CASE u = s
    <3>1. s \in Gpio
      BY <1>1, <2>1 DEF Board
    <3> QED
      BY <1>2, <2>1, <3>1
  <2>2. CASE u # s
    <3>1. u \in Gpio \/ (~dirty /\ ~stale)
      BY <1>1
    <3> QED
      BY <1>2, <2>2, <3>1 DEF ServoIInv, WiredOK
  <2> QED
    BY <2>1, <2>2
<1>7. ToldOK'
  <2> SUFFICES ASSUME ~overtaken', NEW u \in Servos
               PROVE  /\ ~(servo'[u].driven /\ servo'[u].released)
                      /\ ~servo'[u].changed =>
                           /\ \A t \in ServoTasks : \A e \in frame'[t].events : e.of = u => e.out = Is(servo'[u])
                           /\ (\A t \in ServoTasks : \A e \in frame'[t].events : e.of # u) => told'[u] = Is(servo'[u])
    BY DEF ToldOK, Is
  <2>1. ~overtaken /\ (\A t \in ServoTasks : frame'[t].events = frame[t].events) /\ told' = told
    BY DEF Commands, FramesGoOn
  <2>2. /\ ~(servo[u].driven /\ servo[u].released)
        /\ ~servo[u].changed =>
             /\ \A t \in ServoTasks : \A e \in frame[t].events : e.of = u => e.out = Is(servo[u])
             /\ (\A t \in ServoTasks : \A e \in frame[t].events : e.of # u) => told[u] = Is(servo[u])
    BY <2>1 DEF ServoIInv, ToldOK
  <2>3. CASE u = s
    BY <1>2, <2>1, <2>2, <2>3 DEF Commands
  <2>4. CASE u # s
    BY <1>2, <2>1, <2>2, <2>4
  <2> QED
    BY <2>3, <2>4
<1>8. RangesOK'
  BY <1>2 DEF ServoIInv, RangesOK, Commands
<1> QED
  BY <1>3, <1>4, <1>5, <1>6, <1>7, <1>8 DEF ServoIInv

\* A move of a servo that is not driven asks for its output, and is limp if it does not get it
LEMMA MoveKeeps ==
  ASSUME ServoIInv, NEW s \in Servos, NEW to \in Pulses, NEW ok \in BOOLEAN, Move(s, to, ok), FramesGoOn,
         UNCHANGED <<saved, told, stale, overtaken, mixed>>
  PROVE  ServoIInv'
<1> DEFINE v == Moved(servo[s], to)
           c == [chan[s] EXCEPT !.pulse = to, !.on = @ \/ (~servo[s].driven /\ ok)]
<1>1. servo[s] \in ServoRecord /\ chan[s] \in ChanRecord /\ Driving(servo[s], chan[s], s \in limp)
  BY DEF ServoIInv, ServoTyped, DrivesOK
<1>2. /\ v \in ServoRecord /\ v.range = servo[s].range /\ v.value = to /\ v.driven /\ ~v.released /\ ~v.hold
      /\ (v.changed <=> servo[s].changed \/ ~servo[s].driven)
  <2>1. 0 \in 0 .. Settle
    BY RangesFit
  <2> QED
    BY <1>1, <2>1 DEF Moved, ServoRecord
<1>3. c \in ChanRecord /\ c.pulse = to /\ (c.on <=> chan[s].on \/ (~servo[s].driven /\ ok))
  BY <1>1 DEF ChanRecord
<1>4. Apply(s, v, c) /\ limp' = (IF servo[s].driven THEN limp ELSE LimpUnless(s, ok))
  BY DEF Move
<1> HIDE DEF v, c
<1>5. Driving(v, c, s \in limp')
  BY <1>1, <1>2, <1>3, <1>4 DEF Driving, LimpUnless
<1>6. \A u \in Servos : u # s => (u \in limp => u \in limp')
  BY <1>4 DEF LimpUnless
<1>7. ~v.changed /\ ~overtaken => Is(v) = Is(servo[s])
  <2> SUFFICES ASSUME ~v.changed, ~overtaken PROVE Is(v) = Is(servo[s])
    OBVIOUS
  <2>1. servo[s].driven /\ ~servo[s].released
    BY <1>2 DEF ServoIInv, ToldOK
  <2>2. (v.driven = servo[s].driven) /\ (v.released = servo[s].released)
    BY <1>1, <1>2, <2>1, ServoFields
  <2> QED
    BY <2>2 DEF Is
<1>8. Commands(s, v, c)
  BY <1>2, <1>3, <1>5, <1>6, <1>7 DEF Commands
<1>9. overtaken' \in BOOLEAN
  BY DEF ServoIInv, ServoTyped
<1> QED
  BY <1>4, <1>8, <1>9, ApplyKeeps

\* Enable, hold, move to a percentage, or switch off: what asked for its output and got it, or is limp
LEMMA SwitchKeeps ==
  ASSUME ServoIInv, NEW s \in Servos, NEW v \in ServoRecord, NEW on \in BOOLEAN, Switch(s, v, on), FramesGoOn,
         v.range = servo[s].range, v.driven <=> on, ~v.released, v.hold => on,
         v.changed <=> servo[s].changed \/ (servo[s].driven # on) \/ (~on /\ servo[s].released)
  PROVE  ServoIInv'
<1>1. servo[s] \in ServoRecord /\ chan[s] \in ChanRecord /\ v.value \in Pulses
  BY ServoFields DEF ServoIInv, ServoTyped
<1>2. PICK ok \in Starts(s) :
        LET got == on /\ ((s \in Gpio /\ chan[s].on) \/ ok)
        IN  Apply(s, v, [chan[s] EXCEPT !.pulse = v.value, !.on = got]) /\ limp' = LimpUnless(s, got = on)
  BY DEF Switch
<1> DEFINE got == on /\ ((s \in Gpio /\ chan[s].on) \/ ok)
           c == [chan[s] EXCEPT !.pulse = v.value, !.on = got]
<1>3. Apply(s, v, c) /\ limp' = LimpUnless(s, got = on)
  BY <1>2
<1>4. c \in ChanRecord /\ c.pulse = v.value /\ (c.on <=> got)
  <2>1. got \in BOOLEAN
    OBVIOUS
  <2> HIDE DEF got
  <2> QED
    BY <1>1, <2>1 DEF ChanRecord
<1>5. s \notin limp' => (got <=> on)
  BY <1>3 DEF LimpUnless
<1> HIDE DEF got, c
<1>6. Driving(v, c, s \in limp')
  BY <1>4, <1>5 DEF Driving
<1>7. \A u \in Servos : u # s => (u \in limp => u \in limp')
  BY <1>3 DEF LimpUnless
<1>8. UNCHANGED <<saved, told, stale, overtaken, mixed>>
  BY DEF Switch
<1>9. ~v.changed /\ ~overtaken => ~servo[s].changed /\ Is(v) = Is(servo[s])
  <2> SUFFICES ASSUME ~v.changed, ~overtaken PROVE ~servo[s].changed /\ Is(v) = Is(servo[s])
    OBVIOUS
  <2>1. (servo[s].driven <=> on) /\ ~servo[s].changed /\ (~on => ~servo[s].released)
    BY <1>1, ServoFields
  <2>2. ~servo[s].released
    BY <2>1 DEF ServoIInv, ToldOK
  <2>3. (v.driven = servo[s].driven) /\ (v.released = servo[s].released)
    BY <1>1, <2>1, <2>2, ServoFields
  <2> QED
    BY <2>1, <2>3 DEF Is
<1>10. Commands(s, v, c)
  BY <1>4, <1>6, <1>7, <1>8, <1>9 DEF Commands
<1>11. overtaken' \in BOOLEAN
  BY <1>8 DEF ServoIInv, ServoTyped
<1> QED
  BY <1>3, <1>8, <1>10, <1>11, ApplyKeeps

LEMMA EnabledOK ==
  ASSUME NEW w \in ServoRecord, NEW v, v = Enabled(w)
  PROVE  /\ v \in ServoRecord /\ v.range = w.range /\ v.driven /\ ~v.released
         /\ (v.changed <=> w.changed \/ ~w.driven)
<1>1. 0 \in 0 .. Settle
  BY RangesFit
<1> QED
  BY <1>1 DEF Enabled, ServoRecord

LEMMA DisabledOK ==
  ASSUME NEW w \in ServoRecord, NEW v, v = Disabled(w)
  PROVE  /\ v \in ServoRecord /\ v.range = w.range /\ ~v.driven /\ ~v.released /\ ~v.hold
         /\ (v.changed <=> w.changed \/ w.driven \/ w.released)
  BY DEF Disabled, ServoRecord

LEMMA SentToOK ==
  ASSUME NEW w \in ServoRecord, NEW to \in Pulses, NEW v, v = Moved(Enabled(w), to)
  PROVE  /\ v \in ServoRecord /\ v.range = w.range /\ v.driven /\ ~v.released /\ ~v.hold
         /\ (v.changed <=> w.changed \/ ~w.driven)
<1> DEFINE x == Enabled(w)
<1>1. 0 \in 0 .. Settle
  BY RangesFit
<1>2. x \in ServoRecord /\ x.range = w.range /\ x.driven /\ (x.changed <=> w.changed \/ ~w.driven)
  <2>1. x = Enabled(w)
    OBVIOUS
  <2> HIDE DEF x
  <2> QED
    BY <2>1, EnabledOK
<1>3. v = Moved(x, to)
  OBVIOUS
<1> HIDE DEF x
<1> QED
  BY <1>1, <1>2, <1>3 DEF Moved, ServoRecord

LEMMA FrameGoes ==
  ASSUME ServoIInv, NEW t \in ServoTasks, NEW f \in FrameRecord, FrameOK(f), f.events = frame[t].events,
         frame' = [frame EXCEPT ![t] = f]
  PROVE  FramesGoOn
<1>1. frame \in [ServoTasks -> FrameRecord]
  BY DEF ServoIInv, ServoTyped
<1>2. \A u \in ServoTasks : frame'[u] = IF u = t THEN f ELSE frame[u]
  BY <1>1
<1> QED
  BY <1>1, <1>2 DEF FramesGoOn, ServoIInv, FramesOK

LEMMA FramesStay == ServoIInv /\ frame' = frame => FramesGoOn
  BY DEF FramesGoOn, ServoIInv, ServoTyped, FramesOK

LEMMA FrameFields ==
  ASSUME ServoIInv, NEW t \in ServoTasks
  PROVE  /\ frame[t] \in FrameRecord /\ FrameOK(frame[t]) /\ frame[t].events \subseteq Reports
         /\ frame[t].of \in Servos \cup {NoServo} /\ DOMAIN frame = ServoTasks
  BY DEF ServoIInv, ServoTyped, FramesOK, FrameRecord

\* A task with nothing to tell goes on to something else that is not telling
LEMMA FrameTo ==
  ASSUME ServoIInv, NEW t \in ServoTasks, frame[t].pc # "tell",
         NEW pc \in {"idle", "update", "enable", "move", "sweep"}, NEW of \in Servos \cup {NoServo},
         pc \in {"enable", "move", "sweep"} => of \in Servos,
         \/ frame' = [frame EXCEPT ![t].pc = pc, ![t].of = of]
         \/ frame' = [frame EXCEPT ![t].pc = pc] /\ of = frame[t].of
         \/ frame' = [frame EXCEPT ![t] = [NoFrame EXCEPT !.pc = pc]] /\ of = NoServo
         \/ frame' = [frame EXCEPT ![t] = NoFrame] /\ of = NoServo /\ pc = "idle"
  PROVE  FramesGoOn
<1> DEFINE f == [pc |-> pc, events |-> {}, of |-> of]
<1>1. frame[t] \in FrameRecord /\ frame[t].events = {} /\ frame \in [ServoTasks -> FrameRecord]
  BY FrameFields DEF FrameOK, ServoIInv, ServoTyped
<1>2. frame[t] = [pc |-> frame[t].pc, events |-> {}, of |-> frame[t].of]
  BY <1>1 DEF FrameRecord
<1>3. frame' = [frame EXCEPT ![t] = f]
  <2>1. CASE frame' = [frame EXCEPT ![t].pc = pc, ![t].of = of]
    <3> DEFINE x == [frame EXCEPT ![t] = [frame[t] EXCEPT !.pc = pc]]
    <3>1. x[t] = [pc |-> pc, events |-> {}, of |-> frame[t].of]
      BY <1>1, <1>2
    <3>2. frame' = [x EXCEPT ![t] = [x[t] EXCEPT !.of = of]]
      BY <2>1
    <3>3. frame' = [x EXCEPT ![t] = f]
      <4>1. [x[t] EXCEPT !.of = of] = f
        BY <3>1
      <4> HIDE DEF f, x
      <4> QED
        BY <3>2, <4>1
    <3>4. x \in [ServoTasks -> {x[u] : u \in ServoTasks}] /\ \A u \in ServoTasks : u # t => x[u] = frame[u]
      BY <1>1
    <3> HIDE DEF f, x
    <3>5. DOMAIN frame' = ServoTasks /\ \A u \in ServoTasks : frame'[u] = IF u = t THEN f ELSE frame[u]
      BY <3>3, <3>4
    <3>6. frame' = [u \in ServoTasks |-> IF u = t THEN f ELSE frame[u]]
      BY <3>3, <3>4
    <3>7. [frame EXCEPT ![t] = f] = [u \in ServoTasks |-> IF u = t THEN f ELSE frame[u]]
      BY <1>1
    <3> QED
      BY <3>6, <3>7, Zenon
  <2>2. CASE frame' = [frame EXCEPT ![t].pc = pc] /\ of = frame[t].of
    <3>1. [frame[t] EXCEPT !.pc = pc] = f
      BY <1>2, <2>2
    <3>2. frame' = [frame EXCEPT ![t] = [frame[t] EXCEPT !.pc = pc]]
      BY <2>2
    <3> QED
      BY <3>1, <3>2
  <2>3. CASE frame' = [frame EXCEPT ![t] = [NoFrame EXCEPT !.pc = pc]] /\ of = NoServo
    <3>1. [NoFrame EXCEPT !.pc = pc] = f
      BY <2>3 DEF NoFrame
    <3> QED
      BY <2>3, <3>1
  <2>4. CASE frame' = [frame EXCEPT ![t] = NoFrame] /\ of = NoServo /\ pc = "idle"
    BY <2>4 DEF NoFrame
  <2> QED
    BY <2>1, <2>2, <2>3, <2>4
<1>4. f \in FrameRecord /\ FrameOK(f) /\ f.events = frame[t].events
  BY <1>1 DEF FrameRecord, FrameOK
<1> HIDE DEF f
<1> QED
  BY <1>3, <1>4, FrameGoes

\* Each command is a move or a switch
LEMMA SwitchesKeep ==
  ASSUME ServoIInv, NEW s \in Servos, FramesGoOn
  PROVE  /\ \A enable \in BOOLEAN :
              Switch(s, IF enable THEN Enabled(servo[s]) ELSE Disabled(servo[s]), enable) => ServoIInv'
         /\ Switch(s, [Enabled(servo[s]) EXCEPT !.hold = TRUE], TRUE) => ServoIInv'
         /\ \A p \in 0 .. Full : Switch(s, Moved(Enabled(servo[s]), At(servo[s], p)), TRUE) => ServoIInv'
<1>1. servo[s] \in ServoRecord
  BY DEF ServoIInv, ServoTyped
<1>2. ASSUME NEW v, v = Enabled(servo[s]), Switch(s, v, TRUE) PROVE ServoIInv'
  <2>1. /\ v \in ServoRecord /\ v.range = servo[s].range /\ v.driven /\ ~v.released
        /\ (v.changed <=> servo[s].changed \/ ~servo[s].driven)
    BY <1>1, <1>2, EnabledOK
  <2>2. servo[s].driven \in BOOLEAN
    BY <1>1, ServoFields
  <2> QED
    BY <1>2, <2>1, <2>2, SwitchKeeps
<1>3. ASSUME NEW v, v = Disabled(servo[s]), Switch(s, v, FALSE) PROVE ServoIInv'
  <2>1. /\ v \in ServoRecord /\ v.range = servo[s].range /\ ~v.driven /\ ~v.released /\ ~v.hold
        /\ (v.changed <=> servo[s].changed \/ servo[s].driven \/ servo[s].released)
    BY <1>1, <1>3, DisabledOK
  <2>2. servo[s].driven \in BOOLEAN
    BY <1>1, ServoFields
  <2> QED
    BY <1>3, <2>1, <2>2, SwitchKeeps
<1>4. ASSUME NEW v, v = [Enabled(servo[s]) EXCEPT !.hold = TRUE], Switch(s, v, TRUE) PROVE ServoIInv'
  <2>1. /\ v \in ServoRecord /\ v.range = servo[s].range /\ v.driven /\ ~v.released
        /\ (v.changed <=> servo[s].changed \/ ~servo[s].driven)
    <3>1. 0 \in 0 .. Settle
      BY RangesFit
    <3> QED
      BY <1>1, <1>4, <3>1 DEF Enabled, ServoRecord
  <2>2. servo[s].driven \in BOOLEAN
    BY <1>1, ServoFields
  <2> QED
    BY <1>4, <2>1, <2>2, SwitchKeeps
<1>5. ASSUME NEW p \in 0 .. Full, NEW v, v = Moved(Enabled(servo[s]), At(servo[s], p)), Switch(s, v, TRUE)
      PROVE  ServoIInv'
  <2>1. At(servo[s], p) \in Pulses
    BY <1>1, AtWithin
  <2>2. /\ v \in ServoRecord /\ v.range = servo[s].range /\ v.driven /\ ~v.released /\ ~v.hold
        /\ (v.changed <=> servo[s].changed \/ ~servo[s].driven)
    BY <1>1, <1>5, <2>1, SentToOK
  <2>3. servo[s].driven \in BOOLEAN
    BY <1>1, ServoFields
  <2> QED
    BY <1>5, <2>2, <2>3, SwitchKeeps
<1> QED
  BY <1>2, <1>3, <1>4, <1>5

LEMMA TasksAre == Typist \in ServoTasks /\ ServoServer \in ServoTasks /\ ServoCallers \subseteq ServoTasks /\ FrameTask \in ServoTasks
  BY DEF ServoTasks

\* What the console's and the API's callers command
LEMMA CallersKeep ==
  ASSUME ServoIInv, NEW t \in ServoTasks, NEW s \in Servos,
         Caller(t, s) \/ TypedOn(t, s) \/ MovePost(t, s) \/ ReleasePost(t, s)
  PROVE  ServoIInv'
<1>1. "update" \in {"idle", "update", "enable", "move", "sweep"} /\ Full \in Nat /\ 0 \in 0 .. Full /\ Full \in 0 .. Full
  BY ServoAssumption
<1>2. ASSUME NEW v, NEW on, Command(t, s, v, on) PROVE Switch(s, v, on) /\ FramesGoOn
  <2>1. frame[t].pc # "tell" /\ frame' = [frame EXCEPT ![t].pc = "update"] /\ frame[t].of \in Servos \cup {NoServo}
    BY <1>2, FrameFields DEF Command, Free
  <2> QED
    BY <1>2, <2>1, FrameTo DEF Command
<1>3. CASE Caller(t, s)
  BY <1>1, <1>2, <1>3, SwitchesKeep DEF Caller, SetEnable, HoldOn, SetPercentage
<1>4. ASSUME NEW what \in {"move", "sweep"}, TypeEnable(t, s, what) PROVE ServoIInv'
  <2>1. FramesGoOn
    BY <1>4, FrameTo DEF TypeEnable, Free
  <2>2. Switch(s, IF TRUE THEN Enabled(servo[s]) ELSE Disabled(servo[s]), TRUE)
    BY <1>4 DEF TypeEnable
  <2> QED
    BY <2>1, <2>2, SwitchesKeep
<1>5. CASE TypedOn(t, s) \/ ReleasePost(t, s)
  BY <1>2, <1>4, <1>5, SwitchesKeep DEF TypedOn, ReleasePost, SetEnable
<1>6. CASE MovePost(t, s)
  <2>1. ASSUME NEW us \in Pulses, NEW ok \in Starts(s), Move(s, us, ok),
               UNCHANGED <<saved, told, stale, overtaken, mixed>>,
               frame' = [frame EXCEPT ![t].pc = "enable", ![t].of = s]
        PROVE  ServoIInv'
    <3>1. ok \in BOOLEAN
      BY DEF Starts
    <3>2. FramesGoOn
      BY <1>6, <2>1, FrameTo DEF MovePost, Free
    <3> QED
      BY <2>1, <3>1, <3>2, MoveKeeps
  <2>2. ASSUME NEW p \in {0, Full}, Switch(s, Moved(Enabled(servo[s]), At(servo[s], p)), TRUE),
               frame' = [frame EXCEPT ![t].pc = "update", ![t].of = s]
        PROVE  ServoIInv'
    <3>1. FramesGoOn
      BY <1>6, <2>2, FrameTo DEF MovePost, Free
    <3> QED
      BY <1>1, <2>2, <3>1, SwitchesKeep
  <2> QED
    BY <1>6, <2>1, <2>2 DEF MovePost, Pulses
<1> QED
  BY <1>3, <1>5, <1>6

\* A move of the API's that the next frame sends, and the second half of a request
LEMMA RestKeeps ==
  ASSUME ServoIInv
  PROVE  /\ \A s \in Servos, us \in AbsMin - 1 .. AbsMax + 1 : MoveUs(s, us) => ServoIInv'
         /\ \A t \in ServoTasks : EnablePost(t) => ServoIInv'
<1>1. ASSUME NEW s \in Servos, NEW us \in AbsMin - 1 .. AbsMax + 1, MoveUs(s, us) PROVE ServoIInv'
  <2>1. ClampUs(us) \in Pulses
    BY ServoAssumption DEF ClampUs, Pulses
  <2>2. PICK ok \in Starts(s) : Move(s, ClampUs(us), ok)
    BY <1>1 DEF MoveUs
  <2>3. ok \in BOOLEAN
    BY DEF Starts
  <2>4. FramesGoOn /\ UNCHANGED <<saved, told, stale, overtaken, mixed>>
    BY <1>1, FramesStay DEF MoveUs
  <2> QED
    BY <2>1, <2>2, <2>3, <2>4, MoveKeeps
<1>2. ASSUME NEW t \in ServoTasks, EnablePost(t) PROVE ServoIInv'
  <2>1. frame[t].of \in Servos /\ frame[t].pc = "enable"
    BY <1>2, FrameFields DEF EnablePost, FrameOK
  <2>2. FramesGoOn
    BY <1>2, <2>1, FrameTo DEF EnablePost
  <2>3. Switch(frame[t].of, IF TRUE THEN Enabled(servo[frame[t].of]) ELSE Disabled(servo[frame[t].of]), TRUE)
    BY <1>2 DEF EnablePost
  <2> QED
    BY <2>1, <2>2, <2>3, SwitchesKeep
<1> QED
  BY <1>1, <1>2

\* What is typed, and where it meets the tick
LEMMA TypedKeeps ==
  ASSUME ServoIInv, NEW t \in ServoTasks, TypedMoves(t)
  PROVE  ServoIInv'
<1> DEFINE s == frame[t].of
<1>1. frame[t].pc \in {"move", "sweep"} /\ s \in Servos /\ frame[t].pc # "tell"
  <2>1. frame[t].pc \in {"move", "sweep"}
    BY DEF TypedMoves, MoveServo, MoveMeets, SweepServo
  <2> QED
    BY <2>1, FrameFields DEF FrameOK
<1>2. servo[s] \in ServoRecord /\ chan[s] \in ChanRecord /\ servo[s].value \in Pulses
  BY <1>1, ServoFields DEF ServoIInv, ServoTyped
<1>3. CASE MoveServo(t)
  <2>1. PICK to \in Pulses, ok \in Starts(s) : Move(s, to, ok)
    BY <1>3 DEF MoveServo, Pulses
  <2>2. ok \in BOOLEAN
    BY DEF Starts
  <2>3. FramesGoOn
    BY <1>1, <1>3, FrameTo DEF MoveServo
  <2>4. UNCHANGED <<saved, told, stale, overtaken, mixed>>
    BY <1>3 DEF MoveServo
  <2> HIDE DEF s
  <2> QED
    BY <1>1, <2>1, <2>2, <2>3, <2>4, MoveKeeps
<1>4. ASSUME NEW p \in 0 .. Full, NEW last \in BOOLEAN, SweepServo(t, p, last) PROVE ServoIInv'
  <2>1. PICK ok \in Starts(s) : Move(s, At(servo[s], p), ok)
    BY <1>4 DEF SweepServo
  <2>2. ok \in BOOLEAN /\ At(servo[s], p) \in Pulses
    BY <1>2, AtWithin DEF Starts
  <2>3. FramesGoOn
    <3>1. CASE last
      BY <1>1, <1>4, <3>1, FrameTo DEF SweepServo
    <3>2. CASE ~last
      BY <1>4, <3>2, FramesStay DEF SweepServo
    <3> QED
      BY <3>1, <3>2
  <2>4. UNCHANGED <<saved, told, stale, overtaken, mixed>>
    BY <1>4 DEF SweepServo
  <2> HIDE DEF s
  <2> QED
    BY <1>1, <2>1, <2>2, <2>3, <2>4, MoveKeeps
<1>5. CASE MoveMeets(t)
  <2>1. PICK moved, driven, released, on, changed \in BOOLEAN :
          \E to \in IF moved THEN AbsMin .. AbsMax ELSE {servo[s].value} :
            /\ Apply(s, [Moved(servo[s], to) EXCEPT !.driven = driven, !.released = released, !.changed = changed],
                     [chan[s] EXCEPT !.pulse = to, !.on = on])
            /\ frame' = IF moved /\ frame[t].pc = "move"
                        THEN [frame EXCEPT ![t] = [NoFrame EXCEPT !.pc = "update"]] ELSE frame
    BY <1>5 DEF MoveMeets
  <2>2. PICK to \in IF moved THEN AbsMin .. AbsMax ELSE {servo[s].value} :
            /\ Apply(s, [Moved(servo[s], to) EXCEPT !.driven = driven, !.released = released, !.changed = changed],
                     [chan[s] EXCEPT !.pulse = to, !.on = on])
            /\ frame' = IF moved /\ frame[t].pc = "move"
                        THEN [frame EXCEPT ![t] = [NoFrame EXCEPT !.pc = "update"]] ELSE frame
    BY <2>1
  <2>3. to \in Pulses /\ 0 \in 0 .. Settle
    BY <1>2, <2>2, RangesFit DEF Pulses
  <2> DEFINE v == [Moved(servo[s], to) EXCEPT !.driven = driven, !.released = released, !.changed = changed]
             c == [chan[s] EXCEPT !.pulse = to, !.on = on]
  <2>4. v \in ServoRecord /\ v.range = servo[s].range /\ v.value = to /\ ~v.hold
    <3> DEFINE x == Moved(servo[s], to)
    <3>1. x \in ServoRecord /\ x.range = servo[s].range /\ x.value = to /\ ~x.hold
      BY <1>2, <2>3 DEF Moved, ServoRecord
    <3> HIDE DEF x
    <3>2. [x EXCEPT !.driven = driven, !.released = released, !.changed = changed] \in ServoRecord
      BY <3>1 DEF ServoRecord
    <3> QED
      BY <3>1, <3>2 DEF x, ServoRecord
  <2>5. c \in ChanRecord /\ c.pulse = to
    BY <1>2, <2>3 DEF ChanRecord
  <2>6. FramesGoOn
    <3>1. CASE moved /\ frame[t].pc = "move"
      BY <1>1, <2>2, <3>1, FrameTo
    <3>2. CASE ~(moved /\ frame[t].pc = "move")
      BY <2>2, <3>2, FramesStay
    <3> QED
      BY <3>1, <3>2
  <2>7. limp' = limp \cup {s} /\ overtaken' = TRUE /\ UNCHANGED <<saved, told, stale, mixed>>
    BY <1>5 DEF MoveMeets
  <2>8. Apply(s, v, c)
    BY <2>2
  <2> HIDE DEF v, c, s
  <2>9. Commands(s, v, c)
    BY <2>4, <2>5, <2>7 DEF Commands, Driving
  <2> QED
    BY <1>1, <2>6, <2>7, <2>8, <2>9, ApplyKeeps
<1>6. Full \div 2 \in 0 .. Full
  BY ServoAssumption
<1> QED
  BY <1>3, <1>4, <1>5, <1>6 DEF TypedMoves

\* Plain PWM and the board's reset: the servos are not told, and the board is left to be written
LEMMA ChannelsKeep ==
  ASSUME ServoIInv, (\E s \in Board : SetDuty(s, 1) \/ ReleaseDuty(s)) \/ ResetBoard
  PROVE  ServoIInv'
<1>1. chan \in [Servos -> ChanRecord] /\ Board \subseteq Servos
  BY DEF ServoIInv, ServoTyped, Board
<1>2. UNCHANGED <<servo, saved, wire, frame, told, stale, overtaken, mixed>> /\ dirty' \in BOOLEAN
  BY DEF SetDuty, ReleaseDuty, ResetBoard, ServoIInv, ServoTyped
<1>3. /\ chan' \in [Servos -> ChanRecord] /\ DrivesOK'
      /\ \A s \in Servos : s \in Gpio \/ ~dirty' => (s \in Gpio \/ ~dirty) /\ chan'[s] = chan[s]
  <2>1. ASSUME NEW s \in Board, NEW c \in ChanRecord, chan' = [chan EXCEPT ![s] = c], limp' = limp,
               c.pulse = chan[s].pulse /\ (c.on <=> chan[s].on),
               dirty' \/ (~dirty /\ chan' = chan)
        PROVE  /\ chan' \in [Servos -> ChanRecord] /\ DrivesOK'
               /\ \A u \in Servos : u \in Gpio \/ ~dirty' => (u \in Gpio \/ ~dirty) /\ chan'[u] = chan[u]
    <3>1. \A u \in Servos : chan'[u] = IF u = s THEN c ELSE chan[u]
      BY <1>1, <2>1
    <3>2. DrivesOK'
      BY <1>2, <2>1, <3>1 DEF ServoIInv, DrivesOK, Driving
    <3>3. s \notin Gpio
      BY DEF Board
    <3> QED
      BY <1>1, <2>1, <3>1, <3>2, <3>3
  <2>2. ASSUME NEW s \in Board, SetDuty(s, 1)
        PROVE  \E c \in ChanRecord : /\ chan' = [chan EXCEPT ![s] = c] /\ c.pulse = chan[s].pulse
                                     /\ (c.on <=> chan[s].on) /\ (dirty' \/ (~dirty /\ chan' = chan))
    <3> DEFINE c == [[chan[s] EXCEPT !.pwm = TRUE] EXCEPT !.duty = 1]
    <3>1. c \in ChanRecord /\ c.pulse = chan[s].pulse /\ (c.on <=> chan[s].on)
      BY <1>1 DEF ChanRecord
    <3>2. chan' = [chan EXCEPT ![s].pwm = TRUE, ![s].duty = 1] /\ (dirty' <=> dirty \/ chan' # chan)
      BY <2>2 DEF SetDuty, ServoIInv, ServoTyped
    <3>3. chan' = [chan EXCEPT ![s] = c]
      <4> DEFINE x == [chan EXCEPT ![s] = [chan[s] EXCEPT !.pwm = TRUE]]
      <4>1. chan' = [x EXCEPT ![s] = [x[s] EXCEPT !.duty = 1]]
        BY <3>2
      <4>2. x[s] = [chan[s] EXCEPT !.pwm = TRUE] /\ DOMAIN x = Servos
        BY <1>1
      <4>3. chan' = [x EXCEPT ![s] = c]
        BY <4>1, <4>2
      <4> HIDE DEF c
      <4>4. [x EXCEPT ![s] = c] = [chan EXCEPT ![s] = c]
        BY <1>1
      <4> QED
        BY <4>3, <4>4
    <3> HIDE DEF c
    <3> QED
      BY <3>1, <3>2, <3>3
  <2>3. ASSUME NEW s \in Board, ReleaseDuty(s)
        PROVE  \E c \in ChanRecord : chan' = [chan EXCEPT ![s] = c] /\ c.pulse = chan[s].pulse /\ (c.on <=> chan[s].on)
    <3> DEFINE c == [[chan[s] EXCEPT !.pwm = FALSE] EXCEPT !.duty = 0]
    <3>1. c \in ChanRecord /\ c.pulse = chan[s].pulse /\ (c.on <=> chan[s].on)
      BY <1>1 DEF ChanRecord
    <3>2. chan' = [chan EXCEPT ![s].pwm = FALSE, ![s].duty = 0]
      BY <2>3 DEF ReleaseDuty
    <3>3. chan' = [chan EXCEPT ![s] = c]
      <4> DEFINE x == [chan EXCEPT ![s] = [chan[s] EXCEPT !.pwm = FALSE]]
      <4>1. chan' = [x EXCEPT ![s] = [x[s] EXCEPT !.duty = 0]]
        BY <3>2
      <4>2. x[s] = [chan[s] EXCEPT !.pwm = FALSE] /\ DOMAIN x = Servos
        BY <1>1
      <4>3. chan' = [x EXCEPT ![s] = c]
        BY <4>1, <4>2
      <4> HIDE DEF c
      <4>4. [x EXCEPT ![s] = c] = [chan EXCEPT ![s] = c]
        BY <1>1
      <4> QED
        BY <4>3, <4>4
    <3> HIDE DEF c
    <3> QED
      BY <3>1, <3>3
  <2>4. CASE \E s \in Board : SetDuty(s, 1) \/ ReleaseDuty(s)
    <3>1. PICK s \in Board : SetDuty(s, 1) \/ ReleaseDuty(s)
      BY <2>4
    <3>2. limp' = limp /\ (ReleaseDuty(s) => dirty')
      BY <3>1 DEF SetDuty, ReleaseDuty
    <3> QED
      BY <2>1, <2>2, <2>3, <3>1, <3>2
  <2>5. CASE ResetBoard
    <3>1. /\ chan' = [s \in Servos |-> IF s \in Board THEN [chan[s] EXCEPT !.on = FALSE, !.duty = 0] ELSE chan[s]]
          /\ dirty' /\ limp' = limp \cup {s \in Board : servo[s].driven}
      BY <2>5 DEF ResetBoard
    <3>2. \A s \in Servos : /\ chan'[s] \in ChanRecord /\ chan'[s].pulse = chan[s].pulse
                            /\ (chan'[s].on <=> chan[s].on /\ s \notin Board)
                            /\ (s \notin Board => chan'[s] = chan[s])
      BY <1>1, <3>1 DEF ChanRecord
    <3>3. DrivesOK'
      <4> SUFFICES ASSUME NEW s \in Servos PROVE Driving(servo'[s], chan'[s], s \in limp')
        BY DEF DrivesOK
      <4>1. Driving(servo[s], chan[s], s \in limp) /\ servo' = servo
        BY <1>2 DEF ServoIInv, DrivesOK
      <4> QED
        BY <3>1, <3>2, <4>1 DEF Driving
    <3> QED
      BY <3>1, <3>2, <3>3 DEF Board
  <2> QED
    BY <2>4, <2>5
<1>4. WiredOK'
  BY <1>2, <1>3 DEF ServoIInv, WiredOK
<1> QED
  BY <1>2, <1>3, <1>4 DEF ServoIInv, ServoTyped, FramesOK, ToldOK, RangesOK, Is

\* A servo after a frame
Framed(v) == [Ticked(v) EXCEPT !.changed = FALSE]

\* A servo the policy releases has changed, and its channel with it
LEMMA TickedOK ==
  ASSUME NEW s, NEW v \in ServoRecord, v = servo[s], NEW c \in ChanRecord, c = chan[s],
         NEW w, w = Framed(v), NEW d, d = TickedOutput(s)
  PROVE  /\ w \in ServoRecord /\ d \in ChanRecord /\ w.range = v.range /\ w.value = v.value /\ d.pulse = c.pulse
         /\ IF Releases(v) THEN ~w.driven /\ w.released /\ ~w.hold /\ ~d.on
                           ELSE (w.driven <=> v.driven) /\ (w.released <=> v.released) /\ (w.hold <=> v.hold)
                                /\ (d.on <=> c.on)
         /\ Is(w) = Is(Ticked(v)) /\ Ticked(v).driven \in BOOLEAN /\ Ticked(v).released \in BOOLEAN
         /\ ~w.changed /\ Ticked(v).changed \in BOOLEAN
         /\ ~Ticked(v).changed => Is(Ticked(v)) = Is(v) /\ ~v.changed
         /\ ~(v.driven /\ v.released) => ~(w.driven /\ w.released)
<1>1. Releases(v) \in BOOLEAN /\ (Releases(v) => v.driven /\ ~v.hold) /\ d = [c EXCEPT !.on = @ /\ ~Releases(v)]
  BY DEF Releases, TickedOutput
<1>2. CASE Releases(v)
  <2>1. Ticked(v) = [v EXCEPT !.driven = FALSE, !.released = TRUE, !.changed = TRUE]
    BY <1>2 DEF Ticked
  <2>2. /\ w \in ServoRecord /\ w.value = v.value /\ ~w.driven /\ w.released /\ ~w.hold /\ w.range = v.range
        /\ ~w.changed /\ Is(w) = Is(Ticked(v)) /\ Ticked(v).driven = FALSE /\ Ticked(v).released = TRUE
        /\ Ticked(v).changed = TRUE
    BY <1>1, <1>2, <2>1 DEF Framed, ServoRecord, Is
  <2>3. d \in ChanRecord /\ d.pulse = c.pulse /\ ~d.on
    BY <1>1, <1>2 DEF ChanRecord
  <2> QED
    BY <1>2, <2>2, <2>3
<1>3. CASE ~Releases(v)
  <2>1. Ticked(v) = v
    BY <1>3 DEF Ticked
  <2>2. /\ w \in ServoRecord /\ w.value = v.value /\ (w.driven <=> v.driven) /\ (w.released <=> v.released)
        /\ (w.hold <=> v.hold) /\ w.range = v.range
        /\ ~w.changed /\ Is(w) = Is(v)
    BY <2>1 DEF Framed, ServoRecord, Is
  <2>3. d \in ChanRecord /\ d.pulse = c.pulse /\ (d.on <=> c.on)
    BY <1>1, <1>3 DEF ChanRecord
  <2>4. v.driven \in BOOLEAN /\ v.released \in BOOLEAN /\ v.changed \in BOOLEAN
    BY ServoFields
  <2> QED
    BY <1>3, <2>1, <2>2, <2>3, <2>4
<1> QED
  BY <1>1, <1>2, <1>3

\* A frame: what changed is for its task to tell, and for nobody else who was not overtaken
LEMMA UpdateKeeps ==
  ASSUME ServoIInv, NEW t \in ServoTasks, Update(t)
  PROVE  ServoIInv'
<1> DEFINE after == [s \in Servos |-> Ticked(servo[s])]
           out == [s \in Servos |-> TickedOutput(s)]
           writes == dirty \/ \E s \in Board : Releases(servo[s])
           changes == {s \in Servos : after[s].changed}
<1>1. PICK E \in SUBSET changes, ok \in BOOLEAN :
        /\ frame' = [frame EXCEPT ![t] =
                       [pc |-> IF E = {} THEN Then(@) ELSE "tell", of |-> @.of,
                        events |-> {[of |-> s, out |-> <<after[s].driven, after[s].released>>] : s \in E}]]
        /\ servo' = [s \in Servos |-> [after[s] EXCEPT !.changed = FALSE]]
        /\ chan' = out /\ dirty' = FALSE
        /\ wire' = [s \in Servos |-> IF s \in Gpio \/ (writes /\ ok) THEN Output(out[s]) ELSE wire[s]]
        /\ stale' = IF writes THEN ~ok ELSE stale
        /\ overtaken' = (overtaken \/ E # changes \/ \E u \in ServoTasks \ {t} : \E e \in frame[u].events : e.of \in E)
        /\ UNCHANGED <<saved, told, limp, mixed>>
  BY DEF Update
<1> DEFINE reports == {[of |-> s, out |-> Is(Ticked(servo[s]))] : s \in E}
           f == [pc |-> IF E = {} THEN Then(frame[t]) ELSE "tell", of |-> frame[t].of, events |-> reports]
<1>2. /\ frame \in [ServoTasks -> FrameRecord] /\ frame[t] \in FrameRecord /\ frame[t].pc # "tell" /\ frame[t].events = {}
      /\ frame[t].of \in Servos \cup {NoServo}
  BY FrameFields DEF Update, Free, FrameOK, ServoIInv, ServoTyped
<1>3. ASSUME NEW s \in Servos
      PROVE  /\ servo[s] \in ServoRecord /\ chan[s] \in ChanRecord
             /\ servo'[s] \in ServoRecord /\ chan'[s] \in ChanRecord /\ Driving(servo'[s], chan'[s], s \in limp)
             /\ servo'[s].range = servo[s].range /\ Is(servo'[s]) = Is(Ticked(servo[s])) /\ ~servo'[s].changed
             /\ Is(Ticked(servo[s])) \in BOOLEAN \X BOOLEAN
             /\ s \notin changes => Is(Ticked(servo[s])) = Is(servo[s]) /\ ~servo[s].changed
             /\ ~(servo[s].driven /\ servo[s].released) => ~(servo'[s].driven /\ servo'[s].released)
             /\ chan'[s] = TickedOutput(s)
  <2>1. servo[s] \in ServoRecord /\ chan[s] \in ChanRecord /\ Driving(servo[s], chan[s], s \in limp)
    BY DEF ServoIInv, ServoTyped, DrivesOK
  <2>2. servo'[s] = Framed(servo[s]) /\ chan'[s] = TickedOutput(s)
    BY <1>1 DEF Framed
  <2>3. Driving(servo'[s], chan'[s], s \in limp)
    <3>1. /\ servo'[s].value = servo[s].value /\ chan'[s].pulse = chan[s].pulse
          /\ IF Releases(servo[s]) THEN ~servo'[s].driven /\ servo'[s].released /\ ~servo'[s].hold /\ ~chan'[s].on
             ELSE /\ (servo'[s].driven <=> servo[s].driven) /\ (servo'[s].released <=> servo[s].released)
                  /\ (servo'[s].hold <=> servo[s].hold) /\ (chan'[s].on <=> chan[s].on)
      BY <2>1, <2>2, TickedOK
    <3> QED
      BY <2>1, <3>1 DEF Driving
  <2>4. /\ servo'[s] \in ServoRecord /\ chan'[s] \in ChanRecord /\ servo'[s].range = servo[s].range
        /\ Is(servo'[s]) = Is(Ticked(servo[s])) /\ Ticked(servo[s]).driven \in BOOLEAN /\ Ticked(servo[s]).released \in BOOLEAN
        /\ ~servo'[s].changed
        /\ ~Ticked(servo[s]).changed => Is(Ticked(servo[s])) = Is(servo[s]) /\ ~servo[s].changed
        /\ ~(servo[s].driven /\ servo[s].released) => ~(servo'[s].driven /\ servo'[s].released)
    BY <2>1, <2>2, TickedOK
  <2>5. s \notin changes => ~Ticked(servo[s]).changed
    OBVIOUS
  <2>6. Is(Ticked(servo[s])) \in BOOLEAN \X BOOLEAN
    BY <2>4 DEF Is
  <2>7. s \notin changes => Is(Ticked(servo[s])) = Is(servo[s]) /\ ~servo[s].changed
    BY <2>4, <2>5
  <2> HIDE DEF changes
  <2> QED
    BY <2>1, <2>2, <2>3, <2>4, <2>6, <2>7
<1>4. frame' = [frame EXCEPT ![t] = f] /\ reports \subseteq Reports
  <2>1. {[of |-> s, out |-> <<after[s].driven, after[s].released>>] : s \in E} = reports
    BY DEF Is
  <2>2. frame' = [frame EXCEPT ![t] = f]
    BY <1>1, <2>1
  <2>3. \A s \in E : [of |-> s, out |-> Is(Ticked(servo[s]))] \in Reports
    <3>1. \A s \in E : s \in Servos /\ Is(Ticked(servo[s])) \in BOOLEAN \X BOOLEAN
      BY <1>3
    <3> QED
      BY <3>1 DEF Reports
  <2> QED
    BY <2>2, <2>3
<1>5. f \in FrameRecord /\ FrameOK(f)
  <2>1. Then(frame[t]) \in {"idle", "enable"} /\ (Then(frame[t]) = "enable" => frame[t].of \in Servos)
    BY <1>2 DEF Then
  <2>2. E = {} => reports = {}
    OBVIOUS
  <2> HIDE DEF reports
  <2> QED
    BY <1>2, <1>4, <2>1, <2>2 DEF FrameRecord, FrameOK
<1>6. \A u \in ServoTasks : frame'[u] = IF u = t THEN f ELSE frame[u]
  BY <1>2, <1>4
<1>7. ServoTyped'
  <2>1. frame' \in [ServoTasks -> FrameRecord]
    BY <1>2, <1>4, <1>5
  <2>2. servo' \in [Servos -> ServoRecord] /\ chan' \in [Servos -> ChanRecord]
    BY <1>1, <1>3
  <2>3. dirty' \in BOOLEAN /\ stale' \in BOOLEAN /\ overtaken' \in BOOLEAN
    BY <1>1 DEF ServoIInv, ServoTyped
  <2>4. wire' = [s \in Servos |-> wire'[s]] /\ DOMAIN wire' = Servos
    BY <1>1
  <2> HIDE DEF after, out, writes, changes
  <2> QED
    BY <1>1, <2>1, <2>2, <2>3, <2>4 DEF ServoIInv, ServoTyped
<1>13. f.events = reports
  OBVIOUS
<1> HIDE DEF f
<1>8. FramesOK'
  BY <1>5, <1>6 DEF ServoIInv, FramesOK
<1>9. DrivesOK'
  BY <1>1, <1>3 DEF DrivesOK
<1>10. WiredOK'
  <2> SUFFICES ASSUME NEW s \in Servos, s \in Gpio \/ ~stale' PROVE wire'[s] = Output(chan'[s])
    BY DEF WiredOK
  <2>1. wire'[s] = (IF s \in Gpio \/ (writes /\ ok) THEN Output(chan'[s]) ELSE wire[s])
    BY <1>1
  <2>2. CASE s \in Gpio \/ (writes /\ ok)
    BY <2>1, <2>2
  <2>3. CASE ~(s \in Gpio \/ (writes /\ ok))
    <3>1. ~writes /\ s \in Board /\ ~stale
      BY <1>1, <2>3 DEF Board
    <3>2. ~dirty /\ ~Releases(servo[s])
      BY <3>1
    <3>3. chan'[s] = [chan[s] EXCEPT !.on = @ /\ ~Releases(servo[s])] /\ chan[s] \in ChanRecord
      BY <1>3 DEF TickedOutput
    <3>4. chan'[s] = chan[s]
      <4>1. (chan[s].on /\ ~Releases(servo[s])) = chan[s].on
        BY <3>2, <3>3 DEF ChanRecord
      <4>2. chan'[s] = [chan[s] EXCEPT !.on = chan[s].on]
        BY <3>3, <4>1
      <4> QED
        BY <3>3, <4>2 DEF ChanRecord
    <3>5. wire[s] = Output(chan[s])
      BY <3>1, <3>2 DEF ServoIInv, WiredOK
    <3> QED
      BY <2>1, <2>3, <3>4, <3>5
  <2> QED
    BY <2>2, <2>3
<1>11. ToldOK'
  <2> SUFFICES ASSUME ~overtaken', NEW s \in Servos
               PROVE  /\ ~(servo'[s].driven /\ servo'[s].released)
                      /\ \A u \in ServoTasks : \A e \in frame'[u].events : e.of = s => e.out = Is(servo'[s])
                      /\ (\A u \in ServoTasks : \A e \in frame'[u].events : e.of # s) => told'[s] = Is(servo'[s])
    BY DEF ToldOK, Is
  <2>1. /\ ~overtaken /\ E = changes /\ \A u \in ServoTasks \ {t} : \A e \in frame[u].events : e.of \notin E
    BY <1>1
  <2>2. /\ ~(servo[s].driven /\ servo[s].released)
        /\ ~servo[s].changed =>
             /\ \A u \in ServoTasks : \A e \in frame[u].events : e.of = s => e.out = Is(servo[s])
             /\ (\A u \in ServoTasks : \A e \in frame[u].events : e.of # s) => told[s] = Is(servo[s])
    BY <2>1 DEF ServoIInv, ToldOK
  <2>3. frame'[t].events = reports /\ \A u \in ServoTasks \ {t} : frame'[u].events = frame[u].events
    BY <1>6, <1>13
  <2>4. Is(servo'[s]) = Is(Ticked(servo[s])) /\ ~(servo'[s].driven /\ servo'[s].released)
    BY <1>3, <2>2
  <2>5. CASE s \in E
    <3>1. \A e \in reports : e.of = s => e.out = Is(Ticked(servo[s]))
      OBVIOUS
    <3>2. [of |-> s, out |-> Is(Ticked(servo[s]))] \in reports
      BY <2>5
    <3> HIDE DEF reports
    <3>3. \A u \in ServoTasks \ {t} : \A e \in frame'[u].events : e.of # s
      BY <2>1, <2>3, <2>5
    <3>4. ~ \A u \in ServoTasks : \A e \in frame'[u].events : e.of # s
      BY <2>3, <3>2
    <3> QED
      BY <2>3, <2>4, <3>1, <3>3, <3>4
  <2>6. CASE s \notin E
    <3>1. Is(servo'[s]) = Is(servo[s]) /\ ~servo[s].changed
      BY <1>3, <2>1, <2>4, <2>6
    <3>2. \A e \in reports : e.of # s
      BY <2>6
    <3> HIDE DEF reports
    <3>3. told' = told
      BY <1>1
    <3> QED
      BY <1>2, <2>2, <2>3, <2>4, <3>1, <3>2, <3>3
  <2> QED
    BY <2>5, <2>6
<1>12. RangesOK'
  BY <1>1, <1>3 DEF ServoIInv, RangesOK
<1> QED
  BY <1>7, <1>8, <1>9, <1>10, <1>11, <1>12 DEF ServoIInv

\* The listener hears of a servo what it is, or what it was before it changed again
LEMMA TellKeeps ==
  ASSUME ServoIInv, NEW t \in ServoTasks, Tell(t)
  PROVE  ServoIInv'
<1>1. PICK e \in frame[t].events :
        /\ told' = [told EXCEPT ![e.of] = e.out]
        /\ frame' = [frame EXCEPT ![t].pc = IF frame[t].events = {e} THEN Then(frame[t]) ELSE "tell",
                                  ![t].events = @ \ {e}]
  BY DEF Tell
<1> DEFINE f == [pc |-> IF frame[t].events = {e} THEN Then(frame[t]) ELSE "tell",
                 events |-> frame[t].events \ {e}, of |-> frame[t].of]
<1>2. /\ frame \in [ServoTasks -> FrameRecord] /\ frame[t] \in FrameRecord /\ frame[t].events \subseteq Reports
      /\ frame[t].of \in Servos \cup {NoServo} /\ e \in Reports /\ e.of \in Servos
      /\ frame[t] = [pc |-> frame[t].pc, events |-> frame[t].events, of |-> frame[t].of]
  <2>1. frame \in [ServoTasks -> FrameRecord]
    BY DEF ServoIInv, ServoTyped
  <2> QED
    BY <2>1, FrameFields DEF Reports, FrameRecord
<1>3. frame' = [frame EXCEPT ![t] = f]
  <2> DEFINE n == IF frame[t].events = {e} THEN Then(frame[t]) ELSE "tell"
             g == [frame[t] EXCEPT !.pc = n]
             x == [frame EXCEPT ![t] = g]
  <2>1. frame' = [x EXCEPT ![t] = [x[t] EXCEPT !.events = @ \ {e}]]
    BY <1>1
  <2>2. x[t] = g /\ DOMAIN x = ServoTasks
    BY <1>2
  <2>3. [g EXCEPT !.events = @ \ {e}] = f
    <3>1. f = [pc |-> n, events |-> frame[t].events \ {e}, of |-> frame[t].of]
      OBVIOUS
    <3> HIDE DEF f, n
    <3>2. g = [pc |-> n, events |-> frame[t].events, of |-> frame[t].of]
      BY <1>2
    <3> HIDE DEF g
    <3> QED
      BY <3>1, <3>2
  <2>4. frame' = [x EXCEPT ![t] = f]
    BY <2>1, <2>2, <2>3
  <2> HIDE DEF f, g
  <2>5. [x EXCEPT ![t] = f] = [frame EXCEPT ![t] = f]
    BY <1>2
  <2> QED
    BY <2>4, <2>5
<1>4. f \in FrameRecord /\ FrameOK(f)
  <2>1. Then(frame[t]) \in {"idle", "enable"} /\ (Then(frame[t]) = "enable" => frame[t].of \in Servos)
    BY <1>2 DEF Then
  <2> QED
    BY <1>2, <2>1 DEF FrameRecord, FrameOK
<1>5. \A u \in ServoTasks : frame'[u] = IF u = t THEN f ELSE frame[u]
  BY <1>2, <1>3
<1>6. UNCHANGED <<servo, saved, chan, dirty, wire, limp, stale, overtaken, mixed>>
  BY DEF Tell
<1>7. ServoTyped' /\ FramesOK'
  <2>1. frame' \in [ServoTasks -> FrameRecord]
    BY <1>2, <1>3, <1>4
  <2>2. told' = [s \in Servos |-> told'[s]] /\ DOMAIN told' = Servos
    BY <1>1 DEF ServoIInv, ServoTyped
  <2> HIDE DEF f
  <2> QED
    BY <1>4, <1>5, <1>6, <2>1, <2>2 DEF ServoIInv, ServoTyped, FramesOK
<1>8. ToldOK'
  <2> SUFFICES ASSUME ~overtaken, NEW s \in Servos, ~servo[s].changed
               PROVE  /\ \A u \in ServoTasks : \A d \in frame'[u].events : d.of = s => d.out = Is(servo[s])
                      /\ (\A u \in ServoTasks : \A d \in frame'[u].events : d.of # s) => told'[s] = Is(servo[s])
    BY <1>6 DEF ToldOK, ServoIInv, Is
  <2>1. /\ \A u \in ServoTasks : \A d \in frame[u].events : d.of = s => d.out = Is(servo[s])
        /\ (\A u \in ServoTasks : \A d \in frame[u].events : d.of # s) => told[s] = Is(servo[s])
    BY DEF ServoIInv, ToldOK
  <2>2. \A u \in ServoTasks : /\ frame'[u].events \subseteq frame[u].events
                              /\ \A d \in frame[u].events : d \in frame'[u].events \/ d = e
    <3>1. f.events = frame[t].events \ {e}
      OBVIOUS
    <3> HIDE DEF f
    <3> QED
      BY <1>5, <3>1
  <2>3. CASE e.of = s
    <3>1. e.out = Is(servo[s])
      BY <2>1, <2>3
    <3>2. told'[s] = e.out
      BY <1>1, <2>3 DEF ServoIInv, ServoTyped
    <3> QED
      BY <2>1, <2>2, <3>1, <3>2
  <2>4. CASE e.of # s
    <3>1. told'[s] = told[s]
      BY <1>1, <2>4 DEF ServoIInv, ServoTyped
    <3> QED
      BY <2>1, <2>2, <2>4, <3>1
  <2> QED
    BY <2>3, <2>4
<1> QED
  BY <1>6, <1>7, <1>8 DEF ServoIInv, DrivesOK, WiredOK, RangesOK

LEMMA ElapseKeeps ==
  ASSUME ServoIInv, Elapse
  PROVE  ServoIInv'
<1>1. /\ servo' = [s \in Servos |-> [servo[s] EXCEPT !.age = IF @ < Settle THEN @ + 1 ELSE @]]
      /\ UNCHANGED <<saved, chan, dirty, wire, frame, told, limp, stale, overtaken, mixed>>
  BY DEF Elapse
<1>2. ASSUME NEW s \in Servos
      PROVE  /\ servo'[s] \in ServoRecord /\ servo'[s].value = servo[s].value /\ (servo'[s].driven <=> servo[s].driven)
             /\ (servo'[s].released <=> servo[s].released) /\ (servo'[s].hold <=> servo[s].hold)
             /\ (servo'[s].changed <=> servo[s].changed) /\ servo'[s].range = servo[s].range
             /\ Is(servo'[s]) = Is(servo[s])
  <2>1. servo[s] \in ServoRecord /\ Settle \in Nat
    BY ServoAssumption DEF ServoIInv, ServoTyped
  <2> DEFINE n == IF servo[s].age < Settle THEN servo[s].age + 1 ELSE servo[s].age
  <2>2. n \in 0 .. Settle
    BY <2>1, ServoFields
  <2>3. servo'[s] = [servo[s] EXCEPT !.age = n]
    BY <1>1
  <2> HIDE DEF n
  <2> QED
    BY <2>1, <2>2, <2>3 DEF ServoRecord, Is
<1>3. ServoTyped'
  <2>1. servo' \in [Servos -> ServoRecord]
    BY <1>1, <1>2
  <2> QED
    BY <1>1, <2>1 DEF ServoIInv, ServoTyped
<1>4. DrivesOK'
  BY <1>1, <1>2 DEF ServoIInv, DrivesOK, Driving
<1>5. ToldOK'
  <2> SUFFICES ASSUME ~overtaken, NEW s \in Servos
               PROVE  /\ ~(servo'[s].driven /\ servo'[s].released)
                      /\ ~servo'[s].changed =>
                           /\ \A t \in ServoTasks : \A e \in frame[t].events : e.of = s => e.out = Is(servo'[s])
                           /\ (\A t \in ServoTasks : \A e \in frame[t].events : e.of # s) => told[s] = Is(servo'[s])
    BY <1>1 DEF ToldOK, Is
  <2> QED
    BY <1>2 DEF ServoIInv, ToldOK
<1> QED
  BY <1>1, <1>2, <1>3, <1>4, <1>5 DEF ServoIInv, FramesOK, WiredOK, RangesOK

\* What is saved and cleared leaves a servo where it is
LEMMA ConfigKeeps ==
  ASSUME ServoIInv, NEW s \in Servos, NEW v \in ServoRecord, NEW keys \in KeyRecord,
         servo' = [servo EXCEPT ![s] = v], saved' = [saved EXCEPT ![s] = keys],
         v.value = servo[s].value, v.driven = servo[s].driven, v.released = servo[s].released,
         v.hold = servo[s].hold, v.changed = servo[s].changed,
         \A u \in Servos : u # s => (u \in mixed => u \in mixed'),
         s \notin mixed' => v.range \in Ranges \cup {Default} /\ (Whole(keys) => SavedRange(keys) \in Ranges),
         UNCHANGED <<chan, dirty, wire, frame, told, limp, stale, overtaken>>
  PROVE  ServoIInv'
<1>1. servo \in [Servos -> ServoRecord] /\ saved \in [Servos -> KeyRecord]
  BY DEF ServoIInv, ServoTyped
<1>2. \A u \in Servos : /\ servo'[u] = IF u = s THEN v ELSE servo[u]
                        /\ saved'[u] = IF u = s THEN keys ELSE saved[u]
  BY <1>1
<1>3. \A u \in Servos : /\ servo'[u].value = servo[u].value /\ servo'[u].driven = servo[u].driven
                        /\ servo'[u].released = servo[u].released /\ servo'[u].hold = servo[u].hold
                        /\ servo'[u].changed = servo[u].changed /\ Is(servo'[u]) = Is(servo[u])
  BY <1>2 DEF Is
<1>4. ServoTyped'
  BY <1>1 DEF ServoIInv, ServoTyped
<1>5. DrivesOK'
  BY <1>3 DEF ServoIInv, DrivesOK, Driving
<1>6. ToldOK'
  <2> SUFFICES ASSUME ~overtaken, NEW u \in Servos
               PROVE  /\ ~(servo'[u].driven /\ servo'[u].released)
                      /\ ~servo'[u].changed =>
                           /\ \A t \in ServoTasks : \A e \in frame[t].events : e.of = u => e.out = Is(servo'[u])
                           /\ (\A t \in ServoTasks : \A e \in frame[t].events : e.of # u) => told[u] = Is(servo'[u])
    BY DEF ToldOK, Is
  <2> QED
    BY <1>3 DEF ServoIInv, ToldOK
<1>7. RangesOK'
  <2> SUFFICES ASSUME NEW u \in Servos, u \notin mixed'
               PROVE  servo'[u].range \in Ranges \cup {Default} /\ (Whole(saved'[u]) => SavedRange(saved'[u]) \in Ranges)
    BY DEF RangesOK, Whole, SavedRange
  <2>1. CASE u = s
    BY <1>2, <2>1
  <2>2. CASE u # s
    BY <1>2, <2>2 DEF ServoIInv, RangesOK
  <2> QED
    BY <2>1, <2>2
<1> QED
  BY <1>4, <1>5, <1>6, <1>7 DEF ServoIInv, FramesOK, WiredOK

LEMMA SavesKeep ==
  ASSUME ServoIInv, NEW s \in Servos, NEW r \in Ranges, NEW k \in 0 .. 4, SetOpLimits(s, r, k)
  PROVE  ServoIInv'
<1> DEFINE keys == WrittenRange(saved[s], r, k)
           v == IF k = 4 THEN [[servo[s] EXCEPT !.range = r] EXCEPT !.calibrated = TRUE] ELSE servo[s]
<1>1. /\ servo \in [Servos -> ServoRecord] /\ servo[s] \in ServoRecord /\ saved[s] \in KeyRecord
      /\ r \in RangeRecord /\ r.min \in Pulses /\ r.max \in Pulses /\ r.invert \in BOOLEAN
      /\ r = [min |-> r.min, max |-> r.max, invert |-> r.invert]
  <2>1. servo \in [Servos -> ServoRecord] /\ servo[s] \in ServoRecord /\ saved[s] \in KeyRecord
    BY DEF ServoIInv, ServoTyped
  <2>2. r \in RangeRecord
    BY RangesFit
  <2> QED
    BY <2>1, <2>2 DEF RangeRecord
<1>2. /\ keys \in KeyRecord
      /\ keys.min = (IF k > 0 THEN r.min ELSE saved[s].min) /\ keys.max = (IF k > 1 THEN r.max ELSE saved[s].max)
      /\ keys.invert = (IF k > 2 THEN r.invert ELSE saved[s].invert)
  <2> DEFINE a == IF k > 0 THEN r.min ELSE saved[s].min
             b == IF k > 1 THEN r.max ELSE saved[s].max
             c == IF k > 2 THEN r.invert ELSE saved[s].invert
  <2>1. a \in Pulses \cup {Absent} /\ b \in Pulses \cup {Absent} /\ c \in BOOLEAN \cup {Absent}
    BY <1>1 DEF KeyRecord
  <2>2. keys = [[[saved[s] EXCEPT !.min = a] EXCEPT !.max = b] EXCEPT !.invert = c]
    BY DEF WrittenRange
  <2> HIDE DEF a, b, c, keys
  <2>3. keys \in KeyRecord /\ keys.min = a /\ keys.max = b /\ keys.invert = c
    BY <1>1, <2>1, <2>2 DEF KeyRecord
  <2> QED
    BY <2>3 DEF a, b, c
<1>3. /\ v \in ServoRecord /\ v.value = servo[s].value /\ v.driven = servo[s].driven
      /\ v.released = servo[s].released /\ v.hold = servo[s].hold /\ v.changed = servo[s].changed
      /\ v.range = (IF k = 4 THEN r ELSE servo[s].range)
  BY <1>1 DEF ServoRecord
<1>4. saved' = [saved EXCEPT ![s] = keys]
  BY DEF SetOpLimits
<1>5. servo' = [servo EXCEPT ![s] = v]
  <2>1. CASE k = 4
    <3> DEFINE x == [servo EXCEPT ![s] = [servo[s] EXCEPT !.range = r]]
    <3>1. servo' = [x EXCEPT ![s] = [x[s] EXCEPT !.calibrated = TRUE]]
      BY <2>1 DEF SetOpLimits
    <3>2. x[s] = [servo[s] EXCEPT !.range = r] /\ DOMAIN x = Servos
      BY <1>1
    <3>3. v = [[servo[s] EXCEPT !.range = r] EXCEPT !.calibrated = TRUE]
      BY <2>1
    <3>4. servo' = [x EXCEPT ![s] = v]
      BY <3>1, <3>2, <3>3
    <3> HIDE DEF v
    <3>5. [x EXCEPT ![s] = v] = [servo EXCEPT ![s] = v]
      BY <1>1
    <3> QED
      BY <3>4, <3>5
  <2>2. CASE k # 4
    BY <1>1, <2>2 DEF SetOpLimits
  <2> QED
    BY <2>1, <2>2
<1>6. \A u \in Servos : u # s => (u \in mixed => u \in mixed')
  BY DEF SetOpLimits
<1> HIDE DEF keys, v
<1>7. ASSUME s \notin mixed'
      PROVE  v.range \in Ranges \cup {Default} /\ (Whole(keys) => SavedRange(keys) \in Ranges)
  <2>1. CASE k = 4
    <3>1. SavedRange(keys) = r
      BY <1>1, <1>2, <2>1 DEF SavedRange
    <3> QED
      BY <1>3, <2>1, <3>1
  <2>2. CASE k # 4
    <3>1. s \notin mixed /\ (k \in {1, 2} => ~HasRange(saved[s]))
      BY <1>7, <2>2 DEF SetOpLimits
    <3>2. v.range \in Ranges \cup {Default} /\ (Whole(saved[s]) => SavedRange(saved[s]) \in Ranges)
      BY <1>3, <2>2, <3>1 DEF ServoIInv, RangesOK
    <3>3. CASE k = 3
      <4>1. SavedRange(keys) = r
        BY <1>1, <1>2, <3>3 DEF SavedRange
      <4> QED
        BY <3>2, <4>1
    <3>4. CASE k \in {1, 2}
      <4>1. keys.invert = Absent
        BY <1>2, <3>1, <3>4 DEF HasRange
      <4> QED
        BY <3>2, <4>1 DEF Whole
    <3>5. CASE k = 0
      BY <1>2, <3>2, <3>5 DEF Whole, SavedRange
    <3> QED
      BY <2>2, <3>3, <3>4, <3>5
  <2> QED
    BY <2>1, <2>2
<1>8. UNCHANGED <<chan, dirty, wire, frame, told, limp, stale, overtaken>>
  BY DEF SetOpLimits
<1> QED
  BY <1>2, <1>3, <1>4, <1>5, <1>6, <1>7, <1>8, ConfigKeeps

LEMMA ClearsKeep ==
  ASSUME ServoIInv, NEW s \in Servos, NEW k \in 0 .. 6, ClearOpLimits(s, k)
  PROVE  ServoIInv'
<1> DEFINE keys == [min |-> IF k > 0 THEN Absent ELSE saved[s].min, max |-> IF k > 1 THEN Absent ELSE saved[s].max,
                    invert |-> IF k > 2 THEN Absent ELSE saved[s].invert,
                    drive |-> IF k > 3 THEN Absent ELSE saved[s].drive,
                    settle |-> IF k > 4 THEN Absent ELSE saved[s].settle]
           cleared == [[[servo[s] EXCEPT !.range = Default] EXCEPT !.calibrated = FALSE] EXCEPT !.policy = HoldAll]
           v == IF k = 6 THEN cleared ELSE servo[s]
<1>1. servo \in [Servos -> ServoRecord] /\ servo[s] \in ServoRecord /\ saved[s] \in KeyRecord
  BY DEF ServoIInv, ServoTyped
<1>2. /\ keys \in KeyRecord
      /\ k > 0 => keys.min = Absent
      /\ k = 0 => keys.min = saved[s].min /\ keys.max = saved[s].max /\ keys.invert = saved[s].invert
  BY <1>1 DEF KeyRecord
<1>3. /\ v \in ServoRecord /\ v.value = servo[s].value /\ v.driven = servo[s].driven
      /\ v.released = servo[s].released /\ v.hold = servo[s].hold /\ v.changed = servo[s].changed
      /\ v.range = (IF k = 6 THEN Default ELSE servo[s].range)
  BY <1>1, RangesFit DEF ServoRecord
<1>4. saved' = [saved EXCEPT ![s] = keys]
  BY DEF ClearOpLimits
<1>5. servo' = [servo EXCEPT ![s] = v]
  <2>1. CASE k = 6
    <3> DEFINE x == [servo EXCEPT ![s] = [servo[s] EXCEPT !.range = Default]]
               y == [x EXCEPT ![s] = [x[s] EXCEPT !.calibrated = FALSE]]
    <3>1. servo' = [y EXCEPT ![s] = [y[s] EXCEPT !.policy = HoldAll]]
      BY <2>1 DEF ClearOpLimits
    <3>2. x[s] = [servo[s] EXCEPT !.range = Default] /\ DOMAIN x = Servos
      BY <1>1
    <3>3. y[s] = [x[s] EXCEPT !.calibrated = FALSE] /\ DOMAIN y = Servos
      BY <3>2
    <3>4. [y[s] EXCEPT !.policy = HoldAll] = v
      BY <2>1, <3>2, <3>3
    <3>5. servo' = [y EXCEPT ![s] = v]
      BY <3>1, <3>4
    <3> HIDE DEF v
    <3>6. [y EXCEPT ![s] = v] = [servo EXCEPT ![s] = v]
      BY <1>1
    <3> QED
      BY <3>5, <3>6
  <2>2. CASE k # 6
    BY <1>1, <2>2 DEF ClearOpLimits
  <2> QED
    BY <2>1, <2>2
<1>6. \A u \in Servos : u # s => (u \in mixed => u \in mixed')
  BY DEF ClearOpLimits
<1> HIDE DEF keys, v
<1>7. ASSUME s \notin mixed'
      PROVE  v.range \in Ranges \cup {Default} /\ (Whole(keys) => SavedRange(keys) \in Ranges)
  <2>1. k # 6 => s \notin mixed
    BY <1>7 DEF ClearOpLimits
  <2>2. k # 6 => servo[s].range \in Ranges \cup {Default} /\ (Whole(saved[s]) => SavedRange(saved[s]) \in Ranges)
    BY <2>1 DEF ServoIInv, RangesOK
  <2>3. CASE k = 0
    BY <1>2, <1>3, <2>2, <2>3 DEF Whole, SavedRange
  <2>4. CASE k > 0
    BY <1>2, <1>3, <2>2, <2>4 DEF Whole
  <2> QED
    BY <2>3, <2>4
<1>8. UNCHANGED <<chan, dirty, wire, frame, told, limp, stale, overtaken>>
  BY DEF ClearOpLimits
<1> QED
  BY <1>2, <1>3, <1>4, <1>5, <1>6, <1>7, <1>8, ConfigKeeps

LEMMA PoliciesKeep ==
  ASSUME ServoIInv, NEW s \in Servos, NEW p \in Policies, NEW k \in 0 .. 3, SetDrivePolicy(s, p, k)
  PROVE  ServoIInv'
<1> DEFINE drive == IF k > 0 THEN p ELSE saved[s].drive
           settle == IF k > 1 THEN Settle ELSE saved[s].settle
           keys == [[saved[s] EXCEPT !.drive = drive] EXCEPT !.settle = settle]
           v == IF k = 3 THEN [servo[s] EXCEPT !.policy = p] ELSE servo[s]
<1>1. /\ servo \in [Servos -> ServoRecord] /\ servo[s] \in ServoRecord /\ saved[s] \in KeyRecord
      /\ saved \in [Servos -> KeyRecord] /\ p \in PolicyRecord
  BY RangesFit DEF ServoIInv, ServoTyped
<1>2. drive \in PolicyRecord \cup {Absent} /\ settle \in {Settle, Absent}
  BY <1>1 DEF KeyRecord
<1>3. saved' = [saved EXCEPT ![s] = keys]
  <2> DEFINE x == [saved EXCEPT ![s] = [saved[s] EXCEPT !.drive = drive]]
  <2>1. saved' = [x EXCEPT ![s] = [x[s] EXCEPT !.settle = settle]]
    <3>1. x[s].settle = saved[s].settle
      BY <1>1 DEF KeyRecord
    <3>2. saved' = [x EXCEPT ![s] = [x[s] EXCEPT !.settle = IF k > 1 THEN Settle ELSE x[s].settle]]
      BY DEF SetDrivePolicy
    <3> QED
      BY <3>1, <3>2
  <2>2. x[s] = [saved[s] EXCEPT !.drive = drive] /\ DOMAIN x = Servos
    BY <1>1
  <2>3. saved' = [x EXCEPT ![s] = keys]
    BY <2>1, <2>2
  <2> HIDE DEF keys
  <2>4. [x EXCEPT ![s] = keys] = [saved EXCEPT ![s] = keys]
    BY <1>1
  <2> QED
    BY <2>3, <2>4
<1> HIDE DEF drive, settle
<1>4. /\ keys \in KeyRecord /\ keys.min = saved[s].min /\ keys.max = saved[s].max /\ keys.invert = saved[s].invert
  BY <1>1, <1>2 DEF KeyRecord
<1>5. /\ v \in ServoRecord /\ v.value = servo[s].value /\ v.driven = servo[s].driven
      /\ v.released = servo[s].released /\ v.hold = servo[s].hold /\ v.changed = servo[s].changed
      /\ v.range = servo[s].range
  BY <1>1 DEF ServoRecord
<1>6. servo' = [servo EXCEPT ![s] = v]
  BY <1>1 DEF SetDrivePolicy
<1> HIDE DEF keys, v
<1>7. s \notin mixed => v.range \in Ranges \cup {Default} /\ (Whole(keys) => SavedRange(keys) \in Ranges)
  BY <1>4, <1>5 DEF ServoIInv, RangesOK, Whole, SavedRange
<1>8. UNCHANGED <<chan, dirty, wire, frame, told, limp, stale, overtaken, mixed>>
  BY DEF SetDrivePolicy
<1> QED
  BY <1>3, <1>4, <1>5, <1>6, <1>7, <1>8, ConfigKeeps

\* After a restart, every servo is parked, and every pin is quiet
Fresh ==
    /\ saved \in [Servos -> KeyRecord] /\ servo = [s \in Servos |-> Parked(saved[s])]
    /\ chan = [s \in Servos |-> NoOutput] /\ dirty = TRUE /\ frame = [t \in ServoTasks |-> NoFrame]
    /\ told = [s \in Servos |-> <<FALSE, FALSE>>] /\ wire = [s \in Servos |-> wire[s]]
    /\ \A s \in Servos : s \in Gpio => wire[s] = Off
    /\ stale \in BOOLEAN /\ overtaken = FALSE
    /\ \A s \in Servos \ mixed : Whole(saved[s]) => SavedRange(saved[s]) \in Ranges

LEMMA FreshOK == Fresh => ServoIInv
<1> SUFFICES ASSUME Fresh PROVE ServoIInv
  OBVIOUS
<1>1. ASSUME NEW s \in Servos
      PROVE  /\ servo[s] \in ServoRecord /\ servo[s].value = Centre /\ ~servo[s].driven /\ ~servo[s].released
             /\ ~servo[s].hold /\ ~servo[s].changed
             /\ servo[s].range # Default => Whole(saved[s]) /\ servo[s].range = SavedRange(saved[s])
  BY ParkedOK DEF Fresh
<1>2. NoOutput \in ChanRecord /\ NoOutput.pulse = Centre /\ ~NoOutput.on /\ Output(NoOutput) = Off
  BY RangesFit DEF NoOutput, ChanRecord, Output
<1>3. NoFrame \in FrameRecord /\ FrameOK(NoFrame) /\ NoFrame.events = {}
  BY DEF NoFrame, FrameRecord, FrameOK
<1>4. ServoTyped
  BY <1>1, <1>2, <1>3 DEF Fresh, ServoTyped
<1>5. FramesOK
  BY <1>3 DEF Fresh, FramesOK
<1>6. DrivesOK
  BY <1>1, <1>2 DEF Fresh, DrivesOK, Driving
<1>7. WiredOK
  BY <1>2 DEF Fresh, WiredOK
<1>8. ToldOK
  <2>1. \A s \in Servos : Is(servo[s]) = <<FALSE, FALSE>>
    <3> SUFFICES ASSUME NEW s \in Servos PROVE Is(servo[s]) = <<FALSE, FALSE>>
      OBVIOUS
    <3>1. servo[s].driven = FALSE /\ servo[s].released = FALSE
      BY <1>1, ServoFields
    <3> QED
      BY <3>1 DEF Is
  <2> QED
    BY <1>1, <1>3, <2>1 DEF Fresh, ToldOK
<1>9. RangesOK
  BY <1>1 DEF Fresh, RangesOK
<1> QED
  BY <1>4, <1>5, <1>6, <1>7, <1>8, <1>9 DEF ServoIInv

LEMMA RebootKeeps ==
  ASSUME ServoIInv, Reboot
  PROVE  ServoIInv'
<1>1. Fresh'
  BY DEF Reboot, Fresh, ServoIInv, ServoTyped, RangesOK
<1> QED
  BY <1>1, FreshOK, PTL

LEMMA ServoInitIInv == ServoInit => ServoIInv
<1> SUFFICES ASSUME ServoInit PROVE ServoIInv
  OBVIOUS
<1>1. ASSUME NEW r \in Ranges, NEW p \in Policies
      PROVE  Keys(r, p) \in KeyRecord /\ SavedRange(Keys(r, p)) = r
  BY RangesFit DEF Keys, KeyRecord, SavedRange, RangeRecord
<1>2. NoKeys \in KeyRecord /\ ~Whole(NoKeys)
  BY DEF NoKeys, KeyRecord, Whole
<1>3. /\ saved \in [Servos -> KeyRecord]
      /\ \A s \in Servos : Whole(saved[s]) => SavedRange(saved[s]) \in Ranges
  <2>1. saved \in [Servos -> {NoKeys} \cup {Keys(r, p) : r \in Ranges, p \in Policies}]
    BY DEF ServoInit
  <2>2. ASSUME NEW s \in Servos PROVE saved[s] \in KeyRecord /\ (Whole(saved[s]) => SavedRange(saved[s]) \in Ranges)
    <3>1. CASE saved[s] = NoKeys
      BY <1>2, <3>1
    <3>2. CASE \E r \in Ranges, p \in Policies : saved[s] = Keys(r, p)
      BY <1>1, <3>2
    <3> QED
      BY <2>1, <3>1, <3>2
  <2> QED
    BY <2>1, <2>2
<1>4. Fresh
  BY <1>3 DEF ServoInit, Fresh
<1> QED
  BY <1>4, FreshOK

LEMMA ServoNextIInv == ServoIInv /\ ServoNext => ServoIInv'
<1> SUFFICES ASSUME ServoIInv, ServoNext PROVE ServoIInv'
  OBVIOUS
<1>1. CASE Drive(Servos)
  BY <1>1, TasksAre, CallersKeep, RestKeeps, TypedKeeps, ChannelsKeep, UpdateKeeps, TellKeeps, ElapseKeeps DEF Drive
<1>2. CASE Calibrate(Servos)
  BY <1>2, SavesKeep, ClearsKeep, PoliciesKeep
     DEF Calibrate, ConfigServo, CalibrationPut, CalibrationDelete, PolicyPut
<1> QED
  BY <1>1, <1>2, RebootKeeps DEF ServoNext

LEMMA ServoStill == ServoIInv /\ UNCHANGED servoVars => ServoIInv'
  BY DEF servoVars, ServoIInv, ServoTyped, FramesOK, DrivesOK, WiredOK, ToldOK, RangesOK, Whole, SavedRange, Is

\* What is explored of one part or another is what the servos may do
LEMMA PartsAreServos == Next => ServoNext \/ UNCHANGED servoVars
<1>1. Board \subseteq Servos /\ Gpio \subseteq Servos
  BY ServoAssumption DEF Board
<1>2. ASSUME NEW S \in SUBSET Servos, Drive(S) PROVE Drive(Servos)
  BY <1>2 DEF Drive
<1>3. Calibrate(Board) => Calibrate(Servos)
  BY <1>1 DEF Calibrate
<1> QED
  BY <1>1, <1>2, <1>3 DEF Next, ServoNext

LEMMA ServoAlways == Spec => []ServoIInv
<1>1. Init => ServoIInv
  BY ServoInitIInv DEF Init
<1>2. ServoIInv /\ [Next]_vars => ServoIInv'
  BY ServoNextIInv, ServoStill, PartsAreServos DEF vars
<1> QED
  BY <1>1, <1>2, PTL DEF Spec

\* Once a frame is out, and of a pin always, what a channel puts out is its servo's last command while
\* the servo says it is driven, and nothing otherwise (PCA9685ServoController.cpp:153).
THEOREM Follows == Spec => []WireFollows
<1>1. ServoIInv => WireFollows
  <2> SUFFICES ASSUME ServoIInv, NEW s \in Servos \ limp, s \in Gpio \/ (Settled /\ ~stale)
               PROVE  wire[s] = IF chan[s].pwm THEN <<"duty", chan[s].duty>>
                                ELSE IF servo[s].driven THEN <<"pulse", servo[s].value>> ELSE Off
    BY DEF WireFollows
  <2>1. wire[s] = Output(chan[s])
    BY DEF ServoIInv, WiredOK, Settled
  <2>2. (chan[s].on <=> servo[s].driven) /\ chan[s].pulse = servo[s].value
    BY DEF ServoIInv, DrivesOK, Driving
  <2> QED
    BY <2>1, <2>2 DEF Output
<1> QED
  BY <1>1, ServoAlways, PTL

\* The listener's last word on a servo is what it is, however many tasks tell of it with the lock let
\* go, but for one that was overtaken (ServoManager.cpp:78).
THEOREM Current == Spec => []ListenerIsCurrent
<1>1. ServoIInv => ListenerIsCurrent
  <2> SUFFICES ASSUME ServoIInv, Settled, ~overtaken, NEW s \in Servos
               PROVE  told[s] = <<servo[s].driven, servo[s].released>>
    BY DEF ListenerIsCurrent
  <2>1. \A t \in ServoTasks : frame[t].events = {}
    BY DEF ServoIInv, FramesOK, FrameOK, Settled, Free
  <2> QED
    BY <2>1 DEF ServoIInv, ToldOK, Settled, Is
<1> QED
  BY <1>1, ServoAlways, PTL

\* Whatever saves and clears failed midway, a servo works in a range that was asked for or in its
\* default, but for a save that failed over an older record (Servo.cpp:75).
THEOREM Ranged == Spec => []RangeIsWhole
<1>1. ServoIInv => RangeIsWhole
  BY DEF ServoIInv, RangesOK, RangeIsWhole
<1> QED
  BY <1>1, ServoAlways, PTL

\* A servo's pulse is within its limits, its channel's is the same, and one that is driven has its
\* output on.
THEOREM ServoInOrder == Spec => []ServoTypeOK
<1>1. ServoIInv => ServoTypeOK
  <2> SUFFICES ASSUME ServoIInv, NEW s \in Servos
               PROVE  /\ servo[s].value \in AbsMin .. AbsMax /\ servo[s].age \in 0 .. Settle
                      /\ (servo[s].driven /\ servo[s].released => s \in limp) /\ (servo[s].hold => servo[s].driven)
                      /\ chan[s].pulse = servo[s].value
                      /\ chan[s] \in [pulse : AbsMin .. AbsMax, on : BOOLEAN, pwm : BOOLEAN, duty : {0, 1}]
                      /\ servo[s].driven => chan[s].on \/ s \in limp
    BY DEF ServoTypeOK
  <2>1. servo[s] \in ServoRecord /\ chan[s] \in ChanRecord /\ Driving(servo[s], chan[s], s \in limp)
    BY DEF ServoIInv, ServoTyped, DrivesOK
  <2> QED
    BY <2>1, ServoFields DEF ChanRecord, Pulses, Driving
<1> QED
  BY <1>1, ServoAlways, PTL

\* All three parts keep to what they are made of, the bus's with its own theorem's invariant.
THEOREM MotionTyped == Spec => []TypeOK
<1>1. Init => IInv
  BY InitIInv DEF Init
<1>2. IInv /\ [Next]_vars => IInv'
  BY NextIInv DEF Next, vars
<1>3. IInv => I2cTypeOK
  BY DEF IInv
<1>4. Spec => []I2cTypeOK
  BY <1>1, <1>2, <1>3, PTL DEF Spec
<1>5. ServoTypeOK /\ RangeIsWhole /\ HoloTypeOK /\ I2cTypeOK => TypeOK
  BY DEF TypeOK
<1> QED
  BY <1>4, <1>5, ServoInOrder, Ranged, HoloTyped, PTL
=============================================================================
