------------------------- MODULE I2cBusGuardProofs -------------------------
(* Theorems of I2cBusGuard, for any tasks and buses. *)
EXTENDS I2cBusGuard, TLAPS

Inside == {"look", "clear", "driver", "wire", "leave"}

\* A bus's mutex is with the one that is inside a wrapper of it, and its lock with the one on it
Held ==
    \A t \in I2cTasks, b \in Ports :
        guard[b] = t <=> BusOf(t) = b /\ i2c[t].op \in Wrapped /\ i2c[t].at \in Inside

Asked == \A t \in I2cTasks : i2c[t].at \in {"enter", "look", "clear"} => i2c[t].op \in Wrapped

\* From its look on, a probe's bus has nothing left of a read
Clean ==
    \A t \in I2cTasks :
        i2c[t].op = "probe" /\ i2c[t].at \in {"driver", "wire"} => ~containsRead[BusOf(t)]

IInv == I2cTypeOK /\ Held /\ Asked /\ Clean /\ ~overrun

LEMMA InitIInv == I2cInit => IInv
<1> SUFFICES ASSUME I2cInit PROVE IInv
  OBVIOUS
<1>0. (CHOOSE b \in Ports : TRUE) \in Ports
  BY I2cAssumption
<1>1. PICK b \in Ports : i2c = [t \in I2cTasks |-> NotCalling(b)]
  BY <1>0 DEF I2cInit
<1>2. I2cTypeOK
  <2>1. i2c \in [I2cTasks -> [op : {"none", "probe", "read", "write"}, bus : Ports,
                             at : {"away", "enter", "look", "clear", "driver", "wire", "leave"}]]
    BY <1>1 DEF NotCalling
  <2>2. QED
    BY <2>1 DEF I2cInit, I2cTypeOK
<1>3. \A t \in I2cTasks : i2c[t] = [op |-> "none", bus |-> b, at |-> "away"]
  BY <1>1 DEF NotCalling
<1>4. Held
  BY <1>3, I2cAssumption DEF I2cInit, Held, Wrapped
<1>5. Asked /\ Clean
  BY <1>3 DEF Asked, Clean
<1>6. QED
  BY <1>2, <1>4, <1>5 DEF I2cInit, IInv

\* A step of a wrapper or of the driver keeps the invariant
LEMMA StepIInv ==
  ASSUME IInv, NEW t \in I2cTasks, I2cStep(t)
  PROVE  IInv'
<1> USE I2cAssumption DEF IInv, I2cTypeOK, I2cAt, BusOf, I2cGo, I2cReturn, NotCalling, Wrapped, Inside
<1>1. CASE EnterGuard(t)
  <2>1. \A b \in Ports : guard'[b] = IF b = BusOf(t) THEN t ELSE guard[b]
    BY <1>1 DEF EnterGuard
  <2>2. \A u \in I2cTasks : u # t => i2c'[u] = i2c[u]
    BY <1>1 DEF EnterGuard
  <2>3. BusOf(t)' = BusOf(t) /\ i2c'[t].op = i2c[t].op /\ i2c'[t].at \in {"look", "driver"}
    BY <1>1 DEF EnterGuard
  <2>4. i2c[t].op \in Wrapped
    BY <1>1 DEF EnterGuard, Asked
  <2>5. \A u \in I2cTasks : guard[BusOf(t)] # u
    BY <1>1 DEF EnterGuard
  <2>6. Held'
    BY <2>1, <2>2, <2>3, <2>4, <2>5 DEF Held
  <2>7. I2cTypeOK'
    BY <1>1 DEF EnterGuard
  <2>8. Asked'
    BY <2>2, <2>3, <2>4 DEF Asked
  <2>9. Clean'
    BY <1>1 DEF EnterGuard, Clean
  <2>10. QED
    BY <1>1, <2>6, <2>7, <2>8, <2>9 DEF EnterGuard
<1>2. CASE GuardTimeOut(t)
  BY <1>2 DEF GuardTimeOut, Held, Asked, Clean
<1>3. CASE LookForStale(t)
  BY <1>3 DEF LookForStale, Held, Asked, Clean
<1>4. CASE ClearStale(t)
  BY <1>4 DEF ClearStale, Held, Asked, Clean
<1>5. CASE LeaveGuard(t)
  BY <1>5 DEF LeaveGuard, Held, Asked, Clean
<1>6. CASE TakeBus(t)
  BY <1>6 DEF TakeBus, Held, Asked, Clean
<1>7. CASE BusTimeOut(t)
  BY <1>7 DEF BusTimeOut, Held, Asked, Clean
<1>8. ASSUME NEW done \in BOOLEAN, Interrupt(t, done)
      PROVE  IInv'
  BY <1>8 DEF Interrupt, Held, Asked, Clean
<1>9. QED
  BY <1>1, <1>2, <1>3, <1>4, <1>5, <1>6, <1>7, <1>8 DEF I2cStep

LEMMA CallIInv ==
  ASSUME IInv, NEW t \in I2cTasks, NEW op \in {"probe", "read", "write"}, NEW b \in Ports, Request(t, op, b)
  PROVE  IInv'
  BY DEF Request, IInv, I2cTypeOK, Held, Asked, Clean, I2cAt, BusOf, Wrapped, Inside

LEMMA NextIInv == IInv /\ [I2cNext]_i2cVars => IInv'
<1> SUFFICES ASSUME IInv, [I2cNext]_i2cVars PROVE IInv'
  OBVIOUS
<1>1. CASE I2cNext
  BY <1>1, StepIInv, CallIInv DEF I2cNext
<1>2. CASE UNCHANGED i2cVars
  BY <1>2 DEF i2cVars, IInv, I2cTypeOK, Held, Asked, Clean, BusOf
<1>3. QED
  BY <1>1, <1>2

\* In every reachable state a bus's mutex is with the one call that is inside its wrapper, and a
\* probe past its look finds nothing of a read (i2c_bus_guard.c:151-176, 196-209).
THEOREM Guarded == I2cSpec => []IInv
  BY InitIInv, NextIInv, PTL DEF I2cSpec

\* Every reachable state has its types (the buses, the locks and the tasks of i2c_bus_guard.c).
THEOREM Typed == I2cSpec => []I2cTypeOK
<1>1. IInv => I2cTypeOK
  BY DEF IInv
<1>2. QED
  BY <1>1, Guarded, PTL

LEMMA CleanIsAlone == IInv => ProbeIsAlone
<1> SUFFICES ASSUME IInv PROVE ProbeIsAlone
  OBVIOUS
<1>1. \A t \in I2cTasks : I2cAt(t, "wire") /\ i2c[t].op = "probe" => ~containsRead[BusOf(t)]
  BY DEF IInv, Clean, I2cAt
<1>2. ASSUME NEW b \in Ports, guard[b] # NoTask
      PROVE  BusOf(guard[b]) = b /\ i2c[guard[b]].op \in Wrapped /\ i2c[guard[b]].at \notin {"away", "enter"}
  <2>1. guard[b] \in I2cTasks
    BY <1>2 DEF IInv, I2cTypeOK
  <2>2. QED
    BY <2>1 DEF IInv, Held, Inside
<1>3. QED
  BY <1>1, <1>2 DEF ProbeIsAlone, IInv

\* i2c_bus_guard.c:26-32: for any tasks, timeouts and buses, no probe is on a bus with a read's state
\* left on it, and none has ever written past its list.
THEOREM Alone == I2cSpec => []ProbeIsAlone
  BY CleanIsAlone, Guarded, PTL
=============================================================================
