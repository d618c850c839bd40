---------------------------- MODULE I2cBusGuard ----------------------------
(***************************************************************************)
(* i2c_bus_guard/i2c_bus_guard.c: a patch, from the outside, of ESP-IDF's  *)
(* I2C driver.  A read of the driver's that ends in a timeout leaves the   *)
(* bus's contains_read set, with the index and the length of the read; a   *)
(* probe's interrupt that finds it set copies what the FIFO holds through  *)
(* a pointer past the end of the probe's own list.                         *)
(*                                                                         *)
(* The patch wraps probes and every call that can read: each takes a mutex *)
(* of its bus, and a probe clears what was left before it probes.  Writes  *)
(* are not wrapped.  Below both is the driver's own lock of the bus.  The  *)
(* driver is modelled as the patch's comment describes it.                 *)
(***************************************************************************)
EXTENDS Integers

CONSTANTS
    I2cTasks,   \* the tasks that use a bus
    Patient,    \* those whose timeout is forever
    Ports,      \* SOC_I2C_NUM buses without a transaction queue
    NoTask      \* nobody

ASSUME I2cAssumption == Patient \subseteq I2cTasks /\ NoTask \notin I2cTasks /\ Ports # {}

VARIABLES
    guard,          \* s_guard: who holds each bus's mutex
    busLock,        \* bus_lock_mux: who holds the driver's lock
    containsRead,   \* contains_read, with which read_buf_pos and read_len_static are set
    i2c,            \* each task: what it does, to which bus, and where it is
    overrun         \* history: a probe's interrupt has written past the probe's list

i2cVars == <<guard, busLock, containsRead, i2c, overrun>>

NotCalling(b) == [op |-> "none", bus |-> b, at |-> "away"]

I2cInit ==
    /\ guard = [b \in Ports |-> NoTask]
    /\ busLock = [b \in Ports |-> NoTask]
    /\ containsRead = [b \in Ports |-> FALSE]
    /\ i2c = [t \in I2cTasks |-> NotCalling(CHOOSE b \in Ports : TRUE)]
    /\ overrun = FALSE

I2cAt(t, at) == i2c[t].at = at
BusOf(t) == i2c[t].bus
I2cGo(t, at) == i2c' = [i2c EXCEPT ![t].at = at]
I2cReturn(t) == i2c' = [i2c EXCEPT ![t] = NotCalling(BusOf(t))]

----------------------------------------------------------------------------
(* The wrappers. *)

Wrapped == {"probe", "read"}

\* A call of a probe or of one that can read waits for the guard; a write is the driver's at once
Request(t, op, b) ==
    /\ I2cAt(t, "away")
    /\ i2c' = [i2c EXCEPT ![t] = [op |-> op, bus |-> b, at |-> IF op \in Wrapped THEN "enter" ELSE "driver"]]
    /\ UNCHANGED <<guard, busLock, containsRead, overrun>>

\* guard_enter(): a probe looks at what was left, a read goes to the driver
EnterGuard(t) ==
    /\ I2cAt(t, "enter") /\ guard[BusOf(t)] = NoTask
    /\ guard' = [guard EXCEPT ![BusOf(t)] = t]
    /\ I2cGo(t, IF i2c[t].op = "probe" THEN "look" ELSE "driver")
    /\ UNCHANGED <<busLock, containsRead, overrun>>

\* ESP_ERR_TIMEOUT, and what is held is given back
GuardTimeOut(t) ==
    /\ t \notin Patient
    /\ I2cAt(t, "enter") \/ I2cAt(t, "clear")
    /\ guard' = IF I2cAt(t, "clear") THEN [guard EXCEPT ![BusOf(t)] = NoTask] ELSE guard
    /\ I2cReturn(t)
    /\ UNCHANGED <<busLock, containsRead, overrun>>

\* Mutant: the look alone, the clear left to whoever finds it in the way
LookOnly(t) ==
    /\ I2cAt(t, "look")
    /\ I2cGo(t, "driver")
    /\ UNCHANGED <<guard, busLock, containsRead, overrun>>

\* The look needs no lock: nobody that could set it is in the driver
LookForStale(t) ==
    /\ I2cAt(t, "look")
    /\ I2cGo(t, IF containsRead[BusOf(t)] THEN "clear" ELSE "driver")
    /\ UNCHANGED <<guard, busLock, containsRead, overrun>>

\* The clear is under the driver's lock, since a write may be in it
ClearStale(t) ==
    /\ I2cAt(t, "clear") /\ busLock[BusOf(t)] = NoTask
    /\ containsRead' = [containsRead EXCEPT ![BusOf(t)] = FALSE]
    /\ I2cGo(t, "driver")
    /\ UNCHANGED <<guard, busLock, overrun>>

\* The driver has returned
LeaveGuard(t) ==
    /\ I2cAt(t, "leave")
    /\ guard' = IF i2c[t].op \in Wrapped THEN [guard EXCEPT ![BusOf(t)] = NoTask] ELSE guard
    /\ I2cReturn(t)
    /\ UNCHANGED <<busLock, containsRead, overrun>>

----------------------------------------------------------------------------
(* The driver. *)

\* Its own lock: a read sets contains_read for what it has in hand
TakeBus(t) ==
    /\ I2cAt(t, "driver") /\ busLock[BusOf(t)] = NoTask
    /\ busLock' = [busLock EXCEPT ![BusOf(t)] = t]
    /\ containsRead' = IF i2c[t].op = "read" THEN [containsRead EXCEPT ![BusOf(t)] = TRUE] ELSE containsRead
    /\ I2cGo(t, "wire")
    /\ UNCHANGED <<guard, overrun>>

BusTimeOut(t) ==
    /\ t \notin Patient /\ I2cAt(t, "driver")
    /\ I2cGo(t, "leave")
    /\ UNCHANGED <<guard, busLock, containsRead, overrun>>

\* The transaction's interrupt: done, and what a read left is used up, or a timeout, and it stays
Interrupt(t, done) ==
    /\ I2cAt(t, "wire")
    /\ containsRead' = IF done THEN [containsRead EXCEPT ![BusOf(t)] = FALSE] ELSE containsRead
    /\ overrun' = (overrun \/ (done /\ i2c[t].op = "probe" /\ containsRead[BusOf(t)]))
    /\ busLock' = [busLock EXCEPT ![BusOf(t)] = NoTask]
    /\ I2cGo(t, "leave")
    /\ UNCHANGED guard

----------------------------------------------------------------------------

I2cStep(t) ==
    \/ EnterGuard(t) \/ GuardTimeOut(t) \/ LookForStale(t) \/ ClearStale(t) \/ LeaveGuard(t)
    \/ TakeBus(t) \/ BusTimeOut(t)
    \/ \E done \in BOOLEAN : Interrupt(t, done)

I2cNext ==
    \E t \in I2cTasks : I2cStep(t) \/ \E op \in {"probe", "read", "write"}, b \in Ports : Request(t, op, b)

I2cSpec == I2cInit /\ [][I2cNext]_i2cVars

----------------------------------------------------------------------------
(* What is promised. *)

I2cTypeOK ==
    /\ guard \in [Ports -> I2cTasks \cup {NoTask}]
    /\ busLock \in [Ports -> I2cTasks \cup {NoTask}]
    /\ containsRead \in [Ports -> BOOLEAN]
    /\ i2c \in [I2cTasks -> [op : {"none", "probe", "read", "write"}, bus : Ports,
                             at : {"away", "enter", "look", "clear", "driver", "wire", "leave"}]]
    /\ overrun \in BOOLEAN

\* i2c_bus_guard.c:26-32: whatever reads failed before, and whoever reads, writes and probes the
\* same bus meanwhile, no probe is on the wire of a bus that still has a read's state, so that none
\* writes past its list; and nobody waits for a bus whose mutex was not given back.
ProbeIsAlone ==
    /\ ~overrun
    /\ \A t \in I2cTasks : I2cAt(t, "wire") /\ i2c[t].op = "probe" => ~containsRead[BusOf(t)]
    /\ \A b \in Ports : guard[b] # NoTask =>
          BusOf(guard[b]) = b /\ i2c[guard[b]].op \in Wrapped /\ i2c[guard[b]].at \notin {"away", "enter"}
=============================================================================
