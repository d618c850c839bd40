------------------------------- MODULE Xmodem -------------------------------
(***************************************************************************)
(* XMODEM, both directions (cmd_fs/xmodem.c): a sender and a receiver on a *)
(* line that loses and garbles.  A line is a sequence of what the other    *)
(* end reads at once: a whole block, or one byte.  The bytes of a block    *)
(* are its place in the file; a CRC holds or does not.  The clock is left  *)
(* out: a wait may time out whenever there is nothing to read, so an       *)
(* answer may come after its timeout (a sink that erases flash is slow),   *)
(* MaxLate times in all.                                                   *)
(***************************************************************************)
EXTENDS Integers, Sequences

CONSTANTS
    MaxBlocks,      \* bound on a file's blocks
    NumMod,         \* 256: block numbers go round
    MaxErrors,      \* MAX_ERRORS
    MaxFaults,      \* bound on what the line does
    MaxPolls,       \* bound on the 'C's of a minute (START_TIMEOUT_MS / POLL_MS)
    MaxLate         \* bound on the waits that end while what they wait for is under way

ASSUME BoundsAssumption ==
    /\ MaxBlocks \in Nat /\ MaxErrors \in Nat /\ MaxFaults \in Nat /\ MaxPolls \in Nat \ {0}
    /\ MaxLate \in Nat /\ NumMod \in Nat

\* Each 'C' and each late answer lets the sender run ahead by a block: 60 of 256 are the 'C's
ASSUME NumberAssumption == NumMod > MaxPolls + MaxLate + 1

VARIABLES
    file,       \* the sender's blocks
    expect,     \* expected_size, in blocks: 0 unknown
    spc,        \* where the sender is
    at,         \* the block it sends; past the last, the end of transfer
    attempt,    \* of that one
    rpc,        \* where the receiver is
    expected,   \* the number of the block it expects
    held,       \* the block it holds back, 0 for none
    delivered,  \* the blocks handed to its sink
    errors,     \* in a row
    polls,      \* the 'C's sent
    toR, toS,   \* the lines
    faults,     \* what the lines have done so far
    late,       \* the waits that ended too early so far
    acked       \* history: the blocks the receiver has acknowledged

sender == <<spc, at, attempt>>
receiver == <<rpc, expected, held, delivered, errors, polls, acked>>
vars == <<file, expect, sender, receiver, toR, toS, faults, late>>

Byte(c) == [is |-> c, block |-> 0, good |-> TRUE]
Block(i) == [is |-> "block", block |-> i, good |-> TRUE]
CanCan == <<Byte("CAN"), Byte("CAN"), Byte("CAN")>>

Num(i) == i % NumMod

Init ==
    /\ file \in 0 .. MaxBlocks /\ expect \in 0 .. MaxBlocks
    /\ spc = "starting" /\ at = 0 /\ attempt = 0
    /\ rpc = "polling" /\ expected = Num(1) /\ held = 0 /\ delivered = <<>>
    /\ errors = 0 /\ polls = 0 /\ acked = {}
    /\ toR = <<>> /\ toS = <<>> /\ faults = 0 /\ late = 0

----------------------------------------------------------------------------
(* The sender, xmodem_send(). *)

SDone == {"ok", "failed", "cancelled"}
Receiving == {"polling", "header", "retry", "canned"}

\* The next block, if the source has one, or the end of transfer.  Its first attempt is 0.
Send(i) ==
    /\ at' = i /\ attempt' = 0
    /\ \/ /\ toR' = Append(toR, IF i > file THEN Byte("EOT") ELSE Block(i))
          /\ spc' = "waiting"
       \/ /\ i <= file          \* the source fails
          /\ toR' = toR \o CanCan
          /\ spc' = "failed"

\* Mutant: one attempt too many
RetryOver ==
    /\ at' = at
    /\ IF attempt <= MaxErrors
       THEN /\ attempt' = attempt + 1
            /\ toR' = Append(toR, IF at > file THEN Byte("EOT") ELSE Block(at))
            /\ spc' = "waiting"
       ELSE /\ attempt' = attempt
            /\ toR' = toR \o CanCan
            /\ spc' = "failed"

\* The same again, as long as there are attempts
Retry ==
    /\ at' = at
    /\ IF attempt < MaxErrors
       THEN /\ attempt' = attempt + 1
            /\ toR' = Append(toR, IF at > file THEN Byte("EOT") ELSE Block(at))
            /\ spc' = "waiting"
       ELSE /\ attempt' = attempt
            /\ toR' = toR \o CanCan
            /\ spc' = "failed"

\* One byte read.  A CAN counts when the next byte is one too, and takes that byte along when it
\* is not; after an EOT it counts at once.
SRead ==
    /\ spc \notin SDone /\ toS # <<>>
    /\ toS' = Tail(toS)
    /\ LET c == Head(toS).is
           Go(where) == spc' = where /\ UNCHANGED <<at, attempt, toR>>
       IN  \/ spc = "starting" /\ c = "C" /\ Send(1)
           \/ spc = "starting" /\ c # "C" /\ Go(IF c = "CAN" THEN "startCan" ELSE spc)
           \/ spc = "startCan" /\ Go(IF c = "CAN" THEN "cancelled" ELSE "starting")
           \/ spc = "waiting" /\ c = "ACK" /\ at <= file /\ Send(at + 1)
           \/ spc = "waiting" /\ c = "ACK" /\ at > file /\ Go("ok")
           \/ spc = "waiting" /\ c = "NAK" /\ Retry
           \/ spc = "waiting" /\ c = "CAN" /\ Go(IF at > file THEN "cancelled" ELSE "waitCan")
           \/ spc = "waiting" /\ c \notin {"ACK", "NAK", "CAN"} /\ Go(spc)
           \/ spc = "waitCan" /\ c = "CAN" /\ Go("cancelled")
           \/ spc = "waitCan" /\ c # "CAN" /\ Retry
    /\ UNCHANGED <<file, expect, receiver, faults, late>>

\* Mutant: the wait for an answer has no end
NoReplyWaits == spc \in {"waiting", "waitCan"} /\ UNCHANGED <<spc, at, attempt, toR>>

NoReply == spc \in {"waiting", "waitCan"} /\ Retry

\* Whether what a wait that ends waits for was coming
Late(coming) ==
    /\ coming => late < MaxLate
    /\ late' = IF coming THEN late + 1 ELSE late

\* Nothing to read in time
STimeout ==
    /\ toS = <<>>
    /\ \/ /\ spc = "starting" /\ spc' = "failed" /\ toR' = toR \o CanCan
          /\ UNCHANGED <<at, attempt>>
       \/ spc = "startCan" /\ spc' = "starting" /\ UNCHANGED <<at, attempt, toR>>
       \/ NoReply
    /\ Late(spc \in {"waiting", "waitCan"} /\ rpc \in Receiving /\ toR # <<>>)
    /\ UNCHANGED <<file, expect, receiver, toS, faults>>

----------------------------------------------------------------------------
(* The receiver, xmodem_receive(). *)

RDone == {"ok", "failed", "cancelled"}

Reply(c) == toS' = Append(toS, Byte(c))

\* `goto cancel`
Cancel ==
    /\ rpc' = "failed"
    /\ toS' = toS \o CanCan

Poll ==
    /\ rpc = "polling" /\ polls < MaxPolls /\ toR = <<>>
    /\ polls' = polls + 1
    /\ Reply("C")
    /\ UNCHANGED <<file, expect, sender, rpc, expected, held, delivered, errors, acked, toR, faults, late>>

\* deliver(): never more than was announced
Kept == IF held = 0 \/ (expect # 0 /\ Len(delivered) >= expect)
        THEN delivered ELSE Append(delivered, held)

\* Whether deliver() calls the sink, which may fail
Sinks == Kept # delivered

\* Mutant: `expected` stays where it is
NewBlockAgain(i, sunk) ==
    /\ acked' = acked \cup {i}
    /\ Reply("ACK")
    /\ delivered' = Kept
    /\ held' = i
    /\ errors' = 0
    /\ rpc' = "header"
    /\ UNCHANGED expected

\* A block is acknowledged first, and the one before it is handed over then.  `sunk`: the sink
\* takes what it is given.
NewBlock(i, sunk) ==
    /\ acked' = acked \cup {i}
    /\ IF Sinks /\ ~sunk
       THEN /\ rpc' = "failed"
            /\ toS' = Append(toS, Byte("ACK")) \o CanCan
            /\ UNCHANGED <<expected, held, delivered, errors>>
       ELSE /\ Reply("ACK")
            /\ delivered' = Kept
            /\ held' = i
            /\ expected' = (expected + 1) % NumMod
            /\ errors' = 0
            /\ rpc' = "header"

\* Mutant: the block held back is forgotten
EndOfTransferDrops(sunk) ==
    /\ held' = 0
    /\ Reply("ACK")
    /\ rpc' = "lingering"
    /\ UNCHANGED <<expected, errors, acked, delivered>>

EndOfTransfer(sunk) ==
    IF Sinks /\ ~sunk
    THEN Cancel /\ UNCHANGED <<expected, held, delivered, errors, acked>>
    ELSE /\ delivered' = Kept
         /\ held' = 0
         /\ Reply("ACK")
         /\ rpc' = "lingering"
         /\ UNCHANGED <<expected, errors, acked>>

\* A bad block is waited out, all that is on its way with it, and asked for again
BadBlock ==
    IF errors < MaxErrors
    THEN /\ errors' = errors + 1
         /\ Reply("NAK")
         /\ rpc' = "header"
         /\ toR' = <<>>
         /\ UNCHANGED <<expected, held, delivered, acked>>
    ELSE /\ Cancel
         /\ errors' = errors + 1
         /\ toR' = Tail(toR)
         /\ UNCHANGED <<expected, held, delivered, acked>>

\* What is read where a header belongs
Header(c, sunk) ==
    \/ c.is = "block" /\ c.good /\ Num(c.block) = expected
       /\ NewBlock(c.block, sunk) /\ toR' = Tail(toR)
    \/ /\ c.is = "block" /\ c.good /\ Num(c.block) = (expected - 1) % NumMod /\ NumMod > 1
       /\ Reply("ACK") /\ rpc' = "header" /\ toR' = Tail(toR)
       /\ UNCHANGED <<expected, held, delivered, errors, acked>>
    \/ /\ c.is = "block" /\ c.good /\ Num(c.block) \notin {expected, (expected - 1) % NumMod}
       /\ Cancel /\ toR' = Tail(toR)
       /\ UNCHANGED <<expected, held, delivered, errors, acked>>
    \/ c.is = "block" /\ ~c.good /\ BadBlock
    \/ c.is = "EOT" /\ EndOfTransfer(sunk) /\ toR' = Tail(toR)
    \/ /\ c.is = "CAN" /\ rpc' = "canned" /\ toR' = Tail(toR)
       /\ UNCHANGED <<expected, held, delivered, errors, acked, toS>>

\* Noise is skipped, up to MAX_NOISE bytes of it
Noise ==
    /\ \/ rpc' = "header" /\ UNCHANGED toS
       \/ Cancel
    /\ toR' = Tail(toR)
    /\ UNCHANGED <<expected, held, delivered, errors, acked>>

RRead ==
    /\ rpc \in Receiving /\ toR # <<>>
    /\ LET c == Head(toR)
       IN  \/ rpc # "canned" /\ c.is # "noise" /\ \E sunk \in BOOLEAN : Header(c, sunk)
           \/ /\ rpc = "canned" /\ c.is \notin {"CAN", "noise"}
              /\ \E sunk \in BOOLEAN : Header(c, sunk)
           \/ /\ rpc = "canned" /\ c.is = "CAN"
              /\ rpc' = "cancelled" /\ toR' = Tail(toR)
              /\ UNCHANGED <<expected, held, delivered, errors, acked, toS>>
           \/ rpc # "polling" /\ c.is = "noise" /\ Noise
           \/ /\ rpc = "polling" /\ c.is = "noise" /\ toR' = Tail(toR)
              /\ UNCHANGED <<rpc, expected, held, delivered, errors, acked, toS>>
    /\ UNCHANGED <<file, expect, sender, polls, faults, late>>

\* Nothing to read in time: a NAK, and once more
RTimeout ==
    /\ toR = <<>>
    /\ \/ /\ rpc = "polling" /\ polls = MaxPolls
          /\ Cancel /\ UNCHANGED errors
       \/ /\ rpc = "canned" /\ rpc' = "header"
          /\ UNCHANGED <<toS, errors>>
       \/ /\ rpc = "header" /\ errors < MaxErrors
          /\ errors' = errors + 1 /\ Reply("NAK") /\ rpc' = "retry"
       \/ /\ rpc = "header" /\ errors >= MaxErrors
          /\ errors' = errors + 1 /\ Cancel
       \/ /\ rpc = "retry"
          /\ Cancel /\ UNCHANGED errors
    /\ Late(rpc = "header" /\ spc \notin SDone /\ toS # <<>>)
    /\ UNCHANGED <<file, expect, sender, expected, held, delivered, polls, acked, toR, faults>>

\* EOT_LINGER_MS: a repeated EOT is answered again, and the rest skipped
Linger ==
    /\ rpc = "lingering" /\ toR # <<>>
    /\ toR' = Tail(toR)
    /\ toS' = IF Head(toR).is = "EOT" THEN Append(toS, Byte("ACK")) ELSE toS
    /\ UNCHANGED <<file, expect, sender, receiver, faults, late>>

\* Mutant: the size is not looked at
LeaveShort ==
    /\ rpc = "lingering"
    /\ rpc' = "ok"
    /\ UNCHANGED <<file, expect, sender, expected, held, delivered, errors, polls, acked,
                   toR, toS, faults, late>>

\* Then a receiver that was told the size looks at what it has
Leave ==
    /\ rpc = "lingering"
    /\ rpc' = IF Len(delivered) < expect THEN "failed" ELSE "ok"
    /\ UNCHANGED <<file, expect, sender, expected, held, delivered, errors, polls, acked,
                   toR, toS, faults, late>>

----------------------------------------------------------------------------
(* The line. *)

Lose ==
    /\ \/ toR # <<>> /\ toR' = Tail(toR) /\ UNCHANGED toS
       \/ toS # <<>> /\ toS' = Tail(toS) /\ UNCHANGED toR

\* A block's bytes are damaged, or its header is and what follows is taken for one; a byte is
\* read as another
Garble ==
    \/ /\ toR # <<>> /\ UNCHANGED toS
       /\ \/ Head(toR).is = "block" /\ toR' = <<[Head(toR) EXCEPT !.good = FALSE]>> \o Tail(toR)
          \/ \E c \in {"noise", "EOT", "CAN"} : toR' = <<Byte(c)>> \o Tail(toR)
    \/ /\ toS # <<>> /\ UNCHANGED toR
       /\ \E c \in {"noise", "CAN"} : toS' = <<Byte(c)>> \o Tail(toS)

Fault ==
    /\ faults < MaxFaults
    /\ faults' = faults + 1
    /\ Lose \/ Garble
    /\ UNCHANGED <<file, expect, sender, receiver, late>>

----------------------------------------------------------------------------
Ended == spc \in SDone /\ rpc \in RDone

Finished == Ended /\ UNCHANGED vars

Next == SRead \/ STimeout \/ Poll \/ RRead \/ RTimeout \/ Linger \/ Leave \/ Fault \/ Finished

Spec == Init /\ [][Next]_vars

\* Every wait of either end has a timeout, and each reads what has come
Fairness ==
    /\ WF_vars(SRead \/ STimeout)
    /\ WF_vars(Poll \/ RRead \/ RTimeout) /\ WF_vars(Leave)

FairSpec == Spec /\ Fairness

----------------------------------------------------------------------------
(* What is promised. *)

Items == [is : {"block", "ACK", "NAK", "CAN", "EOT", "C", "noise"}, block : 0 .. MaxBlocks,
          good : BOOLEAN]

TypeOK ==
    /\ file \in 0 .. MaxBlocks /\ expect \in 0 .. MaxBlocks
    /\ spc \in SDone \cup {"starting", "startCan", "waiting", "waitCan"}
    /\ at \in 0 .. MaxBlocks + 1 /\ attempt \in 0 .. MaxErrors
    /\ rpc \in RDone \cup Receiving \cup {"lingering"}
    /\ expected \in 0 .. NumMod - 1 /\ held \in 0 .. MaxBlocks
    /\ delivered \in Seq(1 .. MaxBlocks)
    /\ errors \in 0 .. MaxErrors + 1 /\ polls \in 0 .. MaxPolls
    /\ toR \in Seq(Items) /\ toS \in Seq(Items)
    /\ faults \in 0 .. MaxFaults /\ late \in 0 .. MaxLate
    /\ acked \subseteq 1 .. MaxBlocks

\* A block is acknowledged before it is handed over (xmodem.c:253-259); until the transfer fails
\* every block acknowledged is with the sink, held, or beyond what was announced.
AckedIsKept ==
    rpc \notin {"failed", "cancelled"} =>
        \A i \in acked : i <= Len(delivered) \/ i = held \/ (expect # 0 /\ i > expect)

\* No wait is for ever: both ends come to an end, whatever the line does.
BothEnd == <>Ended

\* The receiver is a transfer as Transfer promises it: the blocks reach its sink in order, each
\* once, whatever was lost, repeated or answered late and wherever the block numbers went round,
\* and a size that was announced has come in full when it ends well.
Receiver == INSTANCE Transfer
    WITH got <- delivered,
         outcome <- CASE rpc = "ok" -> "ok"
                      [] rpc \in {"failed", "cancelled"} -> "failed"
                      [] OTHER -> "running"

IsTransfer == Receiver!Spec
=============================================================================
