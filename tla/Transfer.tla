------------------------------ MODULE Transfer ------------------------------
(***************************************************************************)
(* What a file transfer promises the one who takes the file: its blocks    *)
(* come in order, each once, and a receiver told the size that ends well   *)
(* has all of it.  It may fail at any time before.                         *)
(***************************************************************************)
EXTENDS Naturals, Sequences

CONSTANT MaxBlocks      \* bound on a file's blocks

VARIABLES
    file,       \* the blocks sent
    expect,     \* the blocks announced, 0 if none were
    got,        \* the blocks handed over, as they came
    outcome     \* "running", "ok" or "failed", once the receiver has ended

vars == <<file, expect, got, outcome>>

Init ==
    /\ file \in 0 .. MaxBlocks /\ expect \in 0 .. MaxBlocks
    /\ got = <<>>
    /\ outcome = "running"

Deliver ==
    /\ outcome = "running"
    /\ Len(got) < file /\ (expect # 0 => Len(got) < expect)
    /\ got' = Append(got, Len(got) + 1)
    /\ UNCHANGED <<file, expect, outcome>>

Succeed ==
    /\ outcome = "running"
    /\ Len(got) >= expect
    /\ outcome' = "ok"
    /\ UNCHANGED <<file, expect, got>>

Fail ==
    /\ outcome = "running"
    /\ outcome' = "failed"
    /\ UNCHANGED <<file, expect, got>>

Next == Deliver \/ Succeed \/ Fail

Spec == Init /\ [][Next]_vars
=============================================================================
