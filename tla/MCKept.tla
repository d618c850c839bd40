-------------------------------- MODULE MCKept --------------------------------
(* What is kept over a restart: the remembered networks, the access point, and *)
(* the configuration with its import, each on its own.                         *)
EXTENDS WifiKnown, WifiAp, NvsBackup, TLC

VARIABLE part   \* the one that runs

vars == <<part, knownVars, apVars, nvsVars>>

Init == part \in {"known", "ap", "nvs"} /\ KnownInit /\ ApInit /\ NvsInit

Next ==
    /\ UNCHANGED part
    /\ \/ part = "known" /\ KnownNext /\ UNCHANGED <<apVars, nvsVars>>
       \/ part = "ap" /\ ApNext /\ UNCHANGED <<knownVars, nvsVars>>
       \/ part = "nvs" /\ NvsNext /\ UNCHANGED <<knownVars, apVars>>

Spec == Init /\ [][Next]_vars

TypeOK == KnownTypeOK /\ ApTypeOK /\ NvsTypeOK

\* Two namespaces, of which the registry keeps one entry back
Sorted == <<"a1", "a2", "as", "b1">>
Space == [e \in {"a1", "a2", "as", "b1"} |-> IF e = "b1" THEN "b" ELSE "a"]
Types == [v \in {1, 3} |-> IF v = 3 THEN "str" ELSE "int"]
Holding(a1, a2, as, b1) ==
    [e \in {"a1", "a2", "as", "b1"} |->
        CASE e = "a1" -> a1 [] e = "a2" -> a2 [] e = "as" -> as [] OTHER -> b1]

\* One file retypes an entry and lacks another; the other holds of its first namespace a kept back
\* one alone
Arriving ==
    {[text |-> Holding(3, Absent, 1, Absent), mine |-> FALSE, whole |-> TRUE],
     [text |-> Holding(Absent, Absent, 1, 1), mine |-> TRUE, whole |-> TRUE],
     [text |-> Holding(Absent, 1, Absent, 1), mine |-> TRUE, whole |-> FALSE]}
Others == {[of |-> "b1", value |-> 1], [of |-> "a1", value |-> 3]}
AtFirst == {Holding(1, 1, 1, Absent)}

\* Networks up to the first event taken for the wrong join, and to the first connect that was pending
\* when the station was given up on.  The access point up to the first change on a look no longer
\* true.  Imports up to the third snapshot, and without one only on a board that has no file yet.
Explored ==
    /\ ~crossed /\ ~late
    /\ ~beaten
    /\ snaps <= 2 /\ (bare => \A f \in Files : files[f] = Absent)

Symmetry == Permutations(Ssids)
=============================================================================
