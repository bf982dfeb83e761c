------------------------------ MODULE Registry ------------------------------
(***************************************************************************)
(* What connections.Add promises to the processes that share the profile   *)
(* file: a list that only grows, one new name at a time, and an addition   *)
(* that was reported as done is in it for good.                            *)
(***************************************************************************)
EXTENDS Sequences, Naturals

CONSTANT Names

VARIABLES
    saved,      \* the names in the file, in order
    acked       \* the names whose addition was reported as done

rvars == <<saved, acked>>

Elements(s) == {s[i] : i \in 1..Len(s)}

Init == saved = <<>> /\ acked = {}

Append1(n) ==
    /\ n \notin Elements(saved)
    /\ saved' = Append(saved, n)
    /\ UNCHANGED acked

Acknowledge(n) ==
    /\ n \in Elements(saved)
    /\ acked' = acked \cup {n}
    /\ UNCHANGED saved

Next == \E n \in Names : Append1(n) \/ Acknowledge(n)

Spec == Init /\ [][Next]_rvars
=============================================================================
