-------------------------- MODULE MCControlClient --------------------------
(* Small instances of ControlClient. *)
EXTENDS ControlClient, TLC

Symmetric == Permutations(Processes) \cup Permutations(Names) \cup Permutations(Inodes)
=============================================================================
