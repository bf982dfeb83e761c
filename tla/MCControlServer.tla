-------------------------- MODULE MCControlServer --------------------------
(* Small instances of ControlServer. *)
EXTENDS ControlServer, TLC

Symmetric == Permutations(Processes) \cup Permutations(Conns) \cup Permutations(Inodes)
=============================================================================
