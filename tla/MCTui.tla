------------------------------- MODULE MCTui -------------------------------
(* Small instances of Tui: which keys the user presses is chosen per run. *)
EXTENDS Tui, TLC

Symmetric == Permutations(Calls) \cup Permutations(Writes)
=============================================================================
