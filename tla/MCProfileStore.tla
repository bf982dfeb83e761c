--------------------------- MODULE MCProfileStore ---------------------------
(* Small instances of ProfileStore. *)
EXTENDS ProfileStore, TLC

Symmetric == Permutations(Adders) \cup Permutations(Readers) \cup Permutations(Names)
                 \cup Permutations(Inodes)
=============================================================================
