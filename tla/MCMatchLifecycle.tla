-------------------------- MODULE MCMatchLifecycle --------------------------
(* Small instances of MatchLifecycle for TLC. *)
EXTENDS MatchLifecycle

\* Players and lock names are interchangeable.
PlayerSymmetry == Permutations(Player)
=============================================================================
