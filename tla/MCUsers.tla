------------------------------- MODULE MCUsers -------------------------------
(***************************************************************************)
(* Two users, one of whom is the super admin, one name that moves between  *)
(* them, and two overlapping processes.                                    *)
(***************************************************************************)
EXTENDS Users, TLC

Symmetry == Permutations(Processes)

=============================================================================
