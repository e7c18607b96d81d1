------------------------------ MODULE MCHiring -------------------------------
(* Hiring on small instances. *)
EXTENDS Hiring, TLC

CONSTANTS p1, p2

Symmetric == Permutations(Person)

=============================================================================
