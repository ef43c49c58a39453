----------------------------- MODULE MCDeposit ------------------------------
(* Instances of TeamDeposit for TLC: members and requests are interchangeable. *)
EXTENDS TeamDeposit, TLC

Symmetry == Permutations(Members) \cup Permutations(Handlers)
=============================================================================
