------------------------------ MODULE MCSeats -------------------------------
(* Instances of RegistrationSeats for TLC: ids, people and requests are      *)
(* interchangeable.                                                          *)
EXTENDS RegistrationSeats, TLC

Symmetry == Permutations(Regs) \cup Permutations(People) \cup Permutations(Clients)
=============================================================================
