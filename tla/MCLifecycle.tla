---------------------------- MODULE MCLifecycle -----------------------------
(* Instances of RegistrationLifecycle for TLC. *)
EXTENDS RegistrationLifecycle, TLC

Symmetry == Permutations(Regs) \cup Permutations(Handlers)

BornShortlisted == {[NewReg EXCEPT !.status = "shortlisted"]}
=============================================================================
