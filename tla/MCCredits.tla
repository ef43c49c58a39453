----------------------------- MODULE MCCredits ------------------------------
(* The properties of CreditsQueue, and its instances for TLC. *)
EXTENDS CreditsQueue, TLC

Symmetry == Permutations(Senders) \cup Permutations(Clients)
=============================================================================
