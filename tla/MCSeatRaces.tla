---------------------------- MODULE MCSeatRaces -----------------------------
(* An instance of SeatRaces for TLC: ids, people, events and requests are    *)
(* interchangeable.                                                         *)
EXTENDS SeatRaces, TLC

Symmetry == Permutations(Regs) \cup Permutations(Excs) \cup Permutations(People)
              \cup Permutations(Events) \cup Permutations(Clients)
=============================================================================
