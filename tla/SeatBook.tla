------------------------------- MODULE SeatBook -------------------------------
(***************************************************************************)
(* What registration promises of the seats of an event, whatever requests  *)
(* are in flight: a group of people is seated as a whole or not at all,    *)
(* only if the whole group fits and none of them has a seat already, and a *)
(* seat is given back one at a time.                                       *)
(***************************************************************************)
EXTENDS Naturals, FiniteSets

CONSTANTS People, Events

VARIABLES
  taken,     \* taken[e][p]: how many seats of event e person p holds
  used,      \* seats of e in use
  capacity   \* seats of e, fixed

vars == <<taken, used, capacity>>

Init ==
  /\ taken = [e \in Events |-> [p \in People |-> 0]]
  /\ used = [e \in Events |-> 0]
  /\ capacity \in [Events -> Nat]

Book(e, P) ==
  /\ \A p \in P : taken[e][p] = 0
  /\ used[e] + Cardinality(P) <= capacity[e]
  /\ taken' = [taken EXCEPT ![e] = [p \in People |-> IF p \in P THEN 1 ELSE @[p]]]
  /\ used' = [used EXCEPT ![e] = @ + Cardinality(P)]
  /\ UNCHANGED capacity

Cancel(e, p) ==
  /\ taken[e][p] > 0
  /\ taken' = [taken EXCEPT ![e][p] = @ - 1]
  /\ used' = [used EXCEPT ![e] = @ - 1]
  /\ UNCHANGED capacity

Next ==
  \E e \in Events :
    \/ \E P \in SUBSET People : P # {} /\ Book(e, P)
    \/ \E p \in People : Cancel(e, p)

Spec == Init /\ [][Next]_vars
=============================================================================
