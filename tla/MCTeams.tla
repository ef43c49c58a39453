------------------------------ MODULE MCTeams -------------------------------
(* Instances of TeamAssignment for TLC. *)
EXTENDS TeamAssignment

CONSTANTS r1, r2, r3, r4, A, B

Symmetry == Permutations(Handlers)

Weighted == [domain |-> 10, gap |-> 6, overflow |-> 8, nearFull |-> 2, softCap |-> 3]
Settings(n, size, topup, target) ==
  [teams |-> n, size |-> size, smallest |-> 1, topup |-> topup, weight |-> Weighted,
   target |-> target]

Developers(n) == [developer |-> n, designer |-> 0, other |-> 0]

(* Two people of different roles and domains; teams of one, or one of two. *)
MixedRole == [r \in Regs |-> IF r = r2 THEN "other" ELSE "developer"]
MixedDomain == [r \in Regs |-> IF r = r2 THEN B ELSE A]
MixedConfigs ==
  {Settings(2, 1, FALSE, Developers(1)),
   Settings(1, 2, TRUE, [Developers(1) EXCEPT !["other"] = 1])}

(* Four developers, one of another domain, on teams of two developers. *)
DevRole == [r \in Regs |-> "developer"]
DevDomain == [r \in Regs |-> IF r = r3 THEN B ELSE A]
DevConfigs == {Settings(2, 2, FALSE, Developers(2))}
=============================================================================
