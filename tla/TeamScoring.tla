---------------------------- MODULE TeamScoring -----------------------------
(***************************************************************************)
(* How TeamAssignmentService values a team.  The members of a team are a    *)
(* sequence of registrations, in which rebalance may name one twice; what    *)
(* the service reads of a member is the group of its role and its domain.   *)
(***************************************************************************)
EXTENDS Integers, FiniteSets, SequencesExt

CONSTANTS Regs, RoleOf, DomainOf, NoDomain

RoleGroups == {"developer", "designer", "other"}

ASSUME ScoringAssumption ==
  /\ RoleOf \in [Regs -> RoleGroups]
  /\ DOMAIN DomainOf = Regs /\ IsFiniteSet(Regs)

(* A row of team_formation_configs. *)
Weights == [domain : Nat, gap : Nat, overflow : Nat, nearFull : Nat, softCap : Nat]
Config == [teams : Nat, size : Nat \ {0}, smallest : Nat \ {0}, topup : BOOLEAN,
           target : [RoleGroups -> Nat], weight : Weights]

(* TeamsService.updateConfig refuses any other. *)
Consistent(c) ==
  c.target["developer"] + c.target["designer"] + c.target["other"] = c.size

RoleCount(members, group) == Len(SelectSeq(members, LAMBDA m : RoleOf[m] = group))

DomainCount(members, domains) == Len(SelectSeq(members, LAMBDA m : DomainOf[m] \in domains))

(* scoreTeam for somebody of r's role and domain, times max_team_size: the   *)
(* share of occupied places is a fraction in the code.                      *)
ScoreTeam(c, teamDomain, members, r) ==
  LET group == RoleOf[r]
      count == RoleCount(members, group)
      match == IF DomainOf[r] # NoDomain /\ DomainOf[r] = teamDomain THEN c.weight.domain ELSE 0
      role  == IF count < c.target[group] THEN c.weight.gap ELSE -c.weight.overflow
      cap   == IF group = "developer" /\ count >= c.weight.softCap
               THEN 2 * c.weight.overflow ELSE 0
  IN  c.size * (match + role - cap) - c.weight.nearFull * Len(members)

Smaller(a, b) == IF a < b THEN a ELSE b

(* scoreTeamRaw *)
ScoreTeamRaw(c, teamDomain, members) ==
  LET filled(g) == Smaller(RoleCount(members, g), c.target[g])
      excess    == RoleCount(members, "developer") - c.weight.softCap
      same      == DomainCount(members, {teamDomain})
      foreign   == Len(members) - DomainCount(members, {teamDomain, NoDomain})
  IN  c.weight.gap * (filled("developer") + filled("designer") + filled("other"))
      - (IF excess > 0 THEN excess * c.weight.overflow ELSE 0)
      + (IF teamDomain = NoDomain THEN 0 ELSE c.weight.domain * (same - 3 * foreign))

ExceedsRoleTargets(c, members) ==
  \E g \in RoleGroups : RoleCount(members, g) > c.target[g]

-----------------------------------------------------------------------------
(* rebalance trades on the members it loaded. A run of it holds: the teams it  *)
(* goes through, in order; of, the members of each as the loops see them; at,  *)
(* the indices of the last trade, <<pass, i, j, ma, mb>>; and what its loops    *)
(* over members iterate over, the arrays they found when they started: a trade *)
(* replaces of, and they go on with the old ones.                             *)
NoRun == [order |-> <<>>, of |-> <<>>, at |-> <<0, 0, 0, 0, 0>>, as |-> <<>>, bs |-> <<>>]

(* The same loops are under way in q as in p, down to the k-th index. *)
SameLoops(p, q, k) == \A l \in 1..k : p[l] = q[l]
Before(p, q) == \E k \in 1..5 : SameLoops(p, q, k - 1) /\ p[k] < q[k]

ArrayA(run, q) == IF SameLoops(run.at, q, 3) THEN run.as ELSE run.of[run.order[q[2]]]
ArrayB(run, q) == IF SameLoops(run.at, q, 4) THEN run.bs ELSE run.of[run.order[q[3]]]

Replace(members, old, new) == [i \in DOMAIN members |-> IF members[i] = old THEN new ELSE members[i]]

(* The members after the trade of q, and where its two are stored. *)
AfterTrade(run, q) ==
  LET a == run.order[q[2]]  ma == ArrayA(run, q)[q[4]]
      b == run.order[q[3]]  mb == ArrayB(run, q)[q[5]]
  IN  [run.of EXCEPT ![a] = Replace(run.of[a], ma, mb), ![b] = Replace(run.of[b], mb, ma)]

Trade(run, q) ==
  LET ma == ArrayA(run, q)[q[4]]  mb == ArrayB(run, q)[q[5]]
  IN  [r \in {ma, mb} |-> IF r = ma THEN run.order[q[3]] ELSE run.order[q[2]]]

Traded(run, q) ==
  [run EXCEPT !.of = AfterTrade(run, q), !.at = q, !.as = ArrayA(run, q), !.bs = ArrayB(run, q)]

MayJoin(r, teamDomain) ==
  DomainOf[r] = NoDomain \/ teamDomain = NoDomain \/ DomainOf[r] = teamDomain

Improves(c, domains, run, q) ==
  LET a == run.order[q[2]]
      b == run.order[q[3]]
      after == AfterTrade(run, q)
      Total(of) == ScoreTeamRaw(c, domains[a], of[a]) + ScoreTeamRaw(c, domains[b], of[b])
  IN  /\ MayJoin(ArrayA(run, q)[q[4]], domains[b]) /\ MayJoin(ArrayB(run, q)[q[5]], domains[a])
      /\ ~ExceedsRoleTargets(c, after[a]) /\ ~ExceedsRoleTargets(c, after[b])
      /\ Total(after) > Total(run.of)

(* The next trade: the first that improves the score, in this pass or, since   *)
(* there was a trade in this one, in the next; there are five. None at the end. *)
NextTrade(c, domains, run) ==
  LET passes == {run.at[1], run.at[1] + 1} \cap 1..5
      people == 1..Cardinality(Regs)
      coming == {q \in passes \X (DOMAIN run.order) \X (DOMAIN run.order) \X people \X people :
                   /\ Before(run.at, q) /\ q[2] < q[3]
                   /\ q[4] \in DOMAIN ArrayA(run, q) /\ q[5] \in DOMAIN ArrayB(run, q)
                   /\ Improves(c, domains, run, q)}
  IN  {q \in coming : \A p \in coming : ~Before(p, q)}
=============================================================================
