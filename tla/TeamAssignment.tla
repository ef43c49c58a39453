--------------------------- MODULE TeamAssignment ---------------------------
(***************************************************************************)
(* TeamAssignmentService: people are put on a team as they check in, admins  *)
(* move, swap, remove, rebalance and lock.  Every handler reads teams and     *)
(* members first and writes later, without a lock; what it read is in req.   *)
(* Rows of teams are never deleted and (event_id, team_number) is unique, so  *)
(* the number of a team is its place in the sequence teams.                  *)
(***************************************************************************)
EXTENDS TeamScoring

CONSTANTS
  Handlers,  \* requests in flight at the same time
  Ops,       \* the kinds of request that arrive
  Configs,   \* the team formation settings an admin saves
  MaxTeams   \* bound on the teams of the event

NoTeam == 0
TeamOps == {"checkin", "register", "move", "swap", "unassign", "rebalance", "lock",
            "unlock", "config"}

ASSUME AssignmentAssumption ==
  /\ Ops \subseteq TeamOps
  /\ Configs \subseteq {c \in Config : Consistent(c)}
  /\ MaxTeams \in Nat /\ \A c \in Configs : c.teams <= MaxTeams

VARIABLES
  teams,   \* the teams of one event, by team_number
  member,  \* team_members: the team of each registration, or NoTeam
  cfg,     \* the row of team_formation_configs
  req      \* the HTTP handlers

vars == <<teams, member, cfg, req>>

TeamRow == [domain : {DomainOf[r] : r \in Regs}, locked : BOOLEAN,
            origin : {"auto", "self_registered"}]
Places == UNION {[S -> 1..MaxTeams] : S \in SUBSET Regs}

Runs == [order : Seq(1..MaxTeams), of : Seq(Seq(Regs)),
         at : Nat \X Nat \X Nat \X Nat \X Nat, as : Seq(Regs), bs : Seq(Regs)]

NoReq == [pc |-> "idle"]
ActiveRequest ==
  [pc : {"choose", "create", "join", "update", "delete", "save", "lock"},
   reg : SUBSET Regs,        \* whom a check-in or a removal is about
   cfg : Configs,            \* the settings as read
   upTo : 0..MaxTeams,       \* the team to create; the teams lockTeams loaded
   todo : Places,            \* what is to be stored next
   run : Runs,               \* a rebalance: how far it is, that included
   gone : SUBSET Regs,       \* members whose rows were deleted after they were read
   stale : BOOLEAN]          \* history: others changed teams or members since they were read

TypeOK ==
  /\ teams \in Seq(TeamRow) /\ Len(teams) <= MaxTeams
  /\ member \in [Regs -> {NoTeam} \cup DOMAIN teams]
  /\ cfg \in Configs
  /\ req \in [Handlers -> ActiveRequest \cup {NoReq}]

Init ==
  /\ teams = <<>>
  /\ member = [r \in Regs |-> NoTeam]
  /\ cfg \in Configs
  /\ req = [h \in Handlers |-> NoReq]

-----------------------------------------------------------------------------
Roster(t) == {r \in Regs : member[r] = t}
MembersOf(t) == SetToSeq(Roster(t))

Sealed(t) == teams[t].origin = "self_registered"

Request(pc, regs, todo) ==
  [pc |-> pc, reg |-> regs, cfg |-> cfg, upTo |-> 0, todo |-> todo, run |-> NoRun,
   gone |-> {}, stale |-> FALSE]

Begin(h, op, request) ==
  /\ req[h] = NoReq /\ op \in Ops
  /\ req' = [req EXCEPT ![h] = request]
  /\ UNCHANGED <<teams, member, cfg>>

Finish(h) == req' = [req EXCEPT ![h] = NoReq] /\ UNCHANGED <<teams, member, cfg>>

(* h goes on as `next`; the rows of `deleted` are gone for everybody else. *)
Outdate(h, next, deleted) ==
  req' = [g \in Handlers |->
            IF g = h THEN next
            ELSE IF req[g].pc \in {"idle", "choose"} THEN req[g]
            ELSE [req[g] EXCEPT !.stale = TRUE, !.gone = @ \cup deleted]]

(* The members when those of `who` are put where `place` says. *)
Placed(place, who) == [r \in Regs |-> IF r \in who THEN place[r] ELSE member[r]]
To(r, t) == [x \in {r} |-> t]

StoreMembers(h, newMember, next) ==
  /\ member' = newMember
  /\ Outdate(h, next, {r \in Regs : member[r] # NoTeam /\ newMember[r] = NoTeam})
  /\ UNCHANGED <<teams, cfg>>

StoreTeams(h, newTeams, next) ==
  /\ teams' = newTeams
  /\ Outdate(h, next, {})
  /\ UNCHANGED <<member, cfg>>

-----------------------------------------------------------------------------
(* assignAtCheckin: the membership and the settings are read, then the teams, *)
(* then a team may be created, then the member is stored.                    *)

CheckIn(h, r) ==
  /\ member[r] = NoTeam
  /\ Begin(h, "checkin", Request("choose", {r}, <<>>))

(* Mutant: a captain's team takes walk-ins like any other. *)
MutOpen(c) == {t \in DOMAIN teams : ~teams[t].locked /\ Cardinality(Roster(t)) < c.size}

(* Mutant: a locked team with a free place takes walk-ins. *)
MutOpenLocked(c) ==
  {t \in DOMAIN teams : Cardinality(Roster(t)) < c.size /\ (c.topup \/ ~Sealed(t))}

(* openTeams *)
Open(c) ==
  {t \in DOMAIN teams : /\ ~teams[t].locked
                        /\ Cardinality(Roster(t)) < c.size
                        /\ c.topup \/ ~Sealed(t)}

SameDomain(t, r) == DomainOf[r] \in {NoDomain, teams[t].domain}

(* candidateTeams *)
Candidates(c, r) ==
  {t \in Open(c) : /\ SameDomain(t, r)
                   /\ RoleCount(MembersOf(t), RoleOf[r]) < c.target[RoleOf[r]]}

(* The teams among which the score decides; none if a new one is to be made. *)
Pool(c, r) ==
  LET domainOpen == {t \in Open(c) : SameDomain(t, r)}
  IN  IF Candidates(c, r) # {} \/ Len(teams) < c.teams THEN Candidates(c, r)
      ELSE IF domainOpen # {} THEN domainOpen ELSE Open(c)

(* The first of the highest score. *)
Best(c, r, pool) ==
  LET Score(t) == ScoreTeam(c, teams[t].domain, MembersOf(t), r)
  IN  {t \in pool : \A u \in pool : Score(t) > Score(u) \/ (Score(t) = Score(u) /\ t <= u)}

Choose(h) ==
  /\ req[h].pc = "choose"
  /\ \E r \in req[h].reg :
       LET c    == req[h].cfg
           pool == Pool(c, r)
       IN  \/ \E t \in Best(c, r, pool) :
                req' = [req EXCEPT ![h] = [@ EXCEPT !.pc = "join", !.todo = To(r, t)]]
           \/ /\ pool = {} /\ Len(teams) < c.teams
              /\ req' = [req EXCEPT ![h] = [@ EXCEPT !.pc = "create", !.upTo = Len(teams) + 1]]
           \/ pool = {} /\ Len(teams) >= c.teams /\ req' = [req EXCEPT ![h] = NoReq]
  /\ UNCHANGED <<teams, member, cfg>>

(* Mutant: the number of a new team is the next free one when it is stored. *)
MutCreate(h) ==
  /\ req[h].pc = "create" /\ Len(teams) < MaxTeams
  /\ \E r \in req[h].reg :
       StoreTeams(h, Append(teams, [domain |-> DomainOf[r], locked |-> FALSE, origin |-> "auto"]),
                  [req[h] EXCEPT !.pc = "join", !.todo = To(r, Len(teams) + 1)])

Create(h) ==
  /\ req[h].pc = "create" /\ req[h].upTo = Len(teams) + 1
  /\ \E r \in req[h].reg :
       StoreTeams(h, Append(teams, [domain |-> DomainOf[r], locked |-> FALSE, origin |-> "auto"]),
                  [req[h] EXCEPT !.pc = "join", !.todo = To(r, req[h].upTo)])

(* The number is taken: the INSERT fails and the check-in with it. *)
CreateTaken(h) == req[h].pc = "create" /\ req[h].upTo <= Len(teams) /\ Finish(h)

(* A registration is on one team: the INSERT of a second membership fails. *)
Join(h) ==
  /\ req[h].pc = "join"
  /\ \E r \in req[h].reg :
       IF member[r] = NoTeam
       THEN StoreMembers(h, Placed(req[h].todo, {r}), NoReq)
       ELSE Finish(h)

-----------------------------------------------------------------------------
(* RegistrationsService.registerTeam: one transaction, that fails when the   *)
(* number it took is taken meanwhile.                                       *)
RegisterTeam(roster) ==
  /\ "register" \in Ops
  /\ Len(teams) < MaxTeams /\ Cardinality(roster) \in cfg.smallest..cfg.size
  /\ \A r \in roster : member[r] = NoTeam
  /\ \E r \in roster :
       /\ \A other \in roster : DomainOf[other] = DomainOf[r]
       /\ teams' = Append(teams, [domain |-> DomainOf[r], locked |-> FALSE,
                                  origin |-> "self_registered"])
  /\ member' = [r \in Regs |-> IF r \in roster THEN Len(teams) + 1 ELSE member[r]]
  /\ req' = [h \in Handlers |->
               IF req[h].pc \in {"idle", "choose"} THEN req[h] ELSE [req[h] EXCEPT !.stale = TRUE]]
  /\ UNCHANGED cfg

-----------------------------------------------------------------------------
(* Mutant: the size of the target is not looked at. *)
MutMoveMember(h, t, r) ==
  /\ ~teams[t].locked /\ member[r] \notin {NoTeam, t}
  /\ Begin(h, "move", Request("update", {}, To(r, t)))

(* moveMember: neither the lock nor the origin of the team left matters. *)
MoveMember(h, t, r) ==
  /\ ~teams[t].locked
  /\ Cardinality(Roster(t)) < cfg.size
  /\ member[r] \notin {NoTeam, t}
  /\ Begin(h, "move", Request("update", {}, To(r, t)))

SwapMembers(h, r, s) ==
  /\ NoTeam \notin {member[r], member[s]} /\ member[r] # member[s]
  /\ ~teams[member[r]].locked /\ ~teams[member[s]].locked
  /\ Begin(h, "swap", Request("update", {}, [x \in {r, s} |-> IF x = r THEN member[s] ELSE member[r]]))

(* An UPDATE of a row that was deleted changes nothing. *)
UpdateMembers(h) ==
  /\ req[h].pc = "update"
  /\ StoreMembers(h, Placed(req[h].todo, DOMAIN req[h].todo \ req[h].gone), NoReq)

(* unassignMember; a sealed team keeps its member.  The check-in it then     *)
(* undoes is RegistrationLifecycle's.                                       *)
Unassign(h, r) ==
  /\ member[r] # NoTeam
  /\ ~Sealed(member[r]) /\ ~teams[member[r]].locked
  /\ Begin(h, "unassign", Request("delete", {r}, <<>>))

DeleteMember(h) ==
  /\ req[h].pc = "delete"
  /\ StoreMembers(h, [r \in Regs |-> IF r \in req[h].reg \ req[h].gone
                                     THEN NoTeam ELSE member[r]], NoReq)

-----------------------------------------------------------------------------
(* The domain of a team never changes. *)
Domains == [t \in DOMAIN teams |-> teams[t].domain]

(* The teams that trade, which rebalance finds in any order, and their members *)
(* as well.                                                                  *)
Trading == {t \in DOMAIN teams : ~Sealed(t) /\ ~teams[t].locked}
Listed == {of \in [DOMAIN teams -> UNION {SetToSeqs(Roster(t)) : t \in DOMAIN teams}] :
             \A t \in DOMAIN teams : of[t] \in SetToSeqs(Roster(t))}

(* The settings, the teams and their members are read once; one without a trade *)
(* changes nothing.                                                           *)
Rebalance(h) ==
  \E order \in SetToSeqs(Trading), of \in Listed :
    LET start == [NoRun EXCEPT !.order = order, !.of = of] IN
    \E q \in NextTrade(cfg, Domains, start) :
      Begin(h, "rebalance", [Request("save", {}, Trade(start, q)) EXCEPT !.run = Traded(start, q)])

(* The loops go on, to the next trade or the end. *)
Continued(h) ==
  LET run  == req[h].run
      next == NextTrade(req[h].cfg, Domains, run)
  IN  IF next = {} THEN {NoReq}
      ELSE {[req[h] EXCEPT !.todo = Trade(run, q), !.run = Traded(run, q),
                           !.gone = @ \ DOMAIN req[h].todo] : q \in next}

(* memberRepo.save([ma, mb]): a row that is gone is inserted again, and the   *)
(* whole rebalance fails if its registration has a new one.                  *)
SaveTrade(h) ==
  /\ req[h].pc = "save"
  /\ LET who == DOMAIN req[h].todo
     IN  IF \E r \in who \cap req[h].gone : member[r] # NoTeam
         THEN Finish(h)
         ELSE \E next \in Continued(h) : StoreMembers(h, Placed(req[h].todo, who), next)

-----------------------------------------------------------------------------
LockTeams(h) ==
  /\ teams # <<>>
  /\ Begin(h, "lock", [Request("lock", {}, <<>>) EXCEPT !.upTo = Len(teams)])

SaveLocks(h) ==
  /\ req[h].pc = "lock"
  /\ StoreTeams(h, [t \in DOMAIN teams |->
                      [teams[t] EXCEPT !.locked = @ \/ t <= req[h].upTo]], NoReq)

(* Whatever was loaded, the team is stored as forming (TeamDeposit has the    *)
(* other columns).                                                          *)
UnlockTeam(t) ==
  /\ "unlock" \in Ops
  /\ teams' = [teams EXCEPT ![t].locked = FALSE]
  /\ UNCHANGED <<member, cfg, req>>

(* Mutant: a larger team is saved with the targets of a smaller one. *)
MutUpdateConfig(c) ==
  /\ "config" \in Ops
  /\ cfg' = [cfg EXCEPT !.size = c.size]
  /\ UNCHANGED <<teams, member, req>>

UpdateConfig(c) ==
  /\ "config" \in Ops
  /\ cfg' = c
  /\ UNCHANGED <<teams, member, req>>

(* The process dies. *)
Crash(h) == req[h] # NoReq /\ Finish(h)

AdminStep(h) ==
  \/ \E r \in Regs : Unassign(h, r) \/ \E t \in DOMAIN teams : MoveMember(h, t, r)
  \/ \E r, s \in Regs : SwapMembers(h, r, s)
  \/ Rebalance(h) \/ LockTeams(h)

StoreStep(h) ==
  \/ UpdateMembers(h) \/ DeleteMember(h) \/ SaveTrade(h) \/ SaveLocks(h)

Next ==
  \/ \E h \in Handlers :
       \/ \E r \in Regs : CheckIn(h, r)
       \/ Choose(h) \/ Create(h) \/ CreateTaken(h) \/ Join(h)
       \/ AdminStep(h) \/ StoreStep(h) \/ Crash(h)
  \/ \E roster \in SUBSET Regs : RegisterTeam(roster)
  \/ \E t \in DOMAIN teams : UnlockTeam(t)
  \/ \E c \in Configs : UpdateConfig(c)

Spec == Init /\ [][Next]_vars

-----------------------------------------------------------------------------
(* Properties *)

(* The requests that store members in this step. *)
Storing ==
  {h \in Handlers : /\ req[h].pc \in {"join", "update", "delete", "save"}
                    /\ req'[h] = NoReq \/ req'[h].run # req[h].run}

RosterAfter(t) == {r \in Regs : member'[r] = t}
Joined(t) == t \in DOMAIN teams /\ RosterAfter(t) \ Roster(t) # {}
Left(t)   == t \in DOMAIN teams /\ Roster(t) \ RosterAfter(t) # {}

(* erd.md:286: a team of max_team_size takes nobody in.  A check-in or a move   *)
(* makes a team larger than the size it read only if another request changed   *)
(* the members between its look and its write.                               *)
OverfilledByOverlapOnly ==
  [][ \A h \in Storing, t \in 1..MaxTeams :
        /\ req[h].pc \in {"join", "update"} /\ Joined(t) /\ ~req[h].stale
        /\ Cardinality(RosterAfter(t)) > Cardinality(Roster(t))
        => Cardinality(RosterAfter(t)) <= req[h].cfg.size ]_vars

(* team-assignment.service.ts:88: a solo registrant is never dropped into a     *)
(* captain's team, and :256: no rebalance rearranges it, nor does undoing a     *)
(* check-in dissolve it (:361); only a move or a swap by hand does, a check-in   *)
(* under allow_team_topup, and a request that overlapped a move by hand.         *)
SealedRosterKept ==
  [][ \A h \in Storing, t \in DOMAIN teams :
        Sealed(t) /\ RosterAfter(t) # Roster(t) =>
          \/ req[h].pc = "update"
          \/ req[h].pc = "join" /\ req[h].cfg.topup
          \/ req[h].pc \in {"save", "delete"} /\ req[h].stale ]_vars

(* erd.md:319: no auto-placement or swaps after the lock.  Nobody joins a locked *)
(* team, and nobody is swapped, traded or removed from one, unless the lock     *)
(* came between a request's look and its write; a move out is never refused.    *)
LockedRosterKept ==
  [][ \A h \in Storing, t \in DOMAIN teams :
        teams[t].locked /\ ~req[h].stale =>
          /\ ~Joined(t)
          /\ Left(t) => req[h].pc = "update" /\ Cardinality(DOMAIN req[h].todo) = 1 ]_vars

(* Check-ins that race for a new team never make more than max_teams: the      *)
(* number each computed decides which of them fails.                          *)
CheckInsKeepTheCap ==
  [][ \A h \in Handlers :
        req[h].pc = "create" /\ req'[h].pc = "join"
        => Len(teams') <= req[h].cfg.teams ]_vars

(* team-assignment.service.ts:249 calls rebalance a pairwise swap pass that     *)
(* trades members between teams: a trade leaves the teams as large as they were. *)
TradesKeepSizes ==
  [][ \A h \in Storing, t \in DOMAIN teams :
        req[h].pc = "save" /\ ~req[h].stale
        => Cardinality(RosterAfter(t)) = Cardinality(Roster(t)) ]_vars
=============================================================================
