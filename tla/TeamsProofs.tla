---------------------------- MODULE TeamsProofs -----------------------------
(* Proofs about TeamAssignment: which teams a check-in, an admin or a         *)
(* rebalance changes, for any number of requests that overlap.               *)
EXTENDS TeamAssignment, FiniteSetTheorems, TLAPS

(* What a request knows of the teams ts and the members mem while it waits.   *)
(* A team keeps its origin, so that part holds however old the look is; the   *)
(* rest holds until another request stores teams or members.                *)

On(mem, t) == {r \in Regs : mem[r] = t}
Captained(ts, t) == ts[t].origin = "self_registered"

(* A check-in joins a team that exists and was open; a captain's only under    *)
(* allow_team_topup.                                                         *)
JoinOK(q, ts, mem) ==
  \A r \in q.reg :
    LET t == q.todo[r]
    IN  /\ r \in DOMAIN q.todo /\ t \in DOMAIN ts
        /\ q.cfg.topup \/ ~Captained(ts, t)
        /\ q.stale \/ (~ts[t].locked /\ Cardinality(On(mem, t)) < q.cfg.size)

MoveOK(q, ts, mem) ==
  \E r \in Regs :
    /\ DOMAIN q.todo = {r}
    /\ ~ts[q.todo[r]].locked
    /\ Cardinality(On(mem, q.todo[r])) < q.cfg.size

SwapOK(q, ts, mem) ==
  \E r, s \in Regs :
    /\ DOMAIN q.todo = {r, s} /\ mem[r] # mem[s]
    /\ q.todo[r] = mem[s] /\ q.todo[s] = mem[r]
    /\ ~ts[mem[r]].locked /\ ~ts[mem[s]].locked

UpdateOK(q, ts, mem) ==
  /\ \A r \in DOMAIN q.todo : q.todo[r] \in DOMAIN ts
  /\ q.stale \/ MoveOK(q, ts, mem) \/ SwapOK(q, ts, mem)

DeleteOK(q, ts, mem) ==
  q.stale \/ \A r \in q.reg : /\ mem[r] \in DOMAIN ts
                              /\ ~Captained(ts, mem[r]) /\ ~ts[mem[r]].locked

(* The teams a rebalance goes through, and the people on them.               *)
Ends(q) == {q.run.order[i] : i \in DOMAIN q.run.order}
Within(mem, T) == {r \in Regs : mem[r] \in T}

(* Every list the loops of a rebalance hold is one of these people.           *)
Lists(run, T, P) ==
  /\ run.order \in Seq(T) /\ T \subseteq DOMAIN run.of
  /\ \A t \in T : run.of[t] \in Seq(P)
  /\ run.as \in Seq(P) /\ run.bs \in Seq(P)

SaveOK(q, ts, mem) ==
  /\ Ends(q) \subseteq DOMAIN ts
  /\ Lists(q.run, Ends(q), Regs)
  /\ \A r \in DOMAIN q.todo : q.todo[r] \in Ends(q)
  /\ \A t \in Ends(q) : ~Captained(ts, t)
  /\ \/ q.stale
     \/ /\ \A t \in Ends(q) : ~ts[t].locked
        /\ Lists(q.run, Ends(q), Within(mem, Ends(q)))
        /\ DOMAIN q.todo \subseteq Within(mem, Ends(q))

KnownOK(q, ts, mem) ==
  /\ q.pc # "idle" /\ ~q.stale => q.gone = {}
  /\ q.pc = "choose" => ~q.stale
  /\ q.pc \in {"choose", "create", "join"} => \E r \in Regs : q.reg = {r}
  /\ q.pc = "create" => q.upTo \in 1..q.cfg.teams
  /\ q.pc = "join" => JoinOK(q, ts, mem)
  /\ q.pc = "update" => UpdateOK(q, ts, mem)
  /\ q.pc = "delete" => DeleteOK(q, ts, mem)
  /\ q.pc = "save" => SaveOK(q, ts, mem)

(* The inductive invariant. *)
TeamInv == TypeOK /\ \A h \in Handlers : KnownOK(req[h], teams, member)

-----------------------------------------------------------------------------
LEMMA ConfigKnown ==
  ASSUME NEW c \in Configs
  PROVE  /\ c.teams \in Nat /\ c.teams <= MaxTeams
         /\ c.size \in Nat /\ c.size > 0
         /\ MaxTeams \in Nat
  BY AssignmentAssumption DEF Config

LEMMA PlacesAre ==
  ASSUME NEW S \in SUBSET Regs, NEW f \in [S -> 1..MaxTeams]
  PROVE  f \in Places
  BY DEF Places

LEMMA PlaceOf ==
  ASSUME NEW f \in Places
  PROVE  DOMAIN f \subseteq Regs /\ f \in [DOMAIN f -> 1..MaxTeams]
  BY DEF Places

LEMMA NoPlaces == <<>> \in Places
  <1>1. <<>> \in [{} -> 1..MaxTeams]
    OBVIOUS
  <1>2. QED BY <1>1 DEF Places

LEMMA RunsOf ==
  /\ NoRun \in Runs
  /\ \A run \in Runs : /\ run.order \in Seq(1..MaxTeams) /\ run.of \in Seq(Seq(Regs))
                       /\ run.as \in Seq(Regs) /\ run.bs \in Seq(Regs)
  <1>1. <<0, 0, 0, 0, 0>> \in Nat \X Nat \X Nat \X Nat \X Nat
    OBVIOUS
  <1>2. <<>> \in Seq(1..MaxTeams) /\ <<>> \in Seq(Seq(Regs)) /\ <<>> \in Seq(Regs)
    OBVIOUS
  <1>3. QED BY <1>1, <1>2 DEF Runs, NoRun

LEMMA Reached ==
  ASSUME TypeOK, NEW h \in Handlers, req[h].pc # "idle"
  PROVE  req[h] \in ActiveRequest /\ req[h] # NoReq
  BY DEF TypeOK, NoReq

LEMMA ActiveFields ==
  ASSUME NEW q \in ActiveRequest
  PROVE  /\ q.pc \in {"choose", "create", "join", "update", "delete", "save", "lock"}
         /\ q.reg \subseteq Regs /\ q.cfg \in Configs /\ q.upTo \in 0..MaxTeams
         /\ q.todo \in Places /\ q.run \in Runs /\ q.gone \subseteq Regs /\ q.stale \in BOOLEAN
         /\ q.pc # "idle" /\ q # NoReq
  BY DEF ActiveRequest, NoReq

(* s is q after others have stored something. *)
Outdated(q, s) ==
  /\ s \in ActiveRequest /\ s.stale
  /\ s.pc = q.pc /\ s.reg = q.reg /\ s.cfg = q.cfg /\ s.upTo = q.upTo
  /\ s.todo = q.todo /\ s.run = q.run

LEMMA StaleFields ==
  ASSUME NEW q \in ActiveRequest, NEW d \in SUBSET Regs
  PROVE  /\ Outdated(q, [q EXCEPT !.stale = TRUE, !.gone = @ \cup d])
         /\ Outdated(q, [q EXCEPT !.stale = TRUE])
  BY DEF ActiveRequest, Outdated

(* Teams are only ever added, and keep their origin. *)
Extended(ts, us) ==
  /\ DOMAIN ts \subseteq DOMAIN us
  /\ \A t \in DOMAIN ts : us[t].origin = ts[t].origin

LEMMA StaleIsKnown ==
  ASSUME NEW q \in ActiveRequest, NEW s, Outdated(q, s), q.pc # "choose",
         NEW ts, NEW us, NEW mem, NEW new, KnownOK(q, ts, mem), Extended(ts, us)
  PROVE  KnownOK(s, us, new)
  <1>1. /\ s \in ActiveRequest /\ s.stale
        /\ s.pc = q.pc /\ s.reg = q.reg /\ s.cfg = q.cfg /\ s.upTo = q.upTo
        /\ s.todo = q.todo /\ s.run = q.run
    BY DEF Outdated
  <1>2. q.pc = "join" => JoinOK(s, us, new)
    BY <1>1 DEF KnownOK, JoinOK, Extended, Captained
  <1>3. q.pc = "update" => UpdateOK(s, us, new)
    BY <1>1 DEF KnownOK, UpdateOK, Extended
  <1>4. q.pc = "delete" => DeleteOK(s, us, new)
    BY <1>1 DEF DeleteOK
  <1>5. q.pc = "save" => SaveOK(s, us, new)
    BY <1>1 DEF KnownOK, SaveOK, Ends, Extended, Captained
  <1>6. QED BY <1>1, <1>2, <1>3, <1>4, <1>5 DEF KnownOK

(* A step that reads, begins or ends a request. *)
LEMMA ReadKeeps ==
  ASSUME TeamInv, NEW h \in Handlers, NEW q \in ActiveRequest \cup {NoReq},
         KnownOK(q, teams, member),
         req' = [req EXCEPT ![h] = q], UNCHANGED <<teams, member, cfg>>
  PROVE  TeamInv'
  <1>1. TypeOK' BY DEF TeamInv, TypeOK
  <1>2. \A g \in Handlers : KnownOK(req'[g], teams', member')
    BY DEF TeamInv, TypeOK
  <1>3. QED BY <1>1, <1>2 DEF TeamInv

LEMMA IdleIsKnown == ASSUME NEW ts, NEW mem PROVE KnownOK(NoReq, ts, mem)
  BY DEF KnownOK, NoReq

LEMMA FinishKeeps ==
  ASSUME TeamInv, NEW h \in Handlers, Finish(h) PROVE TeamInv'
  BY ReadKeeps, IdleIsKnown DEF Finish

(* A step that stores teams or members. *)
LEMMA StoreKeeps ==
  ASSUME TeamInv, NEW h \in Handlers, NEW next \in ActiveRequest \cup {NoReq},
         NEW d \in SUBSET Regs, Outdate(h, next, d), UNCHANGED cfg,
         teams' \in Seq(TeamRow), Len(teams') <= MaxTeams, Extended(teams, teams'),
         member' \in [Regs -> {NoTeam} \cup DOMAIN teams'],
         KnownOK(next, teams', member')
  PROVE  TeamInv'
  <1>1. \A g \in Handlers : req'[g] \in ActiveRequest \cup {NoReq} /\ KnownOK(req'[g], teams', member')
    <2> TAKE g \in Handlers
    <2>1. CASE g = h
      BY <2>1 DEF Outdate
    <2>2. CASE g # h /\ req[g].pc = "idle"
      <3>1. req'[g] = NoReq
        BY <2>2, ActiveFields DEF Outdate, TeamInv, TypeOK
      <3>2. QED BY <3>1, IdleIsKnown
    <2>3. CASE g # h /\ req[g].pc = "choose"
      <3>1. req'[g] = req[g] BY <2>3 DEF Outdate
      <3>2. KnownOK(req[g], teams, member) BY DEF TeamInv
      <3>3. QED BY <2>3, <3>1, <3>2, Reached DEF TeamInv, KnownOK
    <2>4. CASE g # h /\ req[g].pc \notin {"idle", "choose"}
      <3> PICK q : q = req[g] OBVIOUS
      <3>1. q \in ActiveRequest /\ KnownOK(q, teams, member) /\ q.pc # "choose"
        BY <2>4, Reached DEF TeamInv
      <3>2. req'[g] = [q EXCEPT !.stale = TRUE, !.gone = @ \cup d]
        BY <2>4 DEF Outdate
      <3>3. Outdated(q, req'[g])
        <4>1. Outdated(q, [q EXCEPT !.stale = TRUE, !.gone = @ \cup d])
          BY <3>1, StaleFields
        <4>2. QED BY <3>2, <4>1
      <3>4. KnownOK(req'[g], teams', member')
        BY <3>1, <3>3, StaleIsKnown
      <3>5. QED BY <3>3, <3>4 DEF Outdated
    <2>5. QED BY <2>1, <2>2, <2>3, <2>4
  <1>2. req' \in [Handlers -> ActiveRequest \cup {NoReq}]
    BY <1>1 DEF Outdate
  <1>3. TypeOK' BY <1>2 DEF TeamInv, TypeOK
  <1>4. QED BY <1>1, <1>3 DEF TeamInv

-----------------------------------------------------------------------------
(* The requests that begin. *)

LEMMA RequestTyped ==
  ASSUME TypeOK, NEW pc \in {"choose", "create", "join", "update", "delete", "save", "lock"},
         NEW who \in SUBSET Regs, NEW todo \in Places
  PROVE  /\ Request(pc, who, todo) \in ActiveRequest
         /\ Request(pc, who, todo).pc = pc /\ Request(pc, who, todo).reg = who
         /\ Request(pc, who, todo).todo = todo /\ Request(pc, who, todo).cfg = cfg
         /\ Request(pc, who, todo).gone = {} /\ ~Request(pc, who, todo).stale
  <1>1. cfg \in Configs /\ 0 \in 0..MaxTeams
    BY ConfigKnown DEF TypeOK
  <1>2. NoRun \in Runs BY RunsOf
  <1>3. QED BY <1>1, <1>2 DEF Request, ActiveRequest

LEMMA BeginKeeps ==
  ASSUME TeamInv, NEW h \in Handlers, NEW op, NEW q \in ActiveRequest,
         Begin(h, op, q), KnownOK(q, teams, member)
  PROVE  TeamInv'
  BY ReadKeeps DEF Begin

LEMMA MemberOf ==
  ASSUME TypeOK, NEW r \in Regs
  PROVE  /\ member[r] \in {NoTeam} \cup DOMAIN teams
         /\ DOMAIN teams \subseteq 1..MaxTeams /\ Len(teams) \in Nat /\ MaxTeams \in Nat
         /\ DOMAIN teams = 1..Len(teams)
  BY AssignmentAssumption DEF TypeOK

LEMMA CheckInKeeps ==
  ASSUME TeamInv, NEW h \in Handlers, NEW r \in Regs, CheckIn(h, r) PROVE TeamInv'
  <1> DEFINE q == Request("choose", {r}, <<>>)
  <1>1. /\ q \in ActiveRequest /\ q.pc = "choose" /\ q.reg = {r} /\ q.gone = {} /\ ~q.stale
    <2>1. {r} \in SUBSET Regs OBVIOUS
    <2>2. q \in ActiveRequest BY <2>1, NoPlaces, RequestTyped DEF TeamInv
    <2>3. QED BY <2>2 DEF Request
  <1>2. Begin(h, "checkin", q) BY DEF CheckIn
  <1> HIDE DEF q
  <1>3. KnownOK(q, teams, member) BY <1>1 DEF KnownOK
  <1>4. QED BY <1>1, <1>2, <1>3, BeginKeeps

LEMMA MoveKeeps ==
  ASSUME TeamInv, NEW h \in Handlers, NEW r \in Regs, NEW t \in DOMAIN teams, MoveMember(h, t, r)
  PROVE  TeamInv'
  <1> DEFINE q == Request("update", {}, To(r, t))
  <1>1. To(r, t) \in [{r} -> 1..MaxTeams] /\ To(r, t)[r] = t
    BY MemberOf DEF To, TeamInv
  <1>2. To(r, t) \in Places BY <1>1, PlacesAre
  <1>3. /\ q \in ActiveRequest /\ q.pc = "update" /\ q.todo = To(r, t) /\ q.cfg = cfg
        /\ q.gone = {} /\ ~q.stale
    BY <1>2, RequestTyped DEF TeamInv
  <1>4. Begin(h, "move", q) BY DEF MoveMember
  <1> HIDE DEF q
  <1>5. DOMAIN q.todo = {r} /\ q.todo[r] = t BY <1>1, <1>3
  <1>6. MoveOK(q, teams, member)
    BY <1>3, <1>5 DEF MoveOK, MoveMember, Roster, On
  <1>7. UpdateOK(q, teams, member) BY <1>5, <1>6 DEF UpdateOK
  <1>8. KnownOK(q, teams, member) BY <1>3, <1>7 DEF KnownOK
  <1>9. QED BY <1>3, <1>4, <1>8, BeginKeeps

LEMMA SwapKeeps ==
  ASSUME TeamInv, NEW h \in Handlers, NEW r \in Regs, NEW s \in Regs, SwapMembers(h, r, s)
  PROVE  TeamInv'
  <1> DEFINE f == [x \in {r, s} |-> IF x = r THEN member[s] ELSE member[r]]
             q == Request("update", {}, f)
  <1>1. /\ member[r] # NoTeam /\ member[s] # NoTeam /\ member[r] # member[s]
        /\ ~teams[member[r]].locked /\ ~teams[member[s]].locked
    BY DEF SwapMembers
  <1>2. member[r] \in DOMAIN teams /\ member[s] \in DOMAIN teams
    BY <1>1, MemberOf DEF TeamInv
  <1>3. f \in [{r, s} -> 1..MaxTeams] /\ f[r] = member[s] /\ f[s] = member[r]
    BY <1>1, <1>2, MemberOf DEF TeamInv
  <1>4. f \in Places BY <1>3, PlacesAre
  <1>5. /\ q \in ActiveRequest /\ q.pc = "update" /\ q.todo = f
        /\ q.gone = {} /\ ~q.stale
    BY <1>4, RequestTyped DEF TeamInv
  <1>6. Begin(h, "swap", q) BY DEF SwapMembers
  <1> HIDE DEF q, f
  <1>7. DOMAIN q.todo = {r, s} /\ q.todo[r] = member[s] /\ q.todo[s] = member[r]
    BY <1>3, <1>5
  <1>8. SwapOK(q, teams, member) BY <1>1, <1>7 DEF SwapOK
  <1>9. UpdateOK(q, teams, member) BY <1>2, <1>7, <1>8 DEF UpdateOK
  <1>10. KnownOK(q, teams, member) BY <1>5, <1>9 DEF KnownOK
  <1>11. QED BY <1>5, <1>6, <1>10, BeginKeeps

LEMMA UnassignKeeps ==
  ASSUME TeamInv, NEW h \in Handlers, NEW r \in Regs, Unassign(h, r) PROVE TeamInv'
  <1> DEFINE q == Request("delete", {r}, <<>>)
  <1>1. /\ q \in ActiveRequest /\ q.pc = "delete" /\ q.reg = {r} /\ q.gone = {} /\ ~q.stale
    <2>1. {r} \in SUBSET Regs OBVIOUS
    <2>2. q \in ActiveRequest BY <2>1, NoPlaces, RequestTyped DEF TeamInv
    <2>3. QED BY <2>2 DEF Request
  <1>2. Begin(h, "unassign", q) BY DEF Unassign
  <1>3. member[r] \in DOMAIN teams /\ ~Captained(teams, member[r]) /\ ~teams[member[r]].locked
    BY MemberOf DEF Unassign, Sealed, Captained, TeamInv
  <1> HIDE DEF q
  <1>4. DeleteOK(q, teams, member) BY <1>1, <1>3 DEF DeleteOK
  <1>5. KnownOK(q, teams, member) BY <1>1, <1>4 DEF KnownOK
  <1>6. QED BY <1>1, <1>2, <1>5, BeginKeeps

LEMMA LockKeeps ==
  ASSUME TeamInv, NEW h \in Handlers, LockTeams(h) PROVE TeamInv'
  <1> DEFINE p == Request("lock", {}, <<>>)
             q == [p EXCEPT !.upTo = Len(teams)]
  <1>1. p \in ActiveRequest /\ p.pc = "lock" /\ p.gone = {} /\ ~p.stale
    BY RequestTyped, NoPlaces DEF TeamInv
  <1>2. Begin(h, "lock", q) BY DEF LockTeams
  <1>3. Len(teams) \in 0..MaxTeams
    BY AssignmentAssumption DEF TeamInv, TypeOK
  <1> HIDE DEF p
  <1>4. q \in ActiveRequest /\ q.pc = "lock" /\ q.gone = {} /\ ~q.stale
    BY <1>1, <1>3 DEF ActiveRequest
  <1> HIDE DEF q
  <1>5. KnownOK(q, teams, member) BY <1>4 DEF KnownOK
  <1>6. QED BY <1>2, <1>4, <1>5, BeginKeeps

-----------------------------------------------------------------------------
(* A check-in. *)

LEMMA PoolIsOpen ==
  ASSUME NEW c, NEW r PROVE Pool(c, r) \subseteq Open(c)
  <1>1. Candidates(c, r) \subseteq Open(c) BY DEF Candidates
  <1>2. {t \in Open(c) : SameDomain(t, r)} \subseteq Open(c) OBVIOUS
  <1>3. QED BY <1>1, <1>2 DEF Pool

LEMMA ToIsPlace ==
  ASSUME NEW r \in Regs, NEW t \in 1..MaxTeams
  PROVE  /\ To(r, t) \in Places /\ DOMAIN To(r, t) = {r} /\ To(r, t)[r] = t
  <1>1. To(r, t) \in [{r} -> 1..MaxTeams] /\ To(r, t)[r] = t /\ DOMAIN To(r, t) = {r}
    BY DEF To
  <1>2. QED BY <1>1, PlacesAre

(* Choose finds a team that is open, or the number of the next one. *)
LEMMA ChooseKeeps ==
  ASSUME TeamInv, NEW h \in Handlers, Choose(h) PROVE TeamInv'
  <1> PICK p : p = req[h] OBVIOUS
  <1>1. p \in ActiveRequest /\ p.pc = "choose" /\ KnownOK(p, teams, member)
    BY Reached DEF Choose, TeamInv
  <1>2. ~p.stale /\ p.gone = {} BY <1>1 DEF KnownOK
  <1>3. PICK r \in Regs : p.reg = {r} BY <1>1 DEF KnownOK
  <1> DEFINE c == p.cfg
  <1>4. c \in Configs /\ c.teams \in Nat /\ c.teams <= MaxTeams
    BY <1>1, ActiveFields, ConfigKnown
  <1>5. CASE \E t \in Best(c, r, Pool(c, r)) :
               req' = [req EXCEPT ![h] = [@ EXCEPT !.pc = "join", !.todo = To(r, t)]]
    <2>1. PICK t \in Best(c, r, Pool(c, r)) :
               req' = [req EXCEPT ![h] = [@ EXCEPT !.pc = "join", !.todo = To(r, t)]]
      BY <1>5
    <2>2. t \in Open(c)
      BY PoolIsOpen DEF Best
    <2>3. t \in DOMAIN teams /\ t \in 1..MaxTeams
      BY <2>2, AssignmentAssumption DEF Open, TeamInv, TypeOK
    <2> DEFINE j == [p EXCEPT !.pc = "join", !.todo = To(r, t)]
    <2>4. /\ j \in ActiveRequest /\ j.pc = "join" /\ j.todo = To(r, t) /\ j.reg = {r}
          /\ j.cfg = c /\ ~j.stale /\ j.gone = {}
      <3>1. To(r, t) \in Places BY <2>3, ToIsPlace
      <3>2. QED BY <1>1, <1>2, <1>3, <3>1 DEF ActiveRequest
    <2>5. req' = [req EXCEPT ![h] = j] BY <2>1 DEF TeamInv, TypeOK
    <2> HIDE DEF j
    <2>6. r \in DOMAIN j.todo /\ j.todo[r] = t
      <3>1. DOMAIN To(r, t) = {r} /\ To(r, t)[r] = t BY <2>3, ToIsPlace
      <3>2. QED BY <2>4, <3>1
    <2>7. JoinOK(j, teams, member)
      BY <2>2, <2>3, <2>4, <2>6 DEF JoinOK, Open, Sealed, Captained, Roster, On
    <2>8. KnownOK(j, teams, member) BY <2>4, <2>7 DEF KnownOK
    <2>9. QED BY <2>4, <2>5, <2>8, ReadKeeps DEF Choose
  <1>6. CASE /\ Len(teams) < c.teams
             /\ req' = [req EXCEPT ![h] = [@ EXCEPT !.pc = "create", !.upTo = Len(teams) + 1]]
    <2> DEFINE n == [p EXCEPT !.pc = "create", !.upTo = Len(teams) + 1]
    <2>1. Len(teams) + 1 \in 1..c.teams /\ Len(teams) + 1 \in 0..MaxTeams
      BY <1>4, <1>6, MemberOf, AssignmentAssumption DEF TeamInv, TypeOK
    <2>2. /\ n \in ActiveRequest /\ n.pc = "create" /\ n.upTo = Len(teams) + 1 /\ n.reg = {r}
          /\ n.cfg = c /\ ~n.stale /\ n.gone = {}
      BY <1>1, <1>2, <1>3, <2>1 DEF ActiveRequest
    <2>3. req' = [req EXCEPT ![h] = n] BY <1>6 DEF TeamInv, TypeOK
    <2> HIDE DEF n
    <2>4. KnownOK(n, teams, member) BY <2>1, <2>2 DEF KnownOK
    <2>5. QED BY <2>2, <2>3, <2>4, ReadKeeps DEF Choose
  <1>7. CASE req' = [req EXCEPT ![h] = NoReq]
    BY <1>7, ReadKeeps, IdleIsKnown DEF Choose
  <1>8. QED
    <2>1. PICK x \in req[h].reg :
            \/ \E t \in Best(c, x, Pool(c, x)) :
                 req' = [req EXCEPT ![h] = [@ EXCEPT !.pc = "join", !.todo = To(x, t)]]
            \/ /\ Len(teams) < c.teams
               /\ req' = [req EXCEPT ![h] = [@ EXCEPT !.pc = "create", !.upTo = Len(teams) + 1]]
            \/ req' = [req EXCEPT ![h] = NoReq]
      BY DEF Choose
    <2>2. x = r BY <1>3
    <2>3. QED BY <1>5, <1>6, <1>7, <2>1, <2>2

LEMMA Appended ==
  ASSUME TypeOK, Len(teams) < MaxTeams, NEW row \in TeamRow
  PROVE  LET us == Append(teams, row)
         IN  /\ us \in Seq(TeamRow) /\ Len(us) = Len(teams) + 1 /\ Len(us) <= MaxTeams
             /\ Extended(teams, us) /\ us[Len(us)] = row
             /\ DOMAIN us = DOMAIN teams \cup {Len(us)} /\ Len(us) \in 1..MaxTeams
  <1>1. teams \in Seq(TeamRow) /\ Len(teams) \in Nat /\ MaxTeams \in Nat
    BY AssignmentAssumption DEF TypeOK
  <1>2. QED BY <1>1 DEF Extended

(* The new team takes the first member the check-in is about. *)
LEMMA CreateKeeps ==
  ASSUME TeamInv, NEW h \in Handlers, Create(h) PROVE TeamInv'
  <1> PICK p : p = req[h] OBVIOUS
  <1>1. p \in ActiveRequest /\ p.pc = "create" /\ KnownOK(p, teams, member)
    BY Reached DEF Create, TeamInv
  <1>2. PICK r \in Regs : p.reg = {r} BY <1>1 DEF KnownOK
  <1>3. p.upTo = Len(teams) + 1 /\ p.upTo \in 1..p.cfg.teams /\ p.cfg \in Configs
    BY <1>1, ActiveFields DEF Create, KnownOK
  <1>4. Len(teams) < MaxTeams
    BY <1>3, ConfigKnown, MemberOf DEF TeamInv, TypeOK
  <1> DEFINE row == [domain |-> DomainOf[r], locked |-> FALSE, origin |-> "auto"]
             us  == Append(teams, row)
             j   == [p EXCEPT !.pc = "join", !.todo = To(r, p.upTo)]
  <1>5. row \in TeamRow BY DEF TeamRow
  <1>6. /\ us \in Seq(TeamRow) /\ Len(us) = Len(teams) + 1 /\ Len(us) <= MaxTeams
        /\ Extended(teams, us) /\ us[Len(us)] = row
        /\ DOMAIN us = DOMAIN teams \cup {Len(us)} /\ Len(us) \in 1..MaxTeams
    BY <1>4, <1>5, Appended DEF TeamInv
  <1>7. StoreTeams(h, us, j)
    BY <1>2 DEF Create
  <1>8. p.upTo \in 1..MaxTeams BY <1>3, <1>6
  <1>9. /\ j \in ActiveRequest /\ j.pc = "join" /\ j.todo = To(r, p.upTo) /\ j.reg = {r}
        /\ j.cfg = p.cfg /\ j.stale = p.stale /\ j.gone = p.gone
    <2>1. To(r, p.upTo) \in Places BY <1>8, ToIsPlace
    <2>2. QED BY <1>1, <1>2, <2>1 DEF ActiveRequest
  <1> HIDE DEF us, j
  <1>10. On(member, Len(us)) = {}
    BY <1>6, MemberOf, AssignmentAssumption DEF On, NoTeam, TeamInv, TypeOK
  <1>11. r \in DOMAIN j.todo /\ j.todo[r] = Len(us)
    <2>1. /\ p.upTo = Len(us) /\ DOMAIN To(r, p.upTo) = {r} /\ To(r, p.upTo)[r] = p.upTo
      BY <1>3, <1>6, <1>8, ToIsPlace
    <2>2. QED BY <1>9, <2>1
  <1>12. Cardinality(On(member, Len(us))) < j.cfg.size
    BY <1>3, <1>9, <1>10, ConfigKnown, FS_EmptySet
  <1>13. JoinOK(j, us, member)
    BY <1>6, <1>9, <1>11, <1>12 DEF JoinOK, Captained
  <1>14. KnownOK(j, us, member)
    BY <1>1, <1>2, <1>9, <1>13 DEF KnownOK
  <1>15. member \in [Regs -> {NoTeam} \cup DOMAIN us]
    BY <1>6 DEF TeamInv, TypeOK
  <1>16. QED
    <2>1. /\ teams' = us /\ Outdate(h, j, {}) /\ member' = member /\ UNCHANGED cfg
      BY <1>7 DEF StoreTeams
    <2>2. QED BY <1>6, <1>9, <1>14, <1>15, <2>1, StoreKeeps

(* A step that stores members and no team. *)
LEMMA MembersKeep ==
  ASSUME TeamInv, NEW h \in Handlers, NEW new \in [Regs -> {NoTeam} \cup DOMAIN teams],
         NEW next \in ActiveRequest \cup {NoReq}, KnownOK(next, teams, new),
         StoreMembers(h, new, next)
  PROVE  TeamInv'
  <1> DEFINE d == {r \in Regs : member[r] # NoTeam /\ new[r] = NoTeam}
  <1>1. d \in SUBSET Regs OBVIOUS
  <1>2. /\ member' = new /\ Outdate(h, next, d) /\ teams' = teams /\ UNCHANGED cfg
    BY DEF StoreMembers
  <1> HIDE DEF d
  <1>3. teams \in Seq(TeamRow) /\ Len(teams) <= MaxTeams /\ Extended(teams, teams)
    BY DEF Extended, TeamInv, TypeOK
  <1>4. QED BY <1>1, <1>2, <1>3, StoreKeeps

(* Who is placed on a team that exists is on it afterwards. *)
LEMMA PlacedTyped ==
  ASSUME TypeOK, NEW place, NEW who,
         \A r \in who : place[r] \in DOMAIN teams
  PROVE  /\ Placed(place, who) \in [Regs -> {NoTeam} \cup DOMAIN teams]
         /\ \A r \in Regs : Placed(place, who)[r] = IF r \in who THEN place[r] ELSE member[r]
  BY DEF Placed, TypeOK

LEMMA JoinKeeps ==
  ASSUME TeamInv, NEW h \in Handlers, Join(h) PROVE TeamInv'
  <1> PICK p : p = req[h] OBVIOUS
  <1>1. p \in ActiveRequest /\ p.pc = "join" /\ KnownOK(p, teams, member)
    BY Reached DEF Join, TeamInv
  <1>2. PICK r \in Regs : p.reg = {r} BY <1>1 DEF KnownOK
  <1>3. p.todo[r] \in DOMAIN teams
    BY <1>1, <1>2 DEF KnownOK, JoinOK
  <1>4. CASE StoreMembers(h, Placed(p.todo, {r}), NoReq)
    <2>1. Placed(p.todo, {r}) \in [Regs -> {NoTeam} \cup DOMAIN teams]
      BY <1>3, PlacedTyped DEF TeamInv
    <2>2. QED BY <1>4, <2>1, MembersKeep, IdleIsKnown
  <1>5. CASE Finish(h) BY <1>5, FinishKeeps
  <1>6. QED BY <1>2, <1>4, <1>5 DEF Join

LEMMA UpdateKeeps ==
  ASSUME TeamInv, NEW h \in Handlers, UpdateMembers(h) PROVE TeamInv'
  <1> PICK p : p = req[h] OBVIOUS
  <1>1. p \in ActiveRequest /\ p.pc = "update" /\ KnownOK(p, teams, member)
    BY Reached DEF UpdateMembers, TeamInv
  <1>2. \A r \in DOMAIN p.todo \ p.gone : p.todo[r] \in DOMAIN teams
    BY <1>1 DEF KnownOK, UpdateOK
  <1> DEFINE new == Placed(p.todo, DOMAIN p.todo \ p.gone)
  <1>3. new \in [Regs -> {NoTeam} \cup DOMAIN teams]
    BY <1>2, PlacedTyped DEF TeamInv
  <1>4. StoreMembers(h, new, NoReq) BY DEF UpdateMembers
  <1>5. QED BY <1>3, <1>4, MembersKeep, IdleIsKnown

LEMMA DeleteKeeps ==
  ASSUME TeamInv, NEW h \in Handlers, DeleteMember(h) PROVE TeamInv'
  <1> DEFINE new == [r \in Regs |-> IF r \in req[h].reg \ req[h].gone THEN NoTeam ELSE member[r]]
  <1>1. new \in [Regs -> {NoTeam} \cup DOMAIN teams]
    BY DEF TeamInv, TypeOK
  <1>2. StoreMembers(h, new, NoReq) BY DEF DeleteMember
  <1>3. QED BY <1>1, <1>2, MembersKeep, IdleIsKnown

LEMMA LocksKeep ==
  ASSUME TeamInv, NEW h \in Handlers, SaveLocks(h) PROVE TeamInv'
  <1> PICK n : n = req[h].upTo OBVIOUS
  <1> DEFINE us == [t \in DOMAIN teams |-> [teams[t] EXCEPT !.locked = @ \/ t <= n]]
  <1>1. teams \in Seq(TeamRow) /\ Len(teams) \in Nat /\ DOMAIN teams = 1..Len(teams)
    BY DEF TeamInv, TypeOK
  <1>2. \A t \in DOMAIN teams : us[t] \in TeamRow /\ us[t].origin = teams[t].origin
    <2> TAKE t \in DOMAIN teams
    <2> PICK b \in BOOLEAN : b = (teams[t].locked \/ t <= n) OBVIOUS
    <2>1. teams[t] \in TeamRow BY <1>1
    <2>2. us[t] = [teams[t] EXCEPT !.locked = b] OBVIOUS
    <2>3. QED BY <2>1, <2>2 DEF TeamRow
  <1>3. /\ teams' = us /\ Outdate(h, NoReq, {}) /\ member' = member /\ UNCHANGED cfg
    BY DEF SaveLocks, StoreTeams
  <1>4. us \in Seq(TeamRow) /\ Len(us) = Len(teams)
    BY <1>1, <1>2
  <1>5. Extended(teams, us) /\ DOMAIN us = DOMAIN teams
    BY <1>2 DEF Extended
  <1> HIDE DEF us
  <1>6. Len(us) <= MaxTeams /\ member \in [Regs -> {NoTeam} \cup DOMAIN us]
    BY <1>4, <1>5 DEF TeamInv, TypeOK
  <1>7. QED BY <1>3, <1>4, <1>5, <1>6, StoreKeeps, IdleIsKnown

(* Unlocking a team refuses nothing that was allowed. *)
LEMMA UnlockIsKnown ==
  ASSUME NEW q, NEW ts, NEW us, NEW mem, KnownOK(q, ts, mem), Extended(ts, us),
         DOMAIN us = DOMAIN ts,
         \A t : us[t].locked => ts[t].locked
  PROVE  KnownOK(q, us, mem)
  <1>1. q.pc = "join" => JoinOK(q, us, mem)
    BY DEF KnownOK, JoinOK, Extended, Captained
  <1>2. q.pc = "update" => UpdateOK(q, us, mem)
    <2>1. MoveOK(q, ts, mem) => MoveOK(q, us, mem) BY DEF MoveOK
    <2>2. SwapOK(q, ts, mem) => SwapOK(q, us, mem) BY DEF SwapOK
    <2>3. QED BY <2>1, <2>2 DEF KnownOK, UpdateOK
  <1>3. q.pc = "delete" => DeleteOK(q, us, mem)
    BY DEF KnownOK, DeleteOK, Extended, Captained
  <1>4. q.pc = "save" => SaveOK(q, us, mem)
    BY DEF KnownOK, SaveOK, Extended, Captained
  <1>5. QED BY <1>1, <1>2, <1>3, <1>4 DEF KnownOK

LEMMA UnlockKeeps ==
  ASSUME TeamInv, NEW t \in DOMAIN teams, UnlockTeam(t) PROVE TeamInv'
  <1>1. teams \in Seq(TeamRow) /\ teams' = [teams EXCEPT ![t] = [@ EXCEPT !.locked = FALSE]]
    BY DEF UnlockTeam, TeamInv, TypeOK
  <1>2. teams[t] \in TeamRow BY <1>1
  <1> PICK row : row = [teams[t] EXCEPT !.locked = FALSE] OBVIOUS
  <1>3. row \in TeamRow /\ ~row.locked /\ row.origin = teams[t].origin
    BY <1>2 DEF TeamRow
  <1>4. teams' = [teams EXCEPT ![t] = row] BY <1>1
  <1>5. teams' \in Seq(TeamRow) /\ DOMAIN teams' = DOMAIN teams /\ Len(teams') = Len(teams)
    BY <1>1, <1>3, <1>4
  <1>6. \A u : teams'[u].locked => teams[u].locked
    BY <1>1, <1>3, <1>4
  <1>7. Extended(teams, teams')
    BY <1>1, <1>3, <1>4 DEF Extended
  <1>8. \A h \in Handlers : KnownOK(req[h], teams', member)
    <2> TAKE h \in Handlers
    <2>1. KnownOK(req[h], teams, member) BY DEF TeamInv
    <2>2. QED BY <1>5, <1>6, <1>7, <2>1, UnlockIsKnown
  <1>9. QED BY <1>5, <1>8 DEF UnlockTeam, TeamInv, TypeOK

LEMMA RegisterKeeps ==
  ASSUME TeamInv, NEW roster \in SUBSET Regs, RegisterTeam(roster) PROVE TeamInv'
  <1>1. Len(teams) < MaxTeams /\ UNCHANGED cfg
        /\ member' = [r \in Regs |-> IF r \in roster THEN Len(teams) + 1 ELSE member[r]]
        /\ req' = [h \in Handlers |-> IF req[h].pc \in {"idle", "choose"} THEN req[h]
                                      ELSE [req[h] EXCEPT !.stale = TRUE]]
    BY DEF RegisterTeam
  <1>2. PICK r \in roster : teams' = Append(teams, [domain |-> DomainOf[r], locked |-> FALSE,
                                                    origin |-> "self_registered"])
    BY DEF RegisterTeam
  <1> DEFINE row == [domain |-> DomainOf[r], locked |-> FALSE, origin |-> "self_registered"]
             us  == Append(teams, row)
  <1>3. row \in TeamRow BY DEF TeamRow
  <1>4. /\ us \in Seq(TeamRow) /\ Len(us) = Len(teams) + 1 /\ Len(us) <= MaxTeams
        /\ Extended(teams, us) /\ DOMAIN us = DOMAIN teams \cup {Len(us)}
    BY <1>1, <1>3, Appended DEF TeamInv
  <1>5. teams' = us BY <1>2
  <1> HIDE DEF us
  <1>6. member' \in [Regs -> {NoTeam} \cup DOMAIN us]
    BY <1>1, <1>4 DEF TeamInv, TypeOK
  <1>7. \A h \in Handlers : /\ req'[h] \in ActiveRequest \cup {NoReq}
                            /\ KnownOK(req'[h], teams', member')
    <2> TAKE h \in Handlers
    <2> PICK q : q = req[h] OBVIOUS
    <2>1. CASE q.pc = "idle"
      <3>1. req'[h] = NoReq BY <1>1, <2>1, ActiveFields DEF TeamInv, TypeOK
      <3>2. QED BY <3>1, IdleIsKnown
    <2>2. CASE q.pc = "choose"
      <3>1. req'[h] = q BY <1>1, <2>2
      <3>2. q \in ActiveRequest /\ KnownOK(q, teams, member)
        BY <2>2, Reached DEF TeamInv
      <3>3. QED BY <2>2, <3>1, <3>2 DEF KnownOK
    <2>3. CASE q.pc \notin {"idle", "choose"}
      <3>1. q \in ActiveRequest /\ KnownOK(q, teams, member)
        BY <2>3, Reached DEF TeamInv
      <3>2. req'[h] = [q EXCEPT !.stale = TRUE] BY <1>1, <2>3
      <3>3. Outdated(q, [q EXCEPT !.stale = TRUE]) BY <3>1, StaleFields
      <3>4. Outdated(q, req'[h]) BY <3>2, <3>3
      <3>5. KnownOK(req'[h], teams', member')
        BY <1>4, <1>5, <2>3, <3>1, <3>4, StaleIsKnown
      <3>6. QED BY <3>4, <3>5 DEF Outdated
    <2>4. QED BY <2>1, <2>2, <2>3
  <1>8. req' \in [Handlers -> ActiveRequest \cup {NoReq}]
    BY <1>1, <1>7
  <1>9. TypeOK' BY <1>1, <1>4, <1>5, <1>6, <1>8 DEF TeamInv, TypeOK
  <1>10. QED BY <1>7, <1>9 DEF TeamInv

LEMMA ConfigKeeps ==
  ASSUME TeamInv, NEW c \in Configs, UpdateConfig(c) PROVE TeamInv'
  BY DEF UpdateConfig, TeamInv, TypeOK

-----------------------------------------------------------------------------
(* A rebalance.  Its loops only ever hold people that were on its teams when   *)
(* it read them, and its trades only name these people and these teams.       *)

LEMMA ListOf ==
  ASSUME NEW S, IsFiniteSet(S), NEW s \in SetToSeqs(S)
  PROVE  s \in Seq(S)
  <1>1. Cardinality(S) \in Nat BY FS_CardinalityType
  <1>2. s \in [1..Cardinality(S) -> S] BY DEF SetToSeqs
  <1>3. QED BY <1>1, <1>2

LEMMA PeopleFinite ==
  ASSUME NEW S \in SUBSET Regs PROVE IsFiniteSet(S) /\ Cardinality(S) \in Nat
  BY ScoringAssumption, FS_Subset, FS_CardinalityType

LEMMA TradingFinite == ASSUME TypeOK PROVE IsFiniteSet(Trading) /\ Trading \subseteq DOMAIN teams
  <1>1. teams \in Seq(TeamRow) BY DEF TypeOK
  <1>2. Len(teams) \in Nat /\ DOMAIN teams = 1..Len(teams) BY <1>1
  <1>3. Trading \in SUBSET (1..Len(teams)) BY <1>2 DEF Trading
  <1>4. IsFiniteSet(1..Len(teams)) BY <1>2, FS_Interval
  <1>5. IsFiniteSet(Trading) BY <1>3, <1>4, FS_Subset
  <1>6. QED BY <1>2, <1>3, <1>5

(* The arrays of the loops hold people of P. *)
LEMMA ArraysOf ==
  ASSUME NEW run \in Runs, NEW T, NEW P \in SUBSET Regs, Lists(run, T, P), NEW q,
         q[2] \in DOMAIN run.order, q[3] \in DOMAIN run.order
  PROVE  ArrayA(run, q) \in Seq(P) /\ ArrayB(run, q) \in Seq(P)
  <1>1. run.order[q[2]] \in T /\ run.order[q[3]] \in T
    BY DEF Lists
  <1>2. run.of[run.order[q[2]]] \in Seq(P) /\ run.of[run.order[q[3]]] \in Seq(P)
    BY <1>1 DEF Lists
  <1>3. QED BY <1>2 DEF ArrayA, ArrayB, Lists

LEMMA ReplaceOf ==
  ASSUME NEW P, NEW s \in Seq(P), NEW x, NEW y \in P
  PROVE  Replace(s, x, y) \in Seq(P)
  <1>1. \A i \in DOMAIN s : (IF s[i] = x THEN y ELSE s[i]) \in P
    OBVIOUS
  <1>2. DOMAIN s = 1..Len(s) /\ Len(s) \in Nat OBVIOUS
  <1>3. QED BY <1>1, <1>2 DEF Replace

LEMMA NextTradeIs ==
  ASSUME NEW c, NEW D, NEW run \in Runs, NEW q \in NextTrade(c, D, run)
  PROVE  /\ q \in Nat \X Nat \X Nat \X Nat \X Nat
         /\ q[2] \in DOMAIN run.order /\ q[3] \in DOMAIN run.order
         /\ q[4] \in DOMAIN ArrayA(run, q) /\ q[5] \in DOMAIN ArrayB(run, q)
  <1> DEFINE passes == {run.at[1], run.at[1] + 1} \cap 1..5
             people == 1..Cardinality(Regs)
  <1>1. /\ q \in passes \X (DOMAIN run.order) \X (DOMAIN run.order) \X people \X people
        /\ q[4] \in DOMAIN ArrayA(run, q) /\ q[5] \in DOMAIN ArrayB(run, q)
    BY DEF NextTrade
  <1>2. passes \subseteq Nat /\ people \subseteq Nat /\ DOMAIN run.order \subseteq Nat
    <2>1. people \subseteq Nat /\ passes \subseteq Nat
      BY PeopleFinite
    <2>2. DOMAIN run.order = 1..Len(run.order) /\ Len(run.order) \in Nat
      BY RunsOf
    <2>3. QED BY <2>1, <2>2
  <1> HIDE DEF passes, people
  <1>3. QED BY <1>1, <1>2

LEMMA TradeIs ==
  ASSUME NEW c, NEW D, NEW run \in Runs, NEW q \in NextTrade(c, D, run),
         NEW T \in SUBSET (1..MaxTeams), NEW P \in SUBSET Regs, Lists(run, T, P)
  PROVE  /\ Trade(run, q) \in Places /\ DOMAIN Trade(run, q) \subseteq P
         /\ \A r \in DOMAIN Trade(run, q) : Trade(run, q)[r] \in T
         /\ Traded(run, q) \in Runs /\ Traded(run, q).order = run.order
         /\ Lists(Traded(run, q), T, P)
  <1>1. /\ q \in Nat \X Nat \X Nat \X Nat \X Nat
        /\ q[2] \in DOMAIN run.order /\ q[3] \in DOMAIN run.order
        /\ q[4] \in DOMAIN ArrayA(run, q) /\ q[5] \in DOMAIN ArrayB(run, q)
    BY NextTradeIs
  <1> PICK as, bs, a, b, ma, mb :
        /\ as = ArrayA(run, q) /\ bs = ArrayB(run, q)
        /\ a = run.order[q[2]] /\ b = run.order[q[3]] /\ ma = as[q[4]] /\ mb = bs[q[5]]
    OBVIOUS
  <1>2. as \in Seq(P) /\ bs \in Seq(P) BY <1>1, ArraysOf
  <1>3. ma \in P /\ mb \in P BY <1>1, <1>2
  <1>4. a \in T /\ b \in T BY <1>1 DEF Lists
  <1>5. run.of \in Seq(Seq(Regs)) /\ run.order \in Seq(1..MaxTeams) BY RunsOf
  <1>6. /\ T \subseteq DOMAIN run.of /\ \A t \in T : run.of[t] \in Seq(P)
        /\ run.order \in Seq(T)
    BY DEF Lists
  <1>7. /\ DOMAIN Trade(run, q) = {ma, mb}
        /\ \A r \in {ma, mb} : Trade(run, q)[r] = IF r = ma THEN b ELSE a
        /\ Trade(run, q) \in [{ma, mb} -> T]
    BY <1>4 DEF Trade
  <1>8. Trade(run, q) \in Places
    <2>1. {ma, mb} \in SUBSET Regs /\ Trade(run, q) \in [{ma, mb} -> 1..MaxTeams]
      BY <1>3, <1>7
    <2>2. QED BY <2>1, PlacesAre
  <1> PICK na, nb : na = Replace(run.of[a], ma, mb) /\ nb = Replace(run.of[b], mb, ma)
    OBVIOUS
  <1>9. na \in Seq(P) /\ nb \in Seq(P)
    BY <1>3, <1>4, <1>6, ReplaceOf
  <1>10. Seq(P) \subseteq Seq(Regs) OBVIOUS
  <1> PICK of : of = AfterTrade(run, q) OBVIOUS
  <1>11. of = [run.of EXCEPT ![a] = na, ![b] = nb]
    BY DEF AfterTrade
  <1>12. /\ of \in Seq(Seq(Regs)) /\ DOMAIN of = DOMAIN run.of
         /\ \A t \in T : of[t] \in Seq(P)
    <2>1. DOMAIN of = DOMAIN run.of /\ \A t \in DOMAIN of : of[t] \in {run.of[t], na, nb}
      BY <1>11
    <2>2. \A t \in T : of[t] \in {run.of[t], na, nb}
      BY <1>6, <2>1
    <2>3. \A t \in T : of[t] \in Seq(P) BY <1>6, <1>9, <2>2
    <2>4. \A t \in DOMAIN of : of[t] \in Seq(Regs)
      <3> TAKE t \in DOMAIN of
      <3>1. t \in DOMAIN run.of BY <2>1
      <3>2. run.of[t] \in Seq(Regs) BY <1>5, <3>1
      <3>3. na \in Seq(Regs) /\ nb \in Seq(Regs) BY <1>9, <1>10
      <3>4. QED BY <2>1, <3>2, <3>3
    <2>5. of \in [DOMAIN run.of -> Seq(Regs)] BY <1>11, <2>1, <2>4
    <2>6. DOMAIN run.of = 1..Len(run.of) /\ Len(run.of) \in Nat BY <1>5
    <2>7. of \in Seq(Seq(Regs)) BY <2>5, <2>6
    <2>8. QED BY <2>1, <2>3, <2>7
  <1> PICK run2 : run2 = Traded(run, q) OBVIOUS
  <1>13. /\ run2 \in Runs /\ run2.order = run.order /\ run2.of = of
         /\ run2.as = as /\ run2.bs = bs
    BY <1>1, <1>2, <1>10, <1>12 DEF Traded, Runs
  <1>14. Lists(run2, T, P)
    BY <1>2, <1>6, <1>12, <1>13 DEF Lists
  <1>15. QED BY <1>3, <1>4, <1>7, <1>8, <1>13, <1>14

LEMMA SeqWiden == ASSUME NEW P, NEW Q, P \subseteq Q PROVE Seq(P) \subseteq Seq(Q)
  OBVIOUS

LEMMA ListsWiden ==
  ASSUME NEW run, NEW T, NEW P, NEW Q, P \subseteq Q, Lists(run, T, P)
  PROVE  Lists(run, T, Q)
  <1>1. Seq(P) \subseteq Seq(Q) OBVIOUS
  <1>2. QED BY <1>1 DEF Lists

LEMMA RebalanceKeeps ==
  ASSUME TeamInv, NEW h \in Handlers, Rebalance(h) PROVE TeamInv'
  <1>1. PICK order \in SetToSeqs(Trading), of \in Listed :
          LET start == [NoRun EXCEPT !.order = order, !.of = of] IN
          \E q \in NextTrade(cfg, Domains, start) :
            Begin(h, "rebalance", [Request("save", {}, Trade(start, q)) EXCEPT !.run = Traded(start, q)])
    BY DEF Rebalance
  <1> PICK start : start = [NoRun EXCEPT !.order = order, !.of = of] OBVIOUS
  <1>2. PICK q \in NextTrade(cfg, Domains, start) :
          Begin(h, "rebalance", [Request("save", {}, Trade(start, q)) EXCEPT !.run = Traded(start, q)])
    BY <1>1
  <1>3. /\ teams \in Seq(TeamRow) /\ Len(teams) \in Nat /\ DOMAIN teams = 1..Len(teams)
        /\ DOMAIN teams \subseteq 1..MaxTeams
    BY AssignmentAssumption DEF TeamInv, TypeOK
  <1>4. order \in Seq(Trading) BY TradingFinite, ListOf DEF TeamInv
  <1> DEFINE T == {order[i] : i \in DOMAIN order}
             P == Within(member, T)
  <1>5. T \subseteq Trading /\ order \in Seq(T) /\ T \subseteq DOMAIN teams /\ T \in SUBSET (1..MaxTeams)
    <2>1. order \in [1..Len(order) -> Trading] /\ Len(order) \in Nat /\ DOMAIN order = 1..Len(order)
      BY <1>4
    <2>2. order \in [1..Len(order) -> T] BY <2>1
    <2>3. T \subseteq Trading BY <2>1
    <2> HIDE DEF T
    <2>4. order \in Seq(T) BY <2>1, <2>2
    <2>5. T \subseteq DOMAIN teams BY <2>3, TradingFinite DEF TeamInv
    <2>6. QED BY <1>3, <2>3, <2>4, <2>5
  <1>6. \A t \in DOMAIN teams : of[t] \in Seq(Roster(t))
    <2> TAKE t \in DOMAIN teams
    <2>1. of[t] \in SetToSeqs(Roster(t)) BY DEF Listed
    <2>2. IsFiniteSet(Roster(t)) BY PeopleFinite DEF Roster
    <2>3. QED BY <2>1, <2>2, ListOf
  <1>7. of \in Seq(Seq(Regs)) /\ DOMAIN of = DOMAIN teams
    <2>1. DOMAIN of = DOMAIN teams BY DEF Listed
    <2>2. \A t \in DOMAIN of : of[t] \in Seq(Regs)
      <3> TAKE t \in DOMAIN of
      <3>1. of[t] \in Seq(Roster(t)) BY <1>6, <2>1
      <3>2. Roster(t) \subseteq Regs BY DEF Roster
      <3>3. QED BY <3>1, <3>2
    <2>3. of \in [DOMAIN teams -> Seq(Regs)] BY <2>1, <2>2 DEF Listed
    <2>4. QED BY <1>3, <2>1, <2>3
  <1>8. \A t \in T : of[t] \in Seq(P)
    <2> TAKE t \in T
    <2>1. of[t] \in Seq(Roster(t)) BY <1>5, <1>6
    <2>2. Roster(t) \subseteq P BY DEF Roster, Within
    <2> HIDE DEF P, T
    <2>3. QED BY <2>1, <2>2
  <1> HIDE DEF P, T
  <1>9. /\ start \in Runs /\ start.order = order /\ start.of = of
        /\ start.as = <<>> /\ start.bs = <<>>
    <2>1. order \in Seq(1..MaxTeams)
      <3>1. Seq(T) \subseteq Seq(1..MaxTeams) BY <1>5, SeqWiden
      <3>2. QED BY <1>5, <3>1
    <2>2. NoRun \in Runs BY RunsOf
    <2>3. QED BY <1>7, <2>1, <2>2 DEF Runs, NoRun
  <1>10. Lists(start, T, P)
    <2>1. <<>> \in Seq(P) OBVIOUS
    <2>2. \A t \in T : start.of[t] \in Seq(P) BY <1>8, <1>9
    <2>3. start.order \in Seq(T) /\ T \subseteq DOMAIN start.of BY <1>5, <1>7, <1>9
    <2>4. QED BY <1>9, <2>1, <2>2, <2>3 DEF Lists
  <1>11. P \in SUBSET Regs BY DEF P, Within
  <1> PICK todo, run : todo = Trade(start, q) /\ run = Traded(start, q) OBVIOUS
  <1>trades. ASSUME NEW c, NEW D, NEW st \in Runs, NEW x \in NextTrade(c, D, st), Lists(st, T, P)
         PROVE  /\ Trade(st, x) \in Places /\ DOMAIN Trade(st, x) \subseteq P
                /\ \A r \in DOMAIN Trade(st, x) : Trade(st, x)[r] \in T
                /\ Traded(st, x) \in Runs /\ Lists(Traded(st, x), T, P)
    <2>1. T \in SUBSET (1..MaxTeams) BY <1>5
    <2>2. QED BY <1>11, <1>trades, <2>1, TradeIs
  <1>12. /\ todo \in Places /\ DOMAIN todo \subseteq P /\ \A r \in DOMAIN todo : todo[r] \in T
         /\ run \in Runs /\ run.order = order /\ Lists(run, T, P)
    <2>1. q \in NextTrade(cfg, Domains, start) OBVIOUS
    <2>2. start \in Runs BY <1>9
    <2>3. /\ Trade(start, q) \in Places /\ DOMAIN Trade(start, q) \subseteq P
          /\ \A r \in DOMAIN Trade(start, q) : Trade(start, q)[r] \in T
          /\ Traded(start, q) \in Runs /\ Lists(Traded(start, q), T, P)
      BY <1>10, <1>trades, <2>1, <2>2
    <2>4. Traded(start, q).order = start.order
      BY <1>9 DEF Traded, Runs
    <2>5. QED BY <1>9, <2>3, <2>4
  <1> PICK p : p = Request("save", {}, todo) OBVIOUS
  <1>13. p \in ActiveRequest /\ p.pc = "save" /\ p.todo = todo /\ p.gone = {} /\ ~p.stale
    BY <1>12, RequestTyped DEF TeamInv
  <1> DEFINE n == [p EXCEPT !.run = run]
  <1>14. n \in ActiveRequest /\ n.pc = "save" /\ n.todo = todo /\ n.gone = {} /\ ~n.stale /\ n.run = run
    BY <1>12, <1>13 DEF ActiveRequest
  <1>15. Begin(h, "rebalance", n) BY <1>2
  <1> HIDE DEF n
  <1>16. Ends(n) = T BY <1>12, <1>14 DEF Ends, T
  <1>17. Lists(run, T, Regs) BY <1>11, <1>12, ListsWiden
  <1>18. \A t \in T : ~Captained(teams, t) /\ ~teams[t].locked
    BY <1>5 DEF Trading, Sealed, Captained
  <1>19. SaveOK(n, teams, member)
    BY <1>5, <1>12, <1>14, <1>16, <1>17, <1>18 DEF SaveOK, P
  <1>20. KnownOK(n, teams, member) BY <1>14, <1>19 DEF KnownOK
  <1>21. QED BY <1>14, <1>15, <1>20, BeginKeeps

(* A trade that is stored, and the next one. *)
LEMMA SaveKeeps ==
  ASSUME TeamInv, NEW h \in Handlers, SaveTrade(h) PROVE TeamInv'
  <1> PICK p : p = req[h] OBVIOUS
  <1>1. p \in ActiveRequest /\ p.pc = "save" /\ KnownOK(p, teams, member)
    BY Reached DEF SaveTrade, TeamInv
  <1>2. SaveOK(p, teams, member) /\ (~p.stale => p.gone = {}) BY <1>1 DEF KnownOK
  <1>3. p.run \in Runs /\ p.todo \in Places BY <1>1, ActiveFields
  <1> DEFINE T == Ends(p)
             new == Placed(p.todo, DOMAIN p.todo)
  <1>4. /\ T \subseteq DOMAIN teams /\ \A t \in T : ~Captained(teams, t)
        /\ \A r \in DOMAIN p.todo : p.todo[r] \in T
        /\ Lists(p.run, T, Regs)
    BY <1>2 DEF SaveOK
  <1>5. T \in SUBSET (1..MaxTeams) BY <1>4, MemberOf, AssignmentAssumption DEF TeamInv, TypeOK
  <1>6. /\ new \in [Regs -> {NoTeam} \cup DOMAIN teams]
        /\ \A r \in Regs : new[r] = IF r \in DOMAIN p.todo THEN p.todo[r] ELSE member[r]
    BY <1>4, PlacedTyped DEF TeamInv
  <1>7. CASE Finish(h) BY <1>7, FinishKeeps
  <1>8. ASSUME NEW next \in Continued(h), StoreMembers(h, new, next) PROVE TeamInv'
    <2>1. CASE next = NoReq
      BY <1>6, <1>8, <2>1, MembersKeep, IdleIsKnown
    <2>2. CASE next # NoReq
      <3>1. PICK q \in NextTrade(p.cfg, Domains, p.run) :
              next = [p EXCEPT !.todo = Trade(p.run, q), !.run = Traded(p.run, q),
                               !.gone = @ \ DOMAIN p.todo]
        BY <2>2 DEF Continued
      <3> PICK todo, run : todo = Trade(p.run, q) /\ run = Traded(p.run, q) OBVIOUS
      <3>2. /\ todo \in Places /\ \A r \in DOMAIN todo : todo[r] \in T
            /\ run \in Runs /\ run.order = p.run.order /\ Lists(run, T, Regs)
        BY <1>3, <1>4, <1>5, TradeIs
      <3>3. next = [p EXCEPT !.todo = todo, !.run = run, !.gone = @ \ DOMAIN p.todo]
        BY <3>1
      <3>4. /\ next \in ActiveRequest /\ next.pc = "save" /\ next.todo = todo /\ next.run = run
            /\ next.stale = p.stale /\ next.gone = p.gone \ DOMAIN p.todo
        BY <1>1, <3>2, <3>3 DEF ActiveRequest
      <3>5. Ends(next) = T BY <3>2, <3>4 DEF Ends
      <3> HIDE DEF T, new
      <3>6. ASSUME ~p.stale
            PROVE  /\ \A t \in T : ~teams[t].locked
                   /\ Lists(run, T, Within(new, T)) /\ DOMAIN todo \subseteq Within(new, T)
        <4>1. /\ \A t \in T : ~teams[t].locked
              /\ Lists(p.run, T, Within(member, T)) /\ DOMAIN p.todo \subseteq Within(member, T)
          BY <1>2, <3>6 DEF SaveOK, T
        <4>2. Lists(run, T, Within(member, T)) /\ DOMAIN todo \subseteq Within(member, T)
          <5>1. Within(member, T) \in SUBSET Regs BY DEF Within
          <5>2. QED BY <1>3, <1>5, <4>1, <5>1, TradeIs
        <4>3. Within(member, T) \subseteq Within(new, T)
          BY <1>4, <1>6 DEF Within
        <4>4. QED BY <4>1, <4>2, <4>3, ListsWiden
      <3>7. SaveOK(next, teams, new)
        BY <1>4, <3>2, <3>4, <3>5, <3>6 DEF SaveOK
      <3>8. KnownOK(next, teams, new)
        BY <1>2, <3>4, <3>7 DEF KnownOK
      <3>9. QED BY <1>6, <1>8, <3>4, <3>8, MembersKeep
    <2>3. QED BY <2>1, <2>2
  <1>9. QED BY <1>7, <1>8 DEF SaveTrade

-----------------------------------------------------------------------------
LEMMA InvInit == Init => TeamInv
  <1> SUFFICES ASSUME Init PROVE TeamInv OBVIOUS
  <1>1. <<>> \in Seq(TeamRow) /\ Len(<<>>) <= MaxTeams /\ DOMAIN <<>> = {}
    BY AssignmentAssumption
  <1>2. TypeOK BY <1>1 DEF Init, TypeOK
  <1>3. QED BY <1>2, IdleIsKnown DEF Init, TeamInv

LEMMA InvNext == TeamInv /\ [Next]_vars => TeamInv'
  <1> SUFFICES ASSUME TeamInv, [Next]_vars PROVE TeamInv' OBVIOUS
  <1>1. CASE UNCHANGED vars
    BY <1>1 DEF vars, TeamInv, TypeOK
  <1>2. ASSUME NEW h \in Handlers, \/ \E r \in Regs : CheckIn(h, r)
                                   \/ Choose(h) \/ Create(h) \/ CreateTaken(h) \/ Join(h)
        PROVE  TeamInv'
    BY <1>2, CheckInKeeps, ChooseKeeps, CreateKeeps, JoinKeeps, FinishKeeps DEF CreateTaken
  <1>3. ASSUME NEW h \in Handlers, AdminStep(h) PROVE TeamInv'
    BY <1>3, UnassignKeeps, MoveKeeps, SwapKeeps, RebalanceKeeps, LockKeeps DEF AdminStep
  <1>4. ASSUME NEW h \in Handlers, StoreStep(h) \/ Crash(h) PROVE TeamInv'
    BY <1>4, UpdateKeeps, DeleteKeeps, SaveKeeps, LocksKeep, FinishKeeps DEF StoreStep, Crash
  <1>5. ASSUME NEW roster \in SUBSET Regs, RegisterTeam(roster) PROVE TeamInv'
    BY <1>5, RegisterKeeps
  <1>6. ASSUME NEW t \in DOMAIN teams, UnlockTeam(t) PROVE TeamInv'
    BY <1>6, UnlockKeeps
  <1>7. ASSUME NEW c \in Configs, UpdateConfig(c) PROVE TeamInv'
    BY <1>7, ConfigKeeps
  <1>8. QED BY <1>1, <1>2, <1>3, <1>4, <1>5, <1>6, <1>7 DEF Next

LEMMA InvAlways == Spec => []TeamInv
  BY InvInit, InvNext, PTL DEF Spec

(* Teams, members, settings and the requests in flight keep their types: a      *)
(* member is on a team that exists, and every list and trade of a rebalance    *)
(* names registrations and teams of the event.                              *)
THEOREM TypeCorrect == Spec => []TypeOK
  <1>1. TeamInv => TypeOK BY DEF TeamInv
  <1>2. QED BY <1>1, InvAlways, PTL

-----------------------------------------------------------------------------
(* Who changes the members of a team.                                        *)

(* Nobody but the request of a step ends or trades in it. *)
LEMMA OthersWait ==
  ASSUME TeamInv, NEW g \in Handlers, NEW next, NEW d, Outdate(g, next, d), NEW h \in Storing
  PROVE  h = g
  <1> SUFFICES ASSUME h # g PROVE FALSE OBVIOUS
  <1> PICK q : q = req[h] OBVIOUS
  <1>1. /\ h \in Handlers /\ q.pc \in {"join", "update", "delete", "save"}
        /\ req'[h] = NoReq \/ req'[h].run # q.run
    BY DEF Storing
  <1>2. q \in ActiveRequest BY <1>1, Reached DEF TeamInv
  <1>3. req'[h] = [q EXCEPT !.stale = TRUE, !.gone = @ \cup d]
    BY <1>1 DEF Outdate
  <1>4. req'[h].run = q.run /\ req'[h].pc = q.pc
    BY <1>2, <1>3 DEF ActiveRequest
  <1>5. QED BY <1>1, <1>4 DEF NoReq

(* The members somebody may change. *)
Writes(h) == Join(h) \/ UpdateMembers(h) \/ DeleteMember(h) \/ SaveTrade(h)

LEMMA WriterIs ==
  ASSUME TeamInv, [Next]_vars, NEW h \in Storing, member' # member
  PROVE  h \in Handlers /\ Writes(h)
  <1>1. h \in Handlers BY DEF Storing
  <1>2. ASSUME NEW g \in Handlers, Writes(g) PROVE Writes(h)
    <2>1. \E next, d : Outdate(g, next, d)
      BY <1>2 DEF Writes, Join, UpdateMembers, DeleteMember, SaveTrade, StoreMembers, Finish
    <2>2. h = g BY <2>1, OthersWait
    <2>3. QED BY <1>2, <2>2
  <1>3. ASSUME NEW g \in Handlers,
               \/ \E r \in Regs : CheckIn(g, r)
               \/ Choose(g) \/ Create(g) \/ CreateTaken(g) \/ AdminStep(g) \/ SaveLocks(g) \/ Crash(g)
        PROVE  FALSE
    BY <1>3 DEF CheckIn, Choose, Create, CreateTaken, AdminStep, SaveLocks, Crash, Unassign,
                MoveMember, SwapMembers, Rebalance, LockTeams, Begin, Finish, StoreTeams
  <1>4. ASSUME NEW roster \in SUBSET Regs, RegisterTeam(roster) PROVE FALSE
    <2> PICK q : q = req[h] OBVIOUS
    <2>1. /\ q.pc \in {"join", "update", "delete", "save"}
          /\ req'[h] = NoReq \/ req'[h].run # q.run
      BY DEF Storing
    <2>2. q \in ActiveRequest BY <1>1, <2>1, Reached DEF TeamInv
    <2>3. req'[h] = [q EXCEPT !.stale = TRUE]
      BY <1>1, <1>4, <2>1 DEF RegisterTeam
    <2>4. req'[h].run = q.run /\ req'[h].pc = q.pc
      BY <2>2, <2>3 DEF ActiveRequest
    <2>5. QED BY <2>1, <2>4 DEF NoReq
  <1>5. ASSUME \/ \E t \in DOMAIN teams : UnlockTeam(t)
               \/ \E c \in Configs : UpdateConfig(c)
               \/ UNCHANGED vars
        PROVE  FALSE
    BY <1>5 DEF UnlockTeam, UpdateConfig, vars
  <1>6. QED BY <1>1, <1>2, <1>3, <1>4, <1>5 DEF Next, StoreStep, Writes

(* What a request that writes had in hand, and where it puts whom. *)
LEMMA JoinWrites ==
  ASSUME TeamInv, NEW h \in Handlers, Join(h), member' # member
  PROVE  \E r \in Regs, t \in DOMAIN teams :
           /\ req[h].pc = "join" /\ member[r] = NoTeam
           /\ member' = [member EXCEPT ![r] = t]
           /\ req[h].cfg \in Configs
           /\ req[h].cfg.topup \/ ~Sealed(t)
           /\ req[h].stale \/ (~teams[t].locked /\ Cardinality(Roster(t)) < req[h].cfg.size)
  <1> PICK q : q = req[h] OBVIOUS
  <1>1. q \in ActiveRequest /\ q.pc = "join" /\ KnownOK(q, teams, member)
    BY Reached DEF Join, TeamInv
  <1>2. q.cfg \in Configs BY <1>1, ActiveFields
  <1>3. PICK r \in Regs : q.reg = {r} BY <1>1 DEF KnownOK
  <1>4. JoinOK(q, teams, member) BY <1>1 DEF KnownOK
  <1> PICK t : t = q.todo[r] OBVIOUS
  <1>5. member[r] = NoTeam /\ member' = Placed(q.todo, {r})
    BY <1>3 DEF Join, Finish, StoreMembers
  <1>6. member' = [member EXCEPT ![r] = t]
    BY <1>5 DEF Placed, TeamInv, TypeOK
  <1>7. /\ t \in DOMAIN teams
        /\ q.cfg.topup \/ ~Sealed(t)
        /\ q.stale \/ (~teams[t].locked /\ Cardinality(Roster(t)) < q.cfg.size)
    BY <1>3, <1>4 DEF JoinOK, Captained, Sealed, On, Roster
  <1>8. QED BY <1>1, <1>2, <1>5, <1>6, <1>7

LEMMA UpdateWrites ==
  ASSUME TeamInv, NEW h \in Handlers, UpdateMembers(h), ~req[h].stale
  PROVE  /\ req[h].pc = "update" /\ req[h].cfg \in Configs /\ DOMAIN req[h].todo \subseteq Regs
         /\ MoveOK(req[h], teams, member) \/ SwapOK(req[h], teams, member)
         /\ \A r \in Regs : member'[r] = IF r \in DOMAIN req[h].todo THEN req[h].todo[r] ELSE member[r]
  <1> PICK q : q = req[h] OBVIOUS
  <1>1. q \in ActiveRequest /\ q.pc = "update" /\ KnownOK(q, teams, member) /\ ~q.stale
    BY Reached DEF UpdateMembers, TeamInv
  <1>2. q.cfg \in Configs /\ q.todo \in Places /\ q.gone = {}
    BY <1>1, ActiveFields DEF KnownOK
  <1>3. UpdateOK(q, teams, member) BY <1>1 DEF KnownOK
  <1>4. member' = Placed(q.todo, DOMAIN q.todo)
    BY <1>2 DEF UpdateMembers, StoreMembers
  <1>5. DOMAIN q.todo \subseteq Regs BY <1>2, PlaceOf
  <1>6. QED BY <1>1, <1>2, <1>3, <1>4, <1>5 DEF UpdateOK, Placed

LEMMA DeleteWrites ==
  ASSUME TeamInv, NEW h \in Handlers, DeleteMember(h), ~req[h].stale
  PROVE  /\ req[h].pc = "delete"
         /\ \A r \in Regs : member'[r] # member[r] =>
              /\ member'[r] = NoTeam /\ member[r] \in DOMAIN teams
              /\ ~Sealed(member[r]) /\ ~teams[member[r]].locked
  <1> PICK q : q = req[h] OBVIOUS
  <1>1. q \in ActiveRequest /\ q.pc = "delete" /\ KnownOK(q, teams, member) /\ ~q.stale
    BY Reached DEF DeleteMember, TeamInv
  <1>2. DeleteOK(q, teams, member) BY <1>1 DEF KnownOK
  <1>3. \A r \in q.reg : /\ member[r] \in DOMAIN teams
                         /\ ~Sealed(member[r]) /\ ~teams[member[r]].locked
    BY <1>1, <1>2 DEF DeleteOK, Captained, Sealed
  <1>4. member' = [r \in Regs |-> IF r \in q.reg \ q.gone THEN NoTeam ELSE member[r]]
    BY DEF DeleteMember, StoreMembers
  <1>5. QED BY <1>1, <1>3, <1>4

(* A rebalance moves people between its teams, which are neither a captain's   *)
(* nor, unless others wrote meanwhile, locked.                              *)
LEMMA SaveWrites ==
  ASSUME TeamInv, NEW h \in Handlers, SaveTrade(h), ~req[h].stale
  PROVE  /\ req[h].pc = "save"
         /\ \A r \in Regs : member'[r] # member[r] =>
              \A t \in {member[r], member'[r]} :
                t \in DOMAIN teams /\ ~Sealed(t) /\ ~teams[t].locked
  <1> PICK q : q = req[h] OBVIOUS
  <1>1. q \in ActiveRequest /\ q.pc = "save" /\ KnownOK(q, teams, member) /\ ~q.stale
    BY Reached DEF SaveTrade, TeamInv
  <1>2. SaveOK(q, teams, member) /\ q.gone = {} BY <1>1 DEF KnownOK
  <1>3. member' = Placed(q.todo, DOMAIN q.todo)
    BY <1>2 DEF SaveTrade, StoreMembers
  <1>4. /\ \A t \in Ends(q) : t \in DOMAIN teams /\ ~Sealed(t) /\ ~teams[t].locked
        /\ \A r \in DOMAIN q.todo : q.todo[r] \in Ends(q) /\ member[r] \in Ends(q)
    BY <1>1, <1>2 DEF SaveOK, Captained, Sealed, Within
  <1>5. QED BY <1>1, <1>3, <1>4 DEF Placed

-----------------------------------------------------------------------------
LEMMA Moved ==
  ASSUME NEW t, RosterAfter(t) # Roster(t)
  PROVE  \E r \in Regs : member'[r] # member[r] /\ t \in {member[r], member'[r]}
  BY DEF RosterAfter, Roster

LEMMA NoTeamIsNone == ASSUME TypeOK PROVE NoTeam \notin DOMAIN teams
  BY DEF NoTeam, TypeOK

LEMMA SealedStep == TeamInv /\ [Next]_vars =>
    \A h \in Storing, t \in DOMAIN teams :
      Sealed(t) /\ RosterAfter(t) # Roster(t) =>
        \/ req[h].pc = "update"
        \/ req[h].pc = "join" /\ req[h].cfg.topup
        \/ req[h].pc \in {"save", "delete"} /\ req[h].stale
  <1> SUFFICES ASSUME TeamInv, [Next]_vars, NEW h \in Storing, NEW t \in DOMAIN teams,
                      Sealed(t), RosterAfter(t) # Roster(t)
               PROVE  \/ req[h].pc = "update"
                      \/ req[h].pc = "join" /\ req[h].cfg.topup
                      \/ req[h].pc \in {"save", "delete"} /\ req[h].stale
    OBVIOUS
  <1>1. PICK r \in Regs : member'[r] # member[r] /\ t \in {member[r], member'[r]}
    BY Moved
  <1>2. h \in Handlers /\ Writes(h) BY <1>1, WriterIs
  <1>3. CASE Join(h)
    <2>1. PICK s \in Regs, u \in DOMAIN teams :
            /\ req[h].pc = "join" /\ member[s] = NoTeam
            /\ member' = [member EXCEPT ![s] = u]
            /\ req[h].cfg.topup \/ ~Sealed(u)
      BY <1>1, <1>2, <1>3, JoinWrites
    <2>2. s = r /\ t = u BY <1>1, <2>1, NoTeamIsNone DEF TeamInv, TypeOK
    <2>3. QED BY <2>1, <2>2
  <1>4. CASE UpdateMembers(h) BY <1>4 DEF UpdateMembers
  <1>5. CASE DeleteMember(h)
    <2>1. req[h].pc = "delete" BY <1>5 DEF DeleteMember
    <2>2. CASE ~req[h].stale
      <3>1. member'[r] = NoTeam /\ ~Sealed(member[r])
        BY <1>1, <1>2, <1>5, <2>2, DeleteWrites
      <3>2. QED BY <1>1, <3>1, NoTeamIsNone DEF TeamInv
    <2>3. QED BY <2>1, <2>2
  <1>6. CASE SaveTrade(h)
    <2>1. req[h].pc = "save" BY <1>6 DEF SaveTrade
    <2>2. CASE ~req[h].stale BY <1>1, <1>2, <1>6, <2>2, SaveWrites
    <2>3. QED BY <2>1, <2>2
  <1>7. QED BY <1>2, <1>3, <1>4, <1>5, <1>6 DEF Writes

(* A captain's team is changed by hand only, by a check-in under              *)
(* allow_team_topup, or by a removal or a rebalance that others overtook, for  *)
(* any number of teams, people and requests in flight.                       *)
THEOREM CaptainsTeamsKept == Spec => SealedRosterKept
  BY InvAlways, SealedStep, PTL DEF Spec, SealedRosterKept

LEMMA LockedStep == TeamInv /\ [Next]_vars =>
    \A h \in Storing, t \in DOMAIN teams :
      teams[t].locked /\ ~req[h].stale =>
        /\ ~Joined(t)
        /\ Left(t) => req[h].pc = "update" /\ Cardinality(DOMAIN req[h].todo) = 1
  <1> SUFFICES ASSUME TeamInv, [Next]_vars, NEW h \in Storing, NEW t \in DOMAIN teams,
                      teams[t].locked, ~req[h].stale, NEW r \in Regs,
                      member'[r] # member[r], t \in {member[r], member'[r]}
               PROVE  /\ t # member'[r]
                      /\ req[h].pc = "update" /\ Cardinality(DOMAIN req[h].todo) = 1
    BY DEF Joined, Left, Roster, RosterAfter
  <1>1. h \in Handlers /\ Writes(h) BY WriterIs
  <1>2. CASE Join(h)
    <2>1. PICK s \in Regs, u \in DOMAIN teams :
            /\ member[s] = NoTeam /\ member' = [member EXCEPT ![s] = u]
            /\ req[h].stale \/ ~teams[u].locked
      BY <1>1, <1>2, JoinWrites
    <2>2. s = r /\ t = u BY <2>1, NoTeamIsNone DEF TeamInv, TypeOK
    <2>3. QED BY <2>1, <2>2
  <1>3. CASE UpdateMembers(h)
    <2>1. /\ req[h].pc = "update"
          /\ MoveOK(req[h], teams, member) \/ SwapOK(req[h], teams, member)
          /\ \A x \in Regs : member'[x] = IF x \in DOMAIN req[h].todo THEN req[h].todo[x]
                                          ELSE member[x]
      BY <1>1, <1>3, UpdateWrites
    <2>2. CASE MoveOK(req[h], teams, member)
      <3>1. PICK x \in Regs : DOMAIN req[h].todo = {x} /\ ~teams[req[h].todo[x]].locked
        BY <2>2 DEF MoveOK
      <3>2. x = r /\ t # member'[r] BY <2>1, <3>1
      <3>3. Cardinality(DOMAIN req[h].todo) = 1 BY <3>1, FS_Singleton
      <3>4. QED BY <2>1, <3>2, <3>3
    <2>3. CASE SwapOK(req[h], teams, member)
      BY <2>1, <2>3 DEF SwapOK
    <2>4. QED BY <2>1, <2>2, <2>3
  <1>4. CASE DeleteMember(h)
    <2>1. member'[r] = NoTeam /\ ~teams[member[r]].locked
      BY <1>1, <1>4, DeleteWrites
    <2>2. QED BY <2>1, NoTeamIsNone DEF TeamInv
  <1>5. CASE SaveTrade(h)
    BY <1>1, <1>5, SaveWrites
  <1>6. QED BY <1>1, <1>2, <1>3, <1>4, <1>5 DEF Writes

(* After the lock nobody is placed on, swapped, traded or removed from a team   *)
(* unless the lock came between a request's look and its write.              *)
THEOREM LockedTeamsKept == Spec => LockedRosterKept
  BY InvAlways, LockedStep, PTL DEF Spec, LockedRosterKept

LEMMA RosterFinite == \A t : IsFiniteSet(Roster(t)) /\ Cardinality(Roster(t)) \in Nat
  BY PeopleFinite DEF Roster

LEMMA OverfilledStep == TeamInv /\ [Next]_vars =>
    \A h \in Storing, t \in 1..MaxTeams :
      /\ req[h].pc \in {"join", "update"} /\ Joined(t) /\ ~req[h].stale
      /\ Cardinality(RosterAfter(t)) > Cardinality(Roster(t))
      => Cardinality(RosterAfter(t)) <= req[h].cfg.size
  <1> SUFFICES ASSUME TeamInv, [Next]_vars, NEW h \in Storing, NEW t \in 1..MaxTeams,
                      req[h].pc \in {"join", "update"}, Joined(t), ~req[h].stale,
                      Cardinality(RosterAfter(t)) > Cardinality(Roster(t))
               PROVE  Cardinality(RosterAfter(t)) <= req[h].cfg.size
    OBVIOUS
  <1>1. PICK r \in Regs : member'[r] = t /\ member[r] # t
    BY DEF Joined, Roster, RosterAfter
  <1>2. h \in Handlers /\ Writes(h) BY <1>1, WriterIs
  <1>3. Cardinality(Roster(t)) \in Nat /\ IsFiniteSet(Roster(t)) BY RosterFinite
  <1>4. ASSUME RosterAfter(t) = Roster(t) \cup {r}, Cardinality(Roster(t)) < req[h].cfg.size,
               req[h].cfg \in Configs
        PROVE  Cardinality(RosterAfter(t)) <= req[h].cfg.size
    <2>1. Cardinality(RosterAfter(t)) = Cardinality(Roster(t)) + 1
      BY <1>1, <1>3, <1>4, FS_AddElement DEF Roster
    <2>2. req[h].cfg.size \in Nat BY <1>4, ConfigKnown
    <2>3. QED BY <1>3, <1>4, <2>1, <2>2
  <1>5. CASE Join(h)
    <2>1. PICK s \in Regs, u \in DOMAIN teams :
            /\ member[s] = NoTeam /\ member' = [member EXCEPT ![s] = u] /\ req[h].cfg \in Configs
            /\ req[h].stale \/ Cardinality(Roster(u)) < req[h].cfg.size
      BY <1>1, <1>2, <1>5, JoinWrites
    <2>2. s = r /\ t = u BY <1>1, <2>1 DEF TeamInv, TypeOK
    <2>3. RosterAfter(t) = Roster(t) \cup {r}
      BY <1>1, <2>1, <2>2 DEF RosterAfter, Roster, TeamInv, TypeOK
    <2>4. QED BY <1>4, <2>1, <2>2, <2>3
  <1>6. CASE UpdateMembers(h)
    <2> PICK q : q = req[h] OBVIOUS
    <2>1. /\ q.cfg \in Configs
          /\ MoveOK(q, teams, member) \/ SwapOK(q, teams, member)
          /\ \A x \in Regs : member'[x] = IF x \in DOMAIN q.todo THEN q.todo[x] ELSE member[x]
      BY <1>2, <1>6, UpdateWrites
    <2>2. CASE MoveOK(q, teams, member)
      <3>1. PICK x \in Regs : /\ DOMAIN q.todo = {x}
                              /\ Cardinality(Roster(q.todo[x])) < q.cfg.size
        BY <2>2 DEF MoveOK, On, Roster
      <3>2. x = r /\ q.todo[x] = t BY <1>1, <2>1, <3>1
      <3>3. RosterAfter(t) = Roster(t) \cup {r}
        BY <1>1, <2>1, <3>1, <3>2 DEF RosterAfter, Roster
      <3>4. QED BY <1>4, <2>1, <3>1, <3>2, <3>3
    <2>3. CASE SwapOK(q, teams, member)
      <3>1. PICK x \in Regs, y \in Regs :
              /\ DOMAIN q.todo = {x, y} /\ member[x] # member[y]
              /\ q.todo[x] = member[y] /\ q.todo[y] = member[x]
        BY <2>3 DEF SwapOK
      <3>2. PICK z \in {x, y} : z # r /\ member[z] = t /\ member'[z] # t
                                /\ DOMAIN q.todo = {r, z}
        BY <1>1, <2>1, <3>1
      <3>3. RosterAfter(t) = (Roster(t) \ {z}) \cup {r}
        BY <1>1, <2>1, <3>1, <3>2 DEF RosterAfter, Roster
      <3>4. z \in Roster(t) /\ r \notin Roster(t) \ {z}
        BY <1>1, <3>1, <3>2 DEF Roster
      <3>5. /\ IsFiniteSet(Roster(t) \ {z})
            /\ Cardinality(Roster(t) \ {z}) = Cardinality(Roster(t)) - 1
        BY <1>3, <3>4, FS_RemoveElement
      <3>6. Cardinality(RosterAfter(t)) = Cardinality(Roster(t)) - 1 + 1
        BY <3>3, <3>4, <3>5, FS_AddElement
      <3>7. QED BY <1>3, <3>6
    <2>4. QED BY <2>1, <2>2, <2>3
  <1>7. CASE DeleteMember(h) \/ SaveTrade(h)
    BY <1>7 DEF DeleteMember, SaveTrade
  <1>8. QED BY <1>2, <1>5, <1>6, <1>7 DEF Writes

(* A check-in or a move fills a team past the size it read only when another    *)
(* request wrote between its look and its write; a swap never does.           *)
THEOREM FullTeamsStayFull == Spec => OverfilledByOverlapOnly
  BY InvAlways, OverfilledStep, PTL DEF Spec, OverfilledByOverlapOnly

LEMMA CapStep == TeamInv /\ [Next]_vars =>
    \A h \in Handlers :
      req[h].pc = "create" /\ req'[h].pc = "join" => Len(teams') <= req[h].cfg.teams
  <1> SUFFICES ASSUME TeamInv, [Next]_vars, NEW h \in Handlers,
                      req[h].pc = "create", req'[h].pc = "join"
               PROVE  Len(teams') <= req[h].cfg.teams
    OBVIOUS
  <1> PICK q : q = req[h] OBVIOUS
  <1>1. q \in ActiveRequest /\ q.pc = "create" /\ KnownOK(q, teams, member)
    BY Reached DEF TeamInv
  <1>2. req'[h] # q /\ req'[h] # [q EXCEPT !.stale = TRUE] /\ req'[h] # NoReq
    BY <1>1 DEF ActiveRequest, NoReq
  <1>3. \A d : req'[h] # [q EXCEPT !.stale = TRUE, !.gone = @ \cup d]
    BY <1>1 DEF ActiveRequest
  <1>4. ASSUME NEW g \in Handlers, NEW next, NEW d, Outdate(g, next, d)
        PROVE  g = h /\ next = req'[h]
    BY <1>1, <1>2, <1>3, <1>4 DEF Outdate
  <1>5. ASSUME NEW g \in Handlers, NEW next, NEW p,
               p = req[g], p.pc # "create",
               req' = [req EXCEPT ![g] = next]
        PROVE  FALSE
    BY <1>1, <1>2, <1>5 DEF TeamInv, TypeOK
  <1>6. CASE Create(h)
    <2>1. Len(teams') = Len(teams) + 1
      BY <1>6 DEF Create, StoreTeams, TeamInv, TypeOK
    <2>2. q.upTo = Len(teams) + 1 /\ q.upTo \in 1..q.cfg.teams
      BY <1>1, <1>6 DEF Create, KnownOK
    <2>3. q.cfg.teams \in Nat BY <1>1, ActiveFields, ConfigKnown
    <2>4. QED BY <2>1, <2>2, <2>3
  <1>7. ASSUME NEW g \in Handlers, Create(g) PROVE g = h
    <2>1. \E next, d : Outdate(g, next, d) BY <1>7 DEF Create, StoreTeams
    <2>2. QED BY <1>4, <2>1
  <1>8. ASSUME NEW g \in Handlers, Finish(g) PROVE FALSE
    BY <1>1, <1>2, <1>8 DEF Finish, TeamInv, TypeOK
  <1>9. ASSUME NEW g \in Handlers, StoreStep(g) \/ Join(g) PROVE FALSE
    <2>1. req[g].pc # "create"
      BY <1>9 DEF StoreStep, Join, UpdateMembers, DeleteMember, SaveTrade, SaveLocks
    <2>2. (\E next, d : Outdate(g, next, d)) \/ Finish(g)
      BY <1>9 DEF StoreStep, Join, UpdateMembers, DeleteMember, SaveTrade, SaveLocks,
                  StoreMembers, StoreTeams
    <2>3. QED BY <1>1, <1>4, <1>8, <2>1, <2>2
  <1>10. ASSUME NEW g \in Handlers, (\E r \in Regs : CheckIn(g, r)) \/ AdminStep(g)
         PROVE  FALSE
    <2>1. \E op, next : Begin(g, op, next)
      BY <1>10 DEF CheckIn, AdminStep, Unassign, MoveMember, SwapMembers, Rebalance, LockTeams
    <2>2. req[g].pc # "create" /\ \E next : req' = [req EXCEPT ![g] = next]
      BY <2>1 DEF Begin, NoReq
    <2>3. QED BY <1>5, <2>2
  <1>11. ASSUME NEW g \in Handlers, Choose(g) PROVE FALSE
    <2>1. req[g].pc # "create" /\ \E next : req' = [req EXCEPT ![g] = next]
      BY <1>11 DEF Choose, TeamInv, TypeOK
    <2>2. QED BY <1>5, <2>1
  <1>12. ASSUME NEW roster \in SUBSET Regs, RegisterTeam(roster) PROVE FALSE
    BY <1>1, <1>2, <1>12 DEF RegisterTeam
  <1>13. ASSUME \/ \E t \in DOMAIN teams : UnlockTeam(t)
                \/ \E c \in Configs : UpdateConfig(c)
                \/ UNCHANGED vars
         PROVE  FALSE
    BY <1>2, <1>13 DEF UnlockTeam, UpdateConfig, vars
  <1>14. QED
    BY <1>6, <1>7, <1>8, <1>9, <1>10, <1>11, <1>12, <1>13 DEF Next, CreateTaken, Crash

(* However many check-ins compute the number of a new team at once, the one     *)
(* that gets it stays within the max_teams it read.                          *)
THEOREM CapKept == Spec => CheckInsKeepTheCap
  BY InvAlways, CapStep, PTL DEF Spec, CheckInsKeepTheCap
=============================================================================
