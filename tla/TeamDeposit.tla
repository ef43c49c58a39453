----------------------------- MODULE TeamDeposit -----------------------------
(***************************************************************************)
(* The deposit of one team: requestTeamPayment, submitTeamPayment,          *)
(* confirmTeamPayment and rejectTeamPayment of TeamsService, lockTeams and  *)
(* unlockTeam which store the same row, and the status changes of the       *)
(* members, some of them deleted, that a confirmation shortlists.           *)
(*                                                                          *)
(* Every handler loads the row, decides, and hands the whole loaded entity  *)
(* to repository.save: a SELECT and an UPDATE (RegistrationStatus).  A bulk *)
(* request handles one team after the other, so one team shows all of it.   *)
(***************************************************************************)
EXTENDS Naturals, RegistrationStatus

CONSTANTS
  Members,   \* the registrations on the roster
  Refs,      \* transaction ids the captain may report
  Handlers,  \* requests in flight at the same time
  Ops,       \* the kinds of request that arrive
  Asked,     \* the statuses an admin sets members to
  Window,    \* TEAM_DEPOSIT.windowHours
  MaxTime    \* bound on the clock

AllOps == {"request", "submit", "confirm", "reject", "lock", "status"}

NoRef == "none"
NoDeadline == 0   \* NULL; the clock starts at 0, so no request names it

ASSUME DepositAssumption ==
  /\ Ops \subseteq AllOps /\ Asked \subseteq RegStatuses
  /\ Window \in Nat \ {0} /\ MaxTime \in Nat
  /\ NoRef \notin Refs

VARIABLES
  team,    \* the row of teams
  member,  \* the rows of registrations
  now,     \* the clock
  told,    \* history: the deadlines named in request mails the provider took
  openEnded,  \* history: the team was once free to submit at any time
  req      \* the HTTP handlers

vars == <<team, member, now, told, openEnded, req>>

PayStatuses == {"not_requested", "requested", "submitted", "paid", "rejected"}
Deadlines == 0..(MaxTime + Window)
Times == 0..MaxTime
TeamRow == [payment : PayStatuses, deadline : Deadlines, ref : Refs \cup {NoRef},
            at : SUBSET Times]   \* payment_submitted_at, {} where it is NULL

(* A team as it is formed. *)
NewTeam == [payment |-> "not_requested", deadline |-> NoDeadline, ref |-> NoRef, at |-> {}]

NoReq == [pc |-> "idle"]
Active == {"mail", "save", "write", "members", "regSave", "regWrite"}
ActiveRequest ==
  [pc : Active, op : AllOps,
   ent : TeamRow,                                 \* the team as loaded and edited
   reg : RegRow,                                  \* a registration, likewise
   id : SUBSET Members,                           \* which one
   cols : SUBSET (DOMAIN NewTeam \cup DOMAIN NewReg),  \* what save found to write
   todo : SUBSET Members,                         \* memberIds of a confirmation
   stale : BOOLEAN]   \* history: others changed the team's row since it was loaded

TypeOK ==
  /\ team \in TeamRow
  /\ member \in [Members -> RegRow]
  /\ now \in Times
  /\ told \subseteq Deadlines /\ openEnded \in BOOLEAN
  /\ req \in [Handlers -> ActiveRequest \cup {NoReq}]

Init ==
  /\ team = NewTeam
  /\ member \in [Members -> {NewReg, [NewReg EXCEPT !.deleted = TRUE]}]
  /\ now = 0
  /\ told = {} /\ openEnded = FALSE
  /\ req = [h \in Handlers |-> NoReq]

-----------------------------------------------------------------------------
(* team-payment.ts *)

(* Mutant: nothing expires. *)
MutPaymentState == team.payment

PaymentState ==
  IF team.payment = "requested" /\ team.deadline # NoDeadline /\ team.deadline < now
  THEN "expired" ELSE team.payment

CanSubmitPayment == PaymentState \in {"requested", "rejected"}

LiveMembers == {m \in Members : ~member[m].deleted}

-----------------------------------------------------------------------------
Begin(h, op, pc, ent, reg, id, todo) ==
  /\ req[h] = NoReq /\ op \in Ops
  /\ req' = [req EXCEPT ![h] = [pc |-> pc, op |-> op, ent |-> ent, reg |-> reg,
                                id |-> id, cols |-> {}, todo |-> todo,
                                stale |-> FALSE]]
  /\ UNCHANGED <<team, member, now, told, openEnded>>

BeginTeam(h, op, pc, ent, todo) == Begin(h, op, pc, ent, NewReg, {}, todo)

Done(h) == req' = [req EXCEPT ![h] = NoReq]
Goto(h, pc) == req' = [req EXCEPT ![h].pc = pc]

(* Mutant: a paid team is asked again. *)
MutAskAnyTeam(h) ==
  /\ LiveMembers # {}
  /\ BeginTeam(h, "request", "mail",
               [team EXCEPT !.payment = "requested", !.deadline = now + Window], {})

(* Mutant: an extension is added to the old deadline. *)
MutExtendOldDeadline(h) ==
  /\ team.payment # "paid" /\ LiveMembers # {}
  /\ BeginTeam(h, "request", "mail",
               [team EXCEPT !.payment = "requested", !.deadline = @ + Window], {})

(* requestTeamPayment(): asking again is allowed and starts a new window. *)
Request(h) ==
  /\ team.payment # "paid" /\ LiveMembers # {}
  /\ BeginTeam(h, "request", "mail",
               [team EXCEPT !.payment = "requested", !.deadline = now + Window], {})

(* Mutant: the outcome of the mail is ignored. *)
MutMailCaptain(h) ==
  /\ req[h].pc = "mail"
  /\ told' \in {told, told \cup {req[h].ent.deadline}}
  /\ Goto(h, "save")
  /\ UNCHANGED <<team, member, now, openEnded>>

(* The mail is refused, or taken, or taken and the answer lost; nothing is *)
(* recorded unless the provider said yes.                                  *)
MailCaptain(h) ==
  /\ req[h].pc = "mail"
  /\ \/ Done(h) /\ told' \in {told, told \cup {req[h].ent.deadline}}
     \/ Goto(h, "save") /\ told' = told \cup {req[h].ent.deadline}
  /\ UNCHANGED <<team, member, now, openEnded>>

(* submitTeamPayment() *)
Submit(h, ref) ==
  /\ CanSubmitPayment
  /\ BeginTeam(h, "submit", "save",
               [team EXCEPT !.payment = "submitted", !.ref = ref, !.at = {now}], {})

(* confirmTeamPayment()'s memberIds. *)
MemberIds == {m \in LiveMembers : member[m].status # "shortlisted"}

Confirm(h) ==
  BeginTeam(h, "confirm", "save", [team EXCEPT !.payment = "paid"], MemberIds)

Reject(h) ==
  /\ team.payment = "submitted"
  /\ BeginTeam(h, "reject", "save", [team EXCEPT !.payment = "rejected"], {})

(* lockTeams() and unlockTeam() load the row and save it whole; the columns *)
(* they mean to change are not among those modelled.                        *)
LockTeam(h) == BeginTeam(h, "lock", "save", team, {})

(* teamRepo.save(): the SELECT. *)
SaveTeam(h) ==
  /\ req[h].pc = "save"
  /\ req' = [req EXCEPT ![h].pc = "write", ![h].cols = ChangedColumns(req[h].ent, team)]
  /\ UNCHANGED <<team, member, now, told, openEnded>>

(* What canSubmitPayment() lets through at any time. *)
OpenEnded(row) ==
  \/ row.payment = "rejected"
  \/ row.payment = "requested" /\ row.deadline = NoDeadline

(* teamRepo.save(): the UPDATE; a confirmation goes on with the members. *)
WriteTeam(h) ==
  /\ req[h].pc = "write"
  /\ team' = UpdateColumns(team, req[h].ent, req[h].cols)
  /\ openEnded' = (openEnded \/ OpenEnded(team'))
  /\ req' = [g \in Handlers |->
       IF g # h THEN IF req[g].pc \in {"mail", "save", "write"} /\ team' # team
                     THEN [req[g] EXCEPT !.stale = TRUE] ELSE req[g]
       ELSE IF req[h].op = "confirm"
            THEN [req[h] EXCEPT !.pc = "members", !.ent = NewTeam, !.cols = {},
                                !.stale = FALSE]
       ELSE NoReq]
  /\ UNCHANGED <<member, now, told>>

-----------------------------------------------------------------------------
(* AdminService.updateRegistrationStatus() *)
SetStatus(h, m, s) ==
  /\ MayBecome(member[m], s)
  /\ Begin(h, "status", "regSave", NewTeam, WithStatus(member[m], s), {m}, {})

(* bulkUpdateStatus(): the next member is loaded; a forbidden change is     *)
(* reported and the loop goes on.                                           *)
NextMember(h) ==
  /\ req[h].pc = "members" /\ req[h].todo # {}
  /\ \E m \in req[h].todo :
       req' = IF MayBecome(member[m], "shortlisted")
              THEN [req EXCEPT ![h].pc = "regSave", ![h].todo = @ \ {m}, ![h].id = {m},
                               ![h].reg = WithStatus(member[m], "shortlisted")]
              ELSE [req EXCEPT ![h].todo = @ \ {m}]
  /\ UNCHANGED <<team, member, now, told, openEnded>>

Confirmed(h) ==
  /\ req[h].pc = "members" /\ req[h].todo = {}
  /\ Done(h)
  /\ UNCHANGED <<team, member, now, told, openEnded>>

(* registrationRepo.save(): the SELECT and the UPDATE. *)
SaveMember(h) ==
  /\ req[h].pc = "regSave"
  /\ \E m \in req[h].id :
       req' = [req EXCEPT ![h].pc = "regWrite",
                          ![h].cols = ChangedColumns(req[h].reg, member[m])]
  /\ UNCHANGED <<team, member, now, told, openEnded>>

WriteMember(h) ==
  /\ req[h].pc = "regWrite"
  /\ \E m \in req[h].id :
       member' = [member EXCEPT ![m] = UpdateColumns(@, req[h].reg, req[h].cols)]
  /\ IF req[h].op = "confirm"
     THEN req' = [req EXCEPT ![h].pc = "members", ![h].id = {}, ![h].reg = NewReg,
                             ![h].cols = {}]
     ELSE Done(h)
  /\ UNCHANGED <<team, now, told, openEnded>>

-----------------------------------------------------------------------------
(* The process dies: what is written stays written. *)
Crash(h) == req[h] # NoReq /\ Done(h) /\ UNCHANGED <<team, member, now, told, openEnded>>

Tick == now < MaxTime /\ now' = now + 1 /\ UNCHANGED <<team, member, told, openEnded, req>>

TeamStep(h) ==
  \/ Request(h) \/ MailCaptain(h) \/ (\E ref \in Refs : Submit(h, ref))
  \/ Confirm(h) \/ Reject(h) \/ LockTeam(h)
  \/ SaveTeam(h) \/ WriteTeam(h)

MemberStep(h) ==
  \/ \E m \in Members, s \in Asked : SetStatus(h, m, s)
  \/ NextMember(h) \/ Confirmed(h) \/ SaveMember(h) \/ WriteMember(h)

Next == Tick \/ \E h \in Handlers : TeamStep(h) \/ MemberStep(h) \/ Crash(h)

Spec == Init /\ [][Next]_vars

-----------------------------------------------------------------------------
(* Properties *)

(* teams.service.ts:210: the clock never starts on a team that was not told. *)
(* The deadline stored is one a request mail named, whatever mails are lost, *)
(* whatever handler dies and whatever stale row is written back.             *)
ClockNeedsMail == team.deadline # NoDeadline => team.deadline \in told

(* teams.service.ts:227: reachable only while the window is open or after a   *)
(* rejection. What is under review, or was sent back, is of a team that was   *)
(* told, and what is stored as submitted was submitted within a window the    *)
(* team was told of, whenever it is saved and whatever windows are opened     *)
(* since, unless the team was sent back before, or stale saves had mixed a    *)
(* request with no deadline.                                                  *)
ReviewedInTime ==
  /\ team.payment \in {"submitted", "rejected"} => told # {}
  /\ \A t \in team.at : openEnded \/ \E d \in told : t <= d

(* teams.service.ts:164: a paid team does not fall back to unpaid, a reported *)
(* transaction is not forgotten and a window not cut short, except by a        *)
(* request that loaded the row before another request changed it: two requests *)
(* that do not overlap never undo any of it, whatever crashes in between.      *)
LostOnlyToStaleSave ==
  [][ \/ team.payment = "paid" /\ team'.payment # "paid"
      \/ team.ref # NoRef /\ team'.ref = NoRef
      \/ team'.deadline < team.deadline
      => \E h \in Handlers : req[h].pc = "write" /\ req'[h].pc # "write" /\ req[h].stale
    ]_vars
=============================================================================
