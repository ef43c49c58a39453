------------------------ MODULE RegistrationLifecycle ------------------------
(***************************************************************************)
(* The rows of registrations under everything that writes them after the    *)
(* registration itself: status changes, the attendee's acknowledgement, its *)
(* lock and expiry, the scan at the door, the check-in toggles, the online   *)
(* self check-in, deletion and restoring, and the handlers that mean to      *)
(* write another column and save the row whole.                             *)
(*                                                                          *)
(* All but two store what they loaded with repository.save, a SELECT and an *)
(* UPDATE (RegistrationStatus); lockAcknowledgements ends with an UPDATE of *)
(* every row of the event, selfCheckin is a SELECT and an UPDATE of its own. *)
(* The seats a registration takes are RegistrationSeats'.                   *)
(***************************************************************************)
EXTENDS RegistrationStatus

CONSTANTS
  Regs,      \* the registrations of one event
  Handlers,  \* requests in flight at the same time
  Ops,       \* the kinds of request that arrive
  Asked,     \* the statuses an admin sets
  Born       \* the rows the event starts with

RowOps == {"status", "ack", "expire", "scan", "toggle", "touch",
           "delete", "restore", "self"}
EventOps == {"lock", "unlock", "deadline"}

ASSUME LifecycleAssumption ==
  /\ Ops \subseteq RowOps \cup EventOps /\ Asked \subseteq RegStatuses
  /\ Born \subseteq RegRow

VARIABLES
  row,    \* the rows of registrations
  event,  \* the acknowledgement columns of the row of events
  req     \* the HTTP handlers

vars == <<row, event, req>>

EventRow == [locked : BOOLEAN, passed : BOOLEAN]   \* passed: its deadline has
OpenEvent == [locked |-> FALSE, passed |-> FALSE]

NoReq == [pc |-> "idle"]
ActiveRequest ==
  [pc : {"save", "write", "update", "eventSave", "eventWrite", "expireAll"},
   op : RowOps \cup EventOps,
   id : SUBSET Regs,                   \* the registration it is about
   ent : RegRow,                       \* the row as loaded and edited
   ev : EventRow,                      \* the event, likewise
   cols : SUBSET (DOMAIN NewReg \cup DOMAIN OpenEvent),  \* what save found to write
   stale : BOOLEAN]   \* history: others changed the row since it was loaded

TypeOK ==
  /\ row \in [Regs -> RegRow]
  /\ event \in EventRow
  /\ req \in [Handlers -> ActiveRequest \cup {NoReq}]

Init ==
  /\ row \in [Regs -> Born]
  /\ event = OpenEvent
  /\ req = [h \in Handlers |-> NoReq]

-----------------------------------------------------------------------------
(* registrations.service.ts:538 *)
AcknowledgementsClosed == event.locked \/ event.passed

(* SEATED of online.service.ts, and its second half. *)
Seated(r) == r.status \in {"shortlisted", "confirmed", "attended"} /\ ~r.expired

(* Whom selfCheckin lets in, besides its window. *)
MaySelfCheckin(r) == ~r.deleted /\ Seated(r)

Begin(h, pc, op, id, ent, ev) ==
  /\ req[h] = NoReq /\ op \in Ops
  /\ req' = [req EXCEPT ![h] = [pc |-> pc, op |-> op, id |-> id, ent |-> ent, ev |-> ev,
                                cols |-> {}, stale |-> FALSE]]
  /\ UNCHANGED <<row, event>>

LoadRow(h, op, r, ent) == Begin(h, "save", op, {r}, ent, OpenEvent)

(* AdminService.updateRegistrationStatus, also one round of bulkUpdateStatus *)
(* and, for "rejected", of sendRejection.  None looks at deleted_at.         *)
SetStatus(h, r, s) ==
  /\ MayBecome(row[r], s)
  /\ LoadRow(h, "status", r, WithStatus(row[r], s))

(* Mutant: acknowledging is taken for a status. *)
MutAcknowledge(h, r) ==
  /\ row[r].status = "shortlisted"
  /\ ~row[r].acknowledged /\ ~row[r].expired /\ ~AcknowledgementsClosed
  /\ LoadRow(h, "ack", r, [row[r] EXCEPT !.status = "acknowledged"])

(* RegistrationsService.acknowledgeSpot *)
Acknowledge(h, r) ==
  /\ row[r].status = "shortlisted"
  /\ ~row[r].acknowledged /\ ~row[r].expired /\ ~AcknowledgementsClosed
  /\ LoadRow(h, "ack", r, [row[r] EXCEPT !.acknowledged = TRUE])

(* Mutant: whoever was shortlisted, confirmed or not, is expired. *)
MutExpire(h, r, alsoReject) ==
  /\ ~row[r].deleted /\ (row[r].status = "shortlisted" \/ row[r].expired)
  /\ LoadRow(h, "expire", r,
       [row[r] EXCEPT !.expired = TRUE,
                      !.status  = IF alsoReject /\ @ = "shortlisted" THEN "rejected" ELSE @])

(* One round of AdminService.sendAcknowledgementExpired; the row is written *)
(* before any mail goes out.                                                *)
Expire(h, r, alsoReject) ==
  /\ ~row[r].deleted /\ ~row[r].acknowledged
  /\ (row[r].status = "shortlisted" \/ row[r].expired)
  /\ LoadRow(h, "expire", r,
       [row[r] EXCEPT !.expired = TRUE,
                      !.status  = IF alsoReject /\ @ = "shortlisted" THEN "rejected" ELSE @])

(* markAttendedFromScan: neither status nor deletion is looked at. *)
Scan(h, r) ==
  LoadRow(h, "scan", r, [row[r] EXCEPT !.status = "attended", !.checkedIn = TRUE])

ToggleCheckin(h, r) == LoadRow(h, "toggle", r, [row[r] EXCEPT !.checkedIn = ~@])

(* sendReminder fills in qr_code_data and assignAtCheckin role_bucket: the   *)
(* row is saved as loaded but for a column that is not modelled.            *)
Touch(h, r) == LoadRow(h, "touch", r, row[r])

(* The last write of unassignMember. *)
Uncheck(h, r) == LoadRow(h, "toggle", r, [row[r] EXCEPT !.checkedIn = FALSE])

Delete(h, r) ==
  /\ ~row[r].deleted
  /\ LoadRow(h, "delete", r, [row[r] EXCEPT !.deleted = TRUE])

(* The capacity may refuse it (RegistrationSeats). *)
Restore(h, r) ==
  /\ row[r].deleted
  /\ LoadRow(h, "restore", r, [row[r] EXCEPT !.deleted = FALSE])

(* registrationRepo.save(): the SELECT, and the UPDATE that needs only the    *)
(* columns it is about; no UPDATE is sent for none.                         *)
SaveRow(h) ==
  /\ req[h].pc = "save"
  /\ \E r \in req[h].id :
       LET cols == ChangedColumns(req[h].ent, row[r])
       IN  req' = [req EXCEPT ![h] =
             IF cols = {} THEN NoReq
             ELSE [req[h] EXCEPT !.pc = "write", !.cols = cols,
                                 !.ent = UpdateColumns(NewReg, @, cols)]]
  /\ UNCHANGED <<row, event>>

(* The other handlers that have loaded row r now hold an old one. *)
Outdate(h, changed) ==
  req' = [g \in Handlers |->
            IF g = h THEN NoReq
            ELSE IF req[g].pc \in {"save", "write", "update"} /\ req[g].id \cap changed # {}
                 THEN [req[g] EXCEPT !.stale = TRUE]
            ELSE req[g]]

Store(h, newRow) ==
  /\ row' = newRow
  /\ Outdate(h, {r \in Regs : newRow[r] # row[r]})
  /\ UNCHANGED event

WriteRow(h) ==
  /\ req[h].pc = "write"
  /\ \E r \in req[h].id :
       Store(h, [row EXCEPT ![r] = UpdateColumns(@, req[h].ent, req[h].cols)])

-----------------------------------------------------------------------------
(* Mutant: whoever holds a valid link is let in. *)
MutSelfCheckin(h, r) ==
  /\ ~row[r].deleted
  /\ Begin(h, "update", "self", {r}, NewReg, OpenEvent)

(* OnlineService.selfCheckin, while the check-in window is open: the checks  *)
(* are made on what was loaded, the UPDATE makes none.                      *)
SelfCheckin(h, r) ==
  /\ MaySelfCheckin(row[r])
  /\ Begin(h, "update", "self", {r}, NewReg, OpenEvent)

SelfUpdate(h) ==
  /\ req[h].pc = "update"
  /\ \E r \in req[h].id :
       Store(h, [row EXCEPT ![r].status = "attended", ![r].checkedIn = TRUE])

-----------------------------------------------------------------------------
(* lockAcknowledgements and unlockAcknowledgements load the event and save it. *)
LockAcknowledgements(h) ==
  Begin(h, "eventSave", "lock", {}, NewReg, [event EXCEPT !.locked = TRUE])

UnlockAcknowledgements(h) ==
  Begin(h, "eventSave", "unlock", {}, NewReg, OpenEvent)

SaveEvent(h) ==
  /\ req[h].pc = "eventSave"
  /\ req' = [req EXCEPT ![h].pc = "eventWrite", ![h].cols = ChangedColumns(req[h].ev, event)]
  /\ UNCHANGED <<row, event>>

WriteEvent(h) ==
  /\ req[h].pc = "eventWrite"
  /\ event' = UpdateColumns(event, req[h].ev, req[h].cols)
  /\ req' = [req EXCEPT ![h] = IF @.op = "lock"
                               THEN [@ EXCEPT !.pc = "expireAll", !.cols = {}] ELSE NoReq]
  /\ UNCHANGED row

(* Mutant: the rows to expire are chosen by their status alone. *)
MutExpireAll(h) ==
  /\ req[h].pc = "expireAll"
  /\ Store(h, [r \in Regs |-> [row[r] EXCEPT !.expired = @ \/ row[r].status = "shortlisted"]])

(* The UPDATE of lockAcknowledgements. *)
ExpireAll(h) ==
  /\ req[h].pc = "expireAll"
  /\ Store(h, [r \in Regs |->
       [row[r] EXCEPT !.expired =
          @ \/ (row[r].status = "shortlisted" /\ ~row[r].acknowledged)]])

(* The deadline passes, or EventsService.update moves it: one UPDATE. *)
MoveDeadline ==
  /\ "deadline" \in Ops
  /\ event' = [event EXCEPT !.passed = ~@]
  /\ UNCHANGED <<row, req>>

-----------------------------------------------------------------------------
(* The process dies: what is written stays written. *)
Crash(h) ==
  /\ req[h] # NoReq
  /\ req' = [req EXCEPT ![h] = NoReq]
  /\ UNCHANGED <<row, event>>

AdminStep(h, r) ==
  \/ \E s \in Asked : SetStatus(h, r, s)
  \/ \E alsoReject \in BOOLEAN : Expire(h, r, alsoReject)
  \/ Touch(h, r) \/ Delete(h, r) \/ Restore(h, r)

CheckinStep(h, r) == Scan(h, r) \/ ToggleCheckin(h, r) \/ Uncheck(h, r)

AttendeeStep(h, r) == Acknowledge(h, r) \/ SelfCheckin(h, r)

EventStep(h) ==
  \/ LockAcknowledgements(h) \/ UnlockAcknowledgements(h)
  \/ SaveEvent(h) \/ WriteEvent(h) \/ ExpireAll(h)

Next ==
  \/ MoveDeadline
  \/ \E h \in Handlers :
       \/ \E r \in Regs : AdminStep(h, r) \/ CheckinStep(h, r) \/ AttendeeStep(h, r)
       \/ SaveRow(h) \/ WriteRow(h) \/ SelfUpdate(h) \/ EventStep(h) \/ Crash(h)

Spec == Init /\ [][Next]_vars

-----------------------------------------------------------------------------
(* Properties *)

(* h stores registration r in this step. *)
Stores(h, r) ==
  /\ req[h].pc \in {"write", "update"} /\ r \in req[h].id
  /\ req'[h] = NoReq /\ row'[r] # row[r]

StaleStore(r) == \E h \in Handlers : Stores(h, r) /\ req[h].stale

(* admin.service.ts:356, online.service.ts:242: a status changes along        *)
(* VALID_TRANSITIONS, to attended by a scan, or to attended by the self       *)
(* check-in of somebody who is seated, and not deleted, when it is stored.    *)
(* Only a request that loaded the row before another one changed it breaks    *)
(* this: it writes an old status back, or lets in somebody rejected, expired  *)
(* or deleted after the checks.  Requests that do not overlap never do, so    *)
(* attended stays the end however check-ins, expiries and deletions follow.   *)
StatusByRules ==
  [][ \A r \in Regs : row'[r].status # row[r].status =>
        \E h \in Handlers :
          /\ Stores(h, r)
          /\ \/ req[h].stale
             \/ req[h].op \in {"status", "expire"} /\ MayBecome(row[r], row'[r].status)
             \/ /\ row'[r].status = "attended"
                /\ \/ req[h].op = "scan"
                   \/ req[h].op = "self" /\ MaySelfCheckin(row[r]) ]_vars

(* registrations-viewer.jsx:1245 tells the admin that those who have not       *)
(* confirmed "will be permanently blocked", admin.service.ts:609 that those    *)
(* who have are skipped: an expiry is never taken back, nobody confirms after  *)
(* it, and nobody who has confirmed is expired, by any order of lock, unlock,   *)
(* status changes and acknowledgements; but for a request that overlapped one. *)
ExpiryIsFinal ==
  [][ \A r \in Regs :
        \/ StaleStore(r)
        \/ /\ row[r].expired => row'[r].expired
           /\ row'[r].expired /\ row'[r].acknowledged
                => row[r].expired /\ row[r].acknowledged ]_vars
=============================================================================
