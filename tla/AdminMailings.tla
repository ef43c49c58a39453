--------------------------- MODULE AdminMailings ----------------------------
(***************************************************************************)
(* The mails an admin sends to a list of registrations: reminder, WhatsApp   *)
(* group, "your window has closed" and rejection. A handler of AdminService  *)
(* goes through the ids, loading, checking and for some saving each row, and *)
(* then mails all that are eligible through EmailService.                   *)
(*                                                                          *)
(* The attendee's acknowledgement and other changes of a row are one step     *)
(* here; RegistrationLifecycle has their races. The order of the ids makes   *)
(* no difference and is left open.                                          *)
(***************************************************************************)
EXTENDS RegistrationStatus

CONSTANTS Invited   \* registrations an admin may select

VARIABLES
  invited,   \* their rows
  mailing,   \* the request
  marked,    \* history: those a request has set to expired
  informed   \* history: those whose "window has closed" mail was taken

mailingVars == <<invited, mailing, marked, informed>>

MailOps == {"reminder", "whatsapp", "expired", "rejection"}
NoMailing == [pc |-> "idle"]
MailingRequests ==
  [pc : {"rows", "save", "write", "mail", "done"}, op : MailOps, reject : BOOLEAN,
   todo : SUBSET Invited, eligible : SUBSET Invited,
   sent : SUBSET Invited, failed : SUBSET Invited,   \* the answer
   cur : Invited, ent : RegRow, cols : SUBSET DOMAIN NewReg]

MailingsTypeOK ==
  /\ invited \in [Invited -> RegRow]
  /\ mailing \in MailingRequests \cup {NoMailing}
  /\ marked \subseteq Invited /\ informed \subseteq Invited

MailingsInit ==
  /\ invited = [r \in Invited |-> [NewReg EXCEPT !.status = "shortlisted"]]
  /\ mailing = NoMailing /\ marked = {} /\ informed = {}

-----------------------------------------------------------------------------
(* The link of the WhatsApp group was found to be an invite before this. *)
AskMailing(op, reject, ids) ==
  /\ mailing.pc \in {"idle", "done"} /\ ids # {}
  /\ reject => op \in {"expired", "rejection"}
  /\ \E r \in ids : mailing' =
       [pc |-> "rows", op |-> op, reject |-> reject, todo |-> ids, eligible |-> {},
        sent |-> {}, failed |-> {}, cur |-> r, ent |-> NewReg, cols |-> {}]
  /\ UNCHANGED <<invited, marked, informed>>

HasPlace(row) == row.status \in {"shortlisted", "confirmed"}

(* Mutant: only those still shortlisted. *)
MutMayExpire(row) == ~row.deleted /\ ~row.acknowledged /\ row.status = "shortlisted"

(* Shortlisted, or expired by an earlier run whatever they are now. *)
MayExpire(row) ==
  /\ ~row.deleted /\ ~row.acknowledged
  /\ row.status = "shortlisted" \/ row.expired

-----------------------------------------------------------------------------
(* What each handler makes of a row: whether it will be mailed, and what is   *)
(* saved. The reminder and the rejection do not look at deleted_at.          *)

sendReminder(row, noQr) == [mails |-> HasPlace(row), saves |-> noQr, as |-> row]

sendWhatsappGroup(row) == [mails |-> ~row.deleted /\ HasPlace(row), saves |-> FALSE, as |-> row]

sendAcknowledgementExpired(row, reject) ==
  [mails |-> MayExpire(row), saves |-> TRUE,
   as |-> [row EXCEPT !.expired = TRUE,
                      !.status = IF reject /\ @ = "shortlisted" THEN "rejected" ELSE @]]

sendRejection(row, reject) ==
  LET rejects == reject /\ row.status # "rejected" IN
  [mails |-> rejects => MayBecome(row, "rejected"), saves |-> rejects,
   as |-> IF rejects THEN [row EXCEPT !.status = "rejected"] ELSE row]

Handled(row, noQr) ==
  CASE mailing.op = "reminder"  -> sendReminder(row, noQr)
    [] mailing.op = "whatsapp"  -> sendWhatsappGroup(row)
    [] mailing.op = "expired"   -> sendAcknowledgementExpired(row, mailing.reject)
    [] mailing.op = "rejection" -> sendRejection(row, mailing.reject)

(* One id: load and check. *)
LoadInvited(r, noQr) ==
  LET does == Handled(invited[r], noQr)
      rest == [mailing EXCEPT !.todo = @ \ {r}]
  IN /\ mailing.pc = "rows" /\ r \in mailing.todo
     /\ noQr => mailing.op = "reminder"
     /\ mailing' = IF ~does.mails THEN [rest EXCEPT !.failed = @ \cup {r}]
                   ELSE IF does.saves THEN [rest EXCEPT !.pc = "save", !.cur = r, !.ent = does.as]
                   ELSE [rest EXCEPT !.eligible = @ \cup {r}]
     /\ UNCHANGED <<invited, marked, informed>>

SelectInvited ==
  /\ mailing.pc = "save"
  /\ mailing' = [mailing EXCEPT !.pc = "write",
                                !.cols = ChangedColumns(mailing.ent, invited[mailing.cur])]
  /\ UNCHANGED <<invited, marked, informed>>

WriteInvited ==
  LET r == mailing.cur IN
  /\ mailing.pc = "write"
  /\ invited' = [invited EXCEPT ![r] = UpdateColumns(@, mailing.ent, mailing.cols)]
  /\ mailing' = [mailing EXCEPT !.pc = "rows", !.eligible = @ \cup {r}]
  /\ marked' = IF mailing.op = "expired" THEN marked \cup {r} ELSE marked
  /\ UNCHANGED informed

StartMails ==
  /\ mailing.pc = "rows" /\ mailing.todo = {}
  /\ mailing' = [mailing EXCEPT !.pc = IF mailing.eligible = {} THEN "done" ELSE "mail"]
  /\ UNCHANGED <<invited, marked, informed>>

(* Who could not be mailed is told by two of the four. *)
FailedEmails(batch) == IF mailing.op \in {"whatsapp", "expired"} THEN batch ELSE {}

(* One call of the provider: taken, or refused, as all are without a key for it. *)
Deliver(batch, taken) ==
  LET left == mailing.eligible \ batch IN
  /\ mailing' = [mailing EXCEPT !.eligible = left,
                                !.pc = IF left = {} THEN "done" ELSE "mail",
                                !.sent = IF taken THEN @ \cup batch ELSE @,
                                !.failed = IF taken THEN @ ELSE @ \cup FailedEmails(batch)]
  /\ informed' = IF taken /\ mailing.op = "expired" THEN informed \cup batch ELSE informed
  /\ UNCHANGED <<invited, marked>>

(* Mails go out one by one; rejections a hundred to a call, here all. *)
SendOne(r, taken) ==
  /\ mailing.pc = "mail" /\ mailing.op # "rejection"
  /\ r \in mailing.eligible /\ Deliver({r}, taken)

SendRejections(taken) ==
  /\ mailing.pc = "mail" /\ mailing.op = "rejection"
  /\ Deliver(mailing.eligible, taken)

(* A crash, or a failed statement: what was written stays. *)
MailingStops ==
  /\ mailing.pc \in {"rows", "save", "write", "mail"}
  /\ mailing' = NoMailing
  /\ UNCHANGED <<invited, marked, informed>>

-----------------------------------------------------------------------------
(* What else happens to the rows meanwhile. *)
RowChanges(r, row) ==
  /\ invited' = [invited EXCEPT ![r] = row]
  /\ UNCHANGED <<mailing, marked, informed>>

MailedAcknowledges(r) ==
  /\ invited[r].status = "shortlisted" /\ ~invited[r].acknowledged /\ ~invited[r].expired
  /\ RowChanges(r, [invited[r] EXCEPT !.acknowledged = TRUE])

MailedDeleted(r) == RowChanges(r, [invited[r] EXCEPT !.deleted = ~@])

MailedStatus(r, s) == MayBecome(invited[r], s) /\ RowChanges(r, WithStatus(invited[r], s))

MailingsNext ==
  \/ \E op \in MailOps, reject \in BOOLEAN, ids \in SUBSET Invited : AskMailing(op, reject, ids)
  \/ \E r \in Invited :
       \/ \E noQr \in BOOLEAN : LoadInvited(r, noQr)
       \/ \E taken \in BOOLEAN : SendOne(r, taken)
       \/ MailedAcknowledges(r) \/ MailedDeleted(r)
       \/ \E s \in RegStatuses : MailedStatus(r, s)
  \/ SelectInvited \/ WriteInvited \/ StartMails \/ MailingStops
  \/ \E taken \in BOOLEAN : SendRejections(taken)

-----------------------------------------------------------------------------
(* Whoever a request set to expired and no mail has reached can be mailed by *)
(* a later request, rejected or not, after a failed send or a crash ("makes  *)
(* this re-runnable", admin.service.ts:570), unless the registration was      *)
(* deleted, or acknowledged in the moment it was expired.                    *)
FailedMailsCanBeRetried ==
  \A r \in marked \ informed :
    \/ invited[r].deleted \/ invited[r].acknowledged
    \/ sendAcknowledgementExpired(invited[r], FALSE).mails
=============================================================================
