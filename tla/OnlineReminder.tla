--------------------------- MODULE OnlineReminder ---------------------------
(***************************************************************************)
(* An online event: the "starting soon" mail of OnlineService and its        *)
(* scheduler, sent by every instance of the backend, the admin's "Send       *)
(* reminder now", the self check-in of an attendee on the join page, and the *)
(* handlers of AdminService that save the whole row of the event.            *)
(*                                                                          *)
(* Time passes in units of 15 minutes. Check-in opens one unit before the    *)
(* start; its four hours after the start are cut to two units, past the      *)
(* quarter of an hour in which a late reminder is still sent.                *)
(***************************************************************************)
EXTENDS Naturals, FiniteSets

CONSTANTS
  Guests,       \* registrations of the event
  Instances,    \* backends with a scheduler
  RemindFrom,   \* when the reminder is due
  Start,        \* when the event starts
  MaxMails,     \* bound on what anybody is mailed
  MaxReminderCrashes, MaxSaves,  \* bounds on crashes and on saves of the row
  MaxResent     \* bound on forced sends of a reminder that has gone out

ASSUME OnlineAssumption ==
  /\ IsFiniteSet(Guests) /\ IsFiniteSet(Instances) /\ "now" \notin Instances
  /\ {Start, MaxMails, MaxReminderCrashes, MaxSaves, MaxResent} \subseteq Nat

Times == 0..(Start + 3)

VARIABLES
  clock,        \* the time
  eventRow,     \* meeting_reminder_enabled, meeting_reminder_sent_at, sent_count
  guest,        \* registrations: seated and checked in
  sender,       \* sendReminder in each instance, and of the admin ("now")
  saver,        \* a handler that loads and saves the row of the event
  joinPage,     \* what the page of each attendee shows, and its request
  mailed,       \* history: reminders each has received
  undone,       \* history: claims a save has taken back
  resent,       \* history: forced sends of a reminder that had been claimed
  losses        \* crashes so far

onlineVars == <<clock, eventRow, guest, sender, saver, joinPage, mailed, undone, resent, losses>>

Senders == Instances \cup {"now"}
CheckinStates == {"not_open", "open", "closed"}
IdleSender == [pc |-> "idle", todo |-> {}, sent |-> 0]
IdleSaver == [pc |-> "idle", sent |-> FALSE, wide |-> FALSE]

OnlineTypeOK ==
  /\ clock \in Times
  /\ eventRow \in [enabled : BOOLEAN, sent : BOOLEAN, count : 0..Cardinality(Guests)]
  /\ guest \in [Guests -> [seated : BOOLEAN, checked : BOOLEAN]]
  /\ sender \in [Senders -> [pc : {"idle", "claim", "list", "mail", "count"},
                             todo : SUBSET Guests, sent : 0..Cardinality(Guests)]]
  /\ saver \in [pc : {"idle", "save", "write"}, sent : BOOLEAN, wide : BOOLEAN]
  /\ joinPage \in [Guests -> [state : CheckinStates, seated : BOOLEAN, checked : BOOLEAN,
                              pc : {"idle", "load", "update"}]]
  /\ mailed \in [Guests -> 0..MaxMails] /\ undone \in 0..MaxSaves
  /\ resent \in 0..MaxResent /\ losses \in 0..MaxReminderCrashes

CheckinState ==
  IF clock + 1 < Start THEN "not_open" ELSE IF clock > Start + 2 THEN "closed" ELSE "open"

OnlineInit ==
  /\ clock = 0
  /\ eventRow = [enabled |-> TRUE, sent |-> FALSE, count |-> 0]
  /\ guest = [g \in Guests |-> [seated |-> TRUE, checked |-> FALSE]]
  /\ sender = [s \in Senders |-> IdleSender]
  /\ saver = IdleSaver
  /\ joinPage = [g \in Guests |-> [state |-> CheckinState, seated |-> TRUE, checked |-> FALSE, pc |-> "idle"]]
  /\ mailed = [g \in Guests |-> 0] /\ undone = 0 /\ resent = 0 /\ losses = 0

-----------------------------------------------------------------------------
(* The reminder. *)

Continue(s, q) ==
  /\ sender' = [sender EXCEPT ![s] = q]
  /\ UNCHANGED <<clock, guest, saver, joinPage, undone, losses>>

ReminderDue ==
  eventRow.enabled /\ ~eventRow.sent /\ clock >= RemindFrom /\ clock <= Start + 1

(* A tick that finds the last one under way is skipped. *)
ReminderTick(s) ==
  /\ s \in Instances /\ sender[s] = IdleSender
  /\ ReminderDue
  /\ Continue(s, [sender[s] EXCEPT !.pc = "claim"])
  /\ UNCHANGED <<eventRow, mailed, resent>>

SendNow ==
  /\ sender["now"] = IdleSender
  /\ Continue("now", [sender["now"] EXCEPT !.pc = "claim"])
  /\ UNCHANGED <<eventRow, mailed, resent>>

(* Mutant: a forced send leaves the claim to the schedulers. *)
MutClaimReminder(s) ==
  /\ sender[s].pc = "claim"
  /\ IF eventRow.sent /\ s # "now"
     THEN Continue(s, IdleSender) /\ UNCHANGED <<eventRow, resent>>
     ELSE /\ eventRow' = [eventRow EXCEPT !.sent = @ \/ s # "now"]
          /\ resent' = IF eventRow.sent THEN resent + 1 ELSE resent
          /\ resent' <= MaxResent
          /\ Continue(s, [sender[s] EXCEPT !.pc = "list"])
  /\ UNCHANGED mailed

ClaimReminder(s) ==
  /\ sender[s].pc = "claim"
  /\ IF eventRow.sent /\ s # "now"
     THEN Continue(s, IdleSender) /\ UNCHANGED <<eventRow, resent>>
     ELSE /\ eventRow' = [eventRow EXCEPT !.sent = TRUE]
          /\ resent' = IF eventRow.sent THEN resent + 1 ELSE resent
          /\ resent' <= MaxResent
          /\ Continue(s, [sender[s] EXCEPT !.pc = "list"])
  /\ UNCHANGED mailed

Recipients == {g \in Guests : guest[g].seated /\ ~guest[g].checked}

ListRecipients(s) ==
  /\ sender[s].pc = "list"
  /\ Continue(s, [sender[s] EXCEPT !.todo = Recipients,
                                   !.pc = IF Recipients = {} THEN "count" ELSE "mail"])
  /\ UNCHANGED <<eventRow, mailed, resent>>

(* One call of the batch API, here for one attendee: taken, refused, or taken *)
(* with the answer lost, which is counted as failed. None is tried again.     *)
SendChunk(s, g, taken, told) ==
  /\ sender[s].pc = "mail" /\ g \in sender[s].todo /\ (told => taken)
  /\ mailed[g] < MaxMails
  /\ mailed' = IF taken THEN [mailed EXCEPT ![g] = @ + 1] ELSE mailed
  /\ Continue(s, [pc |-> IF sender[s].todo = {g} THEN "count" ELSE "mail",
                  todo |-> sender[s].todo \ {g},
                  sent |-> sender[s].sent + IF told THEN 1 ELSE 0])
  /\ UNCHANGED <<eventRow, resent>>

CountSent(s) ==
  /\ sender[s].pc = "count"
  /\ eventRow' = [eventRow EXCEPT !.count = sender[s].sent]
  /\ Continue(s, IdleSender)
  /\ UNCHANGED <<mailed, resent>>

ReminderCrash(s) ==
  /\ sender[s] # IdleSender /\ losses < MaxReminderCrashes
  /\ sender' = [sender EXCEPT ![s] = IdleSender]
  /\ losses' = losses + 1
  /\ UNCHANGED <<clock, eventRow, guest, saver, joinPage, mailed, undone, resent>>

-----------------------------------------------------------------------------
(* The row of the event. EventsService.update sets the columns it was sent;  *)
(* lockAcknowledgements and unlockAcknowledgements save the entity they      *)
(* loaded, and with it every column that has changed since.                 *)

EditReminder ==
  /\ eventRow' = [eventRow EXCEPT !.enabled = ~@]
  /\ UNCHANGED <<clock, guest, sender, saver, joinPage, mailed, undone, resent, losses>>

LoadOnlineEvent ==
  /\ saver.pc = "idle" /\ undone < MaxSaves
  /\ saver' = [pc |-> "save", sent |-> eventRow.sent, wide |-> FALSE]
  /\ UNCHANGED <<clock, eventRow, guest, sender, joinPage, mailed, undone, resent, losses>>

SelectOnlineEvent ==
  /\ saver.pc = "save"
  /\ saver' = [saver EXCEPT !.pc = "write", !.wide = saver.sent # eventRow.sent]
  /\ UNCHANGED <<clock, eventRow, guest, sender, joinPage, mailed, undone, resent, losses>>

WriteOnlineEvent ==
  /\ saver.pc = "write"
  /\ eventRow' = IF saver.wide THEN [eventRow EXCEPT !.sent = saver.sent] ELSE eventRow
  /\ undone' = IF eventRow.sent /\ ~eventRow'.sent THEN undone + 1 ELSE undone
  /\ saver' = IdleSaver
  /\ UNCHANGED <<clock, guest, sender, joinPage, mailed, resent, losses>>

-----------------------------------------------------------------------------
(* The attendee. *)

OnlineClock ==
  /\ clock < Start + 3 /\ clock' = clock + 1
  /\ UNCHANGED <<eventRow, guest, sender, saver, joinPage, mailed, undone, resent, losses>>

(* The status of a registration changes. *)
SeatDecided(g) ==
  /\ guest' = [guest EXCEPT ![g].seated = ~@]
  /\ UNCHANGED <<clock, eventRow, sender, saver, joinPage, mailed, undone, resent, losses>>

Page(g, p, table) ==
  /\ joinPage' = [joinPage EXCEPT ![g] = p] /\ guest' = table
  /\ UNCHANGED <<clock, eventRow, sender, saver, mailed, undone, resent, losses>>

View(g, table) == [state |-> CheckinState, seated |-> table[g].seated,
                   checked |-> table[g].checked, pc |-> "idle"]

(* Asked again by itself every 30 s while check-in is not open. *)
RefreshJoin(g) == joinPage[g].pc = "idle" /\ Page(g, View(g, guest), guest)

CheckinClicked(g) == Page(g, [joinPage[g] EXCEPT !.pc = "load"], guest)

(* The button is there for somebody seated and not checked in, *)
(* and works while the page thinks check-in is open.           *)
OnlineJoin(g) ==
  /\ joinPage[g].pc = "idle" /\ joinPage[g].seated /\ ~joinPage[g].checked
  /\ joinPage[g].state = "open"
  /\ CheckinClicked(g)

CheckinLoads(g) ==
  /\ joinPage[g].pc = "load"
  /\ Page(g, [joinPage[g] EXCEPT !.pc = IF guest[g].seated /\ CheckinState = "open"
                                        THEN "update" ELSE "idle"], guest)

(* The status becomes 'attended' whatever it is by now; somebody whose place *)
(* has expired or who was deleted meanwhile has none all the same. The page   *)
(* shows the answer, if there is one.                                        *)
CheckinUpdates(g, seated, ok) ==
  LET rows == [guest EXCEPT ![g] = [seated |-> seated, checked |-> TRUE]] IN
  /\ joinPage[g].pc = "update" /\ seated \in {TRUE, guest[g].seated}
  /\ Page(g, IF ok THEN View(g, rows) ELSE [joinPage[g] EXCEPT !.pc = "idle"], rows)

OnlineNext ==
  \/ \E s \in Senders :
       \/ ReminderTick(s) \/ ClaimReminder(s) \/ ListRecipients(s) \/ CountSent(s) \/ ReminderCrash(s)
       \/ \E g \in Guests, taken, told \in BOOLEAN : SendChunk(s, g, taken, told)
  \/ SendNow \/ EditReminder \/ LoadOnlineEvent \/ SelectOnlineEvent \/ WriteOnlineEvent \/ OnlineClock
  \/ \E g \in Guests :
       \/ SeatDecided(g) \/ RefreshJoin(g) \/ OnlineJoin(g) \/ CheckinLoads(g)
       \/ \E seated, ok \in BOOLEAN : CheckinUpdates(g, seated, ok)

-----------------------------------------------------------------------------
(* "... so two instances, or the scheduler and an admin, never both send it"  *)
(* (online.service.ts:125), crashes and lost answers included: nobody gets   *)
(* the reminder more than once, and once more for every forced send of what   *)
(* had been claimed and every save of the whole event row that took the claim *)
(* back. A forced send that comes first is the one.                         *)
RemindedOnce == \A g \in Guests : mailed[g] <= 1 + undone + resent
=============================================================================
