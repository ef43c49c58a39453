---------------------------- MODULE CheckinDesk ----------------------------
(***************************************************************************)
(* The check-in desk at an event, two browsers of it. One shows the list of  *)
(* attendees: the hackathon page, which checks in and assigns a team, with a  *)
(* scanner of its own, or the day-of page of any other event. The other is   *)
(* the QR scanner, on a desk or a phone, with a card for who was scanned      *)
(* last. Both call AdminService and TeamAssignmentService, whose handlers    *)
(* are one step here (RegistrationLifecycle and TeamAssignment take them     *)
(* apart). Left out with that: assignAtCheckin saves the whole registration  *)
(* of somebody without a role bucket, and may so write back a check-in that  *)
(* another browser changed meanwhile.                                       *)
(*                                                                          *)
(* Everybody may be checked in, that is, has been shortlisted. The page of   *)
(* the list checks somebody in with a toggle, from what it shows.            *)
(***************************************************************************)
EXTENDS Naturals, FiniteSets

CONSTANTS
  People,         \* the attendees
  Acknowledged,   \* those of them who have confirmed
  Sealed,         \* those of them on a self-registered team
  Outcomes,       \* of a request: "done", "refused", "lost" (done, but not answered)
  MaxCalls,       \* bound on the handlers of the list page under way
  MaxOverlap      \* bound on handlers, marks, late loads and started scanners at a time

ASSUME DeskAssumption == MaxCalls \in Nat /\ Outcomes \subseteq {"done", "refused", "lost"}

VARIABLES
  hackathon,   \* whether the event is one
  row,         \* the registrations: checked_in, status attended, on a team
  list,        \* allAttendees and teamByRegistration of the list page
  load,        \* a loadAttendees whose answer is late: who was checked in then
  held,        \* the list the page's scanner was started with: whom it shows as checked in
  calls,       \* handlers of the list page under way
  card,        \* scanResult of the other browser, and showAckWarning
  marks,       \* its handleMarkAttended under way
  mishaps      \* history: with whom something went wrong since the page had a clean list

deskVars == <<hackathon, row, list, load, held, calls, card, marks, mishaps>>

Nobody == "nobody"
Entry == [checked : BOOLEAN, present : BOOLEAN, team : BOOLEAN]
Shown == [checked : BOOLEAN, team : BOOLEAN]
Call == [op : {"checkin", "unassign", "toggle"}, pc : {"toggle", "assign", "unassign"},
         id : People, rest : SUBSET People, snap : SUBSET People, bulk : BOOLEAN]
NoCard == [id |-> Nobody, present |-> FALSE, warn |-> FALSE]

DeskTypeOK ==
  /\ hackathon \in BOOLEAN
  /\ row \in [People -> Entry] /\ list \in [People -> Shown]
  /\ load \in {[snap |-> s] : s \in SUBSET People} \cup {<<>>}
  /\ held \in {[snap |-> s] : s \in SUBSET People} \cup {<<>>}
  /\ \A c \in 1..MaxCalls : calls[c] \in Call \cup {<<>>}
  /\ card \in [id : People \cup {Nobody}, present : BOOLEAN, warn : BOOLEAN]
  /\ marks \in [People -> {"idle", "attend", "assign"}]
  /\ mishaps \subseteq People

(* What the list page keeps of the rows it is sent, and of the teams. *)
DeskList == [r \in People |-> [checked |-> row[r].checked, team |-> row[r].team]]
ShownChecked == {r \in People : list[r].checked}

DeskInit ==
  /\ hackathon \in BOOLEAN
  /\ row = [r \in People |-> [checked |-> FALSE, present |-> FALSE, team |-> r \in Sealed]]
  /\ list = DeskList /\ load = <<>> /\ held = <<>>
  /\ calls = [c \in 1..MaxCalls |-> <<>>]
  /\ card = NoCard /\ marks = [r \in People |-> "idle"]
  /\ mishaps = {}

-----------------------------------------------------------------------------
(* The handlers of the backend. *)

(* AdminService.toggleCheckin: the status stays. *)
ToggleCheckin(r) == row' = [row EXCEPT ![r].checked = ~@]

(* AdminService.markAttendedFromScan *)
MarkAttended(r) == row' = [row EXCEPT ![r].checked = TRUE, ![r].present = TRUE]

(* assignAtCheckin: whoever has a team keeps it. *)
AssignTeam(r) == row' = [row EXCEPT ![r].team = TRUE]

(* unassignMember: the roster of a sealed team stays. *)
UnassignTeam(r) == row' = [row EXCEPT ![r].checked = FALSE, ![r].team = r \in Sealed]

(* Whose check-in a step changes. *)
Moved == {r \in People : row'[r].checked # row[r].checked}

-----------------------------------------------------------------------------
(* The list page. Whatever goes by an earlier list or an earlier row can be     *)
(* under way along with everything else.                                     *)

scanPage == <<card, marks>>

(* The bound on what is under way at a time. *)
MayBegin ==
  MaxOverlap > Cardinality({c \in 1..MaxCalls : calls[c] # <<>>})
                 + Cardinality({r \in People : marks[r] # "idle"})
                 + (IF held = <<>> THEN 0 ELSE 1) + (IF load = <<>> THEN 0 ELSE 1)

(* Nothing goes by an earlier list. *)
NothingUnderWay == held = <<>> /\ \A c \in 1..MaxCalls : calls[c] = <<>>

(* Whom the handlers other than c go by. *)
UnderWay(c) ==
  UNION {IF d = c \/ calls[d] = <<>> THEN {} ELSE {calls[d].id} \cup calls[d].rest : d \in 1..MaxCalls}

(* The event is chosen again; what is under way goes by the list of before. *)
LoadAttendees ==
  /\ list' = DeskList
  /\ mishaps' = IF load = <<>> /\ NothingUnderWay THEN {} ELSE mishaps
  /\ UNCHANGED <<hackathon, row, load, held, calls, scanPage>>

(* A load whose answer takes its time: the list of before is shown and may be  *)
(* worked with, also that of a later load.                                   *)
FetchAttendees ==
  /\ MayBegin /\ load = <<>> /\ load' = [snap |-> {r \in People : row[r].checked}]
  /\ UNCHANGED <<hackathon, row, list, held, calls, scanPage, mishaps>>

AttendeesAnswered(ok) ==
  /\ load # <<>> /\ load' = <<>>
  /\ list' = IF ok THEN [r \in People |-> [list[r] EXCEPT !.checked = r \in load.snap]] ELSE list
  /\ mishaps' = IF ok /\ NothingUnderWay
                THEN {r \in People : r \in load.snap <=> ~row[r].checked} ELSE mishaps
  /\ UNCHANGED <<hackathon, row, held, calls, scanPage>>

(* refetchTeams, and every refetch of the list of teams. *)
RefetchTeams ==
  /\ list' = [r \in People |-> [list[r] EXCEPT !.team = row[r].team]]
  /\ UNCHANGED <<hackathon, row, load, held, calls, scanPage, mishaps>>

BulkPending == \E c \in 1..MaxCalls : calls[c] # <<>> /\ calls[c].bulk
Assigning == \E c \in 1..MaxCalls : calls[c] # <<>> /\ calls[c].pc = "assign"
Unassigning == \E c \in 1..MaxCalls : calls[c] # <<>> /\ calls[c].pc = "unassign"

(* Mutant: a check-in toggles whoever it is for. *)
MutFirstRequest(op, r, snap) == IF op = "unassign" THEN "unassign" ELSE "toggle"

(* What is asked for first: a check-in toggles only whom it shows as not checked in. *)
FirstRequest(op, r, snap) ==
  CASE op = "unassign" -> "unassign"
    [] op = "checkin" /\ r \in snap -> "assign"
    [] OTHER -> "toggle"

Handle(c, op, todo, snap, bulk) ==
  /\ MayBegin /\ calls[c] = <<>>
  /\ \E r \in todo :
       calls' = [calls EXCEPT ![c] =
         [op |-> op, id |-> r, rest |-> todo \ {r}, snap |-> snap \cap todo, bulk |-> bulk,
          pc |-> FirstRequest(op, r, snap)]]
  /\ mishaps' = mishaps \cup (todo \cap UnderWay(c))
  /\ UNCHANGED <<hackathon, row, list, load, held, scanPage>>

handleHackathonCheckin(c, r) == Handle(c, "checkin", {r}, ShownChecked, FALSE)
handleUnassign(c, r) == Handle(c, "unassign", {r}, {}, FALSE)
handleBulkCheckin(c, ticked) == Handle(c, "checkin", ticked, ShownChecked, TRUE)
handleBulkUnassign(c, ticked) == Handle(c, "unassign", ticked, {}, TRUE)
handleToggle(c, r) == Handle(c, "toggle", {r}, ShownChecked, FALSE)

(* What may be ticked on a page of the search, of those with a team or without. *)
Ticked(team) == {s \in SUBSET People : s # {} /\ \A r \in s : list[r].team = team}

(* The scanner of the page; its callback is that of the render it was started in. *)
StartScanner ==
  /\ MayBegin /\ held' = [snap |-> ShownChecked]
  /\ mishaps' = mishaps \cup UnderWay(0)
  /\ UNCHANGED <<hackathon, row, list, load, calls, scanPage>>

handleQrScan(c, r) ==
  /\ calls[c] = <<>> /\ held' = <<>>
  /\ calls' = [calls EXCEPT ![c] =
       [op |-> "checkin", id |-> r, rest |-> {}, snap |-> held.snap \cap {r}, bulk |-> FALSE,
        pc |-> FirstRequest("checkin", r, held.snap)]]
  /\ mishaps' = mishaps \cup ({r} \cap UnderWay(c))
  /\ UNCHANGED <<hackathon, row, list, load, scanPage>>

(* What is offered where. "Check in + assign" is disabled while an assignment *)
(* is under way, and is not while the toggle before it is.                   *)
ScannerCard(c) ==
  \/ held = <<>> /\ StartScanner
  \/ held # <<>> /\ \E r \in People : handleQrScan(c, r)

HackathonBulkBar(c) ==
  /\ ~BulkPending
  /\ \/ \E ticked \in Ticked(FALSE) : handleBulkCheckin(c, ticked)
     \/ \E ticked \in Ticked(TRUE) : handleBulkUnassign(c, ticked)

HackathonTable(c) == \E r \in People :
  \/ ~list[r].team /\ ~Assigning /\ ~BulkPending /\ handleHackathonCheckin(c, r)
  \/ list[r].team /\ ~Unassigning /\ handleUnassign(c, r)

(* The day-of page: a button that toggles. *)
DayOfTable(c) == \E r \in People : handleToggle(c, r)

(* The next one of a bulk operation, by what was shown when it was started. *)
Following(call) ==
  IF call.rest = {} THEN {<<>>}
  ELSE {[call EXCEPT !.id = r, !.rest = @ \ {r}, !.snap = @ \cap call.rest,
                     !.pc = FirstRequest(call.op, r, call.snap)] : r \in call.rest}

Requested(pc, r) == CASE pc = "toggle" -> ToggleCheckin(r)
                      [] pc = "assign" -> AssignTeam(r)
                      [] OTHER -> UnassignTeam(r)

(* What the page puts into its list: the check-in is shown with the team. *)
ShowOutcome(call, outcome) ==
  list' = IF outcome # "done" \/ (call.op = "checkin" /\ call.pc = "toggle") THEN list
          ELSE [list EXCEPT ![call.id].checked =
                  CASE call.pc = "assign" -> TRUE
                    [] call.pc = "unassign" -> FALSE
                    [] call.pc = "toggle" -> row'[call.id].checked]

(* Whose check-in the page is not told of: an answer is lost, the toggle was   *)
(* carried out and the assignment refused, or somebody goes by an older list.  *)
Untold(c, outcome) ==
  LET call == calls[c] IN
  IF outcome = "lost" \/ (outcome = "refused" /\ call.op = "checkin" /\ call.pc = "assign")
  THEN {call.id}
  ELSE IF held # <<>> \/ load # <<>> THEN Moved ELSE Moved \cap UnderWay(c)

HandlerStep(c, outcome) ==
  LET call == calls[c] IN
  /\ call # <<>>
  /\ IF outcome = "refused" THEN UNCHANGED row ELSE Requested(call.pc, call.id)
  /\ ShowOutcome(call, outcome) /\ mishaps' = mishaps \cup Untold(c, outcome)
  /\ \E next \in IF outcome = "done" /\ call.op = "checkin" /\ call.pc = "toggle"
                 THEN {[call EXCEPT !.pc = "assign"]} ELSE Following(call) :
       calls' = [calls EXCEPT ![c] = next]
  /\ UNCHANGED <<hackathon, load, held, scanPage>>

-----------------------------------------------------------------------------
(* The QR scanner, which leaves the page of the list alone. A card is replaced *)
(* by whatever is answered last.                                              *)

listPage == <<hackathon, row, list, load, held, calls, mishaps>>

(* scanQrCode *)
ScanAnswer(r) == [id |-> r, present |-> row[r].present, warn |-> FALSE]

(* A scan and the answer to its lookup: "Mark as attended" is not to be had in *)
(* between, and a mark answered meanwhile might as well have been answered      *)
(* before it. The warning goes, and the card of before even if nobody is found. *)
ScanCode(r, ok) ==
  /\ card' = IF ok THEN ScanAnswer(r) ELSE NoCard
  /\ UNCHANGED <<listPage, marks>>

(* On a phone the card goes as soon as the scanner starts. *)
ScanNext ==
  /\ card' = NoCard
  /\ UNCHANGED <<listPage, marks>>

(* "Mark as attended", and "Allow anyway" in the warning; neither is disabled *)
(* while a mark is under way. A second one of the same person adds nothing.   *)
MarkClick ==
  /\ LET r == card.id IN
     IF r \notin Acknowledged /\ ~card.warn
     THEN card' = [card EXCEPT !.warn = TRUE] /\ UNCHANGED marks
     ELSE /\ MayBegin
          /\ marks[r] = "idle" /\ marks' = [marks EXCEPT ![r] = "attend"]
          /\ card' = [card EXCEPT !.warn = FALSE]
  /\ UNCHANGED listPage

CancelWarning ==
  /\ card' = [card EXCEPT !.warn = FALSE]
  /\ UNCHANGED <<listPage, marks>>

(* Whoever was marked is on the card again, also after somebody else was scanned. *)
MarkStep(r, outcome) ==
  /\ marks[r] # "idle"
  /\ IF outcome = "refused" THEN UNCHANGED row
     ELSE IF marks[r] = "attend" THEN MarkAttended(r) ELSE AssignTeam(r)
  /\ marks' = [marks EXCEPT ![r] = IF @ = "attend" /\ hackathon /\ outcome = "done" THEN "assign" ELSE "idle"]
  /\ card' = IF marks[r] = "attend" /\ (hackathon \/ outcome # "done") THEN card
             ELSE [card EXCEPT !.id = r, !.present = TRUE]
  /\ mishaps' = mishaps \cup Moved
  /\ UNCHANGED <<hackathon, list, load, held, calls>>

QrScanPage ==
  \/ \E r \in People, ok \in BOOLEAN : ScanCode(r, ok)
  \/ card.id # Nobody /\ ~card.present /\ ~card.warn /\ MarkClick
  \/ card.warn /\ (MarkClick \/ CancelWarning)

PhonePage ==
  \/ card.id # Nobody /\ (ScanNext \/ (~card.present /\ ~card.warn /\ MarkClick))
  \/ card.warn /\ (MarkClick \/ CancelWarning)

DeskNext ==
  \/ LoadAttendees \/ FetchAttendees \/ (\E ok \in BOOLEAN : AttendeesAnswered(ok))
  \/ RefetchTeams \/ QrScanPage \/ PhonePage
  \/ \E c \in 1..MaxCalls :
       \/ hackathon /\ (ScannerCard(c) \/ HackathonBulkBar(c) \/ HackathonTable(c))
       \/ ~hackathon /\ DayOfTable(c)
       \/ \E outcome \in Outcomes : HandlerStep(c, outcome)
  \/ \E r \in People, outcome \in Outcomes : MarkStep(r, outcome)

-----------------------------------------------------------------------------
(* Somebody was checked in, and the assignment is still to be answered. *)
Awaits(call, r) ==
  /\ call # <<>> /\ call.id = r /\ r \notin call.snap
  /\ call.op = "checkin" /\ call.pc = "assign"

(* The list says of a check-in what is so, and a check-in toggles nobody who   *)
(* is checked in already, that is, unchecks nobody; but for a check-in that   *)
(* another browser changed, a lost answer, an assignment refused after the    *)
(* toggle, and whom two handlers, a started scanner or a late list go by at    *)
(* the same time. While an assignment is awaited the list may be behind. A    *)
(* request that is carried out and answered, whatever is reloaded and ticked   *)
(* in between and however long a bulk operation takes, is no excuse.          *)
UncheckedByMishapOnly ==
  /\ \A r \in People : list[r].checked # row[r].checked =>
       r \in mishaps \/ \E c \in 1..MaxCalls : Awaits(calls[c], r)
  /\ \A c \in 1..MaxCalls : calls[c] # <<>> /\ calls[c].pc = "toggle" =>
       LET call == calls[c] IN
       \/ call.id \in mishaps
       \/ row[call.id].checked <=> call.op = "toggle" /\ call.id \in call.snap
=============================================================================
