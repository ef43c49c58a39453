------------------------ MODULE RegistrationsViewer ------------------------
(***************************************************************************)
(* The Registrations page of one browser: the event, filters, order and page *)
(* it asks for, the rows it was answered with, the ticked registrations, the  *)
(* drawer that is opened by position, in the list of people and in the list   *)
(* of teams, and the requests it has under way. What others change looks to   *)
(* the page like one of its own requests that is carried out late.           *)
(*                                                                          *)
(* A registration is a number, the newest is the smallest. Of a query's cache *)
(* only this is kept: asking for something else shows "Loading", or at once   *)
(* what a fetch would bring; a later fetch brings what is in the table then.  *)
(* The people and the teams of an event are fetched together.                *)
(***************************************************************************)
EXTENDS Naturals, FiniteSets, SequencesExt

CONSTANTS
  Rows,           \* the registrations, 1..n
  Events,         \* the events to choose from
  EventOfRow,     \* the event of each registration
  TeamOfRow,      \* the team of each, a number
  PageLength,     \* rows of a page
  Filters,        \* of "default", "pending" (a status) and "with_deleted" (Show deleted)
  Statuses,       \* "pending", and "rejected" where the first is a filter
  MaxRequests     \* bound on the mutations under way

ASSUME ViewerAssumption ==
  /\ IsFiniteSet(Rows) /\ Rows \subseteq Nat /\ PageLength \in Nat \ {0}
  /\ "default" \in Filters /\ Statuses \subseteq {"pending", "rejected"}

RowStatus == {"pending", "rejected"}
RowStates == [status : RowStatus, deleted : BOOLEAN]
Rejected == IF "rejected" \in Statuses THEN "rejected" ELSE "pending"

VARIABLES
  table,       \* the registrations as they are stored
  query,       \* selectedEvent, appliedFilters, sortOrder, page, limit = 0, viewMode
  result,      \* what the query shows
  selected,    \* selectedIds
  drawer,      \* detailIndex and pendingEdge
  openTeam,    \* openTeamIndex, 0 for none
  dialog,      \* the modal over the page, and its deleteTarget
  requests,    \* mutations under way, at most one of each kind
  aim,         \* history: where in the list the drawer was steered to, 0 if the list moved
  seen         \* history: who was listed since the list became another one

viewerVars == <<table, query, result, selected, drawer, openTeam, dialog, requests, aim, seen>>

Loading == [loading |-> TRUE, rows |-> <<>>, total |-> 0, teams |-> <<>>]
Closed == [kind |-> "none", at |-> 0]
NoDialog == [kind |-> "none", target |-> 0]
Mailings == {"reminder", "whatsapp", "expired", "rejection"}
Dialogs == Mailings \cup {"teams", "import", "delete"}
Kinds == Dialogs \cup {"bulk", "team", "deposit", "restore", "status"}

ViewerTypeOK ==
  /\ table \in [Rows -> RowStates]
  /\ query \in [event : Events \cup {""}, filter : Filters, newestFirst : BOOLEAN,
                page : {1} \cup 1..Cardinality(Rows), all : BOOLEAN, view : {"people", "teams"}]
  /\ DOMAIN result = DOMAIN Loading /\ result.total <= Cardinality(Rows)
  /\ selected \subseteq Rows /\ seen \subseteq Rows
  /\ drawer \in [kind : {"none", "at", "first", "last"}, at : 0..Cardinality(Rows)]
  /\ openTeam \in 0..Cardinality(Rows) /\ aim \in 0..Cardinality(Rows)
  /\ dialog \in [kind : Dialogs \cup {"none"}, target : Rows \cup {0}]
  /\ \A q \in requests : /\ DOMAIN q = {"kind", "ids", "to"}
                         /\ q.kind \in Kinds /\ q.ids \subseteq Rows /\ q.to \in RowStatus
  /\ \A q, p \in requests : q.kind = p.kind => q = p

-----------------------------------------------------------------------------
(* What the backend answers. *)

Matches(f, r) ==
  /\ f # "with_deleted" => ~table[r].deleted
  /\ f = "pending" => table[r].status = "pending"

(* The numbers of S in order: as many of S as come before it precede each. *)
InOrder(S, ascending) ==
  LET before(x) == {y \in S : IF ascending THEN y < x ELSE x < y}
  IN [i \in 1..Cardinality(S) |-> CHOOSE x \in S : Cardinality(before(x)) + 1 = i]

Listing(q) == InOrder({r \in Rows : EventOfRow[r] = q.event /\ Matches(q.filter, r)}, q.newestFirst)

LiveMembers(t) == {r \in Rows : TeamOfRow[r] = t /\ ~table[r].deleted}

(* memberIds of each team row. A team matches when one of its members does, a *)
(* deleted one too; one without live members shows under "Show deleted" only. *)
TeamRows(q) ==
  LET listed == {t \in {TeamOfRow[r] : r \in {x \in Rows : EventOfRow[x] = q.event}} :
                   /\ q.filter = "pending" => \E r \in Rows : TeamOfRow[r] = t /\ table[r].status = "pending"
                   /\ q.filter # "with_deleted" => LiveMembers(t) # {}}
      order == InOrder(listed, TRUE)
  IN [i \in 1..Len(order) |-> LiveMembers(order[i])]

PageOf(q) ==
  LET list == Listing(q)
      last == IF q.page * PageLength < Len(list) THEN q.page * PageLength ELSE Len(list)
  IN IF q.all THEN list ELSE SubSeq(list, (q.page - 1) * PageLength + 1, last)

Fresh(q) ==
  IF q.event = "" THEN [Loading EXCEPT !.loading = FALSE]
  ELSE [loading |-> FALSE, rows |-> PageOf(q), total |-> Len(Listing(q)),
        teams |-> IF q.view = "teams" THEN TeamRows(q) ELSE <<>>]

ShownIn(q, res) == IF q.view = "teams" THEN UNION ToSet(res.teams) ELSE ToSet(res.rows)

(* An answer of before that is still kept, or none yet. *)
Shows(q, kept) == IF kept THEN Fresh(q) ELSE Loading

ViewerInit ==
  /\ table = [r \in Rows |-> [status |-> "pending", deleted |-> FALSE]]
  /\ query = [event |-> "", filter |-> "default", newestFirst |-> TRUE,
              page |-> 1, all |-> FALSE, view |-> "people"]
  /\ result = Fresh(query)
  /\ selected = {} /\ drawer = Closed /\ openTeam = 0 /\ dialog = NoDialog
  /\ requests = {} /\ aim = 0 /\ seen = {}

-----------------------------------------------------------------------------
(* What the page derives on every render. *)

rows == result.rows
totalPages == IF query.all \/ result.total = 0 THEN 1
              ELSE (result.total + PageLength - 1) \div PageLength

(* 0 where the row is not known yet. *)
openIndex == CASE drawer.kind = "at" -> drawer.at
               [] drawer.kind = "first" -> IF rows = <<>> THEN 0 ELSE 1
               [] drawer.kind = "last" -> Len(rows)
               [] OTHER -> 0
detailShown == openIndex \in 1..Len(rows)
detailOpen == /\ query.view = "people" /\ drawer # Closed
              /\ result.loading \/ detailShown
teamOpen == query.view = "teams" /\ openTeam \in 1..Len(result.teams)
Position == openIndex + IF query.all THEN 0 ELSE (query.page - 1) * PageLength

(* A dialog or a drawer lies over the page. *)
Covered == detailOpen \/ teamOpen \/ dialog # NoDialog
Pending(kind) == \E q \in requests : q.kind = kind
isTeamSelected(ids) == ids # {} /\ ids \subseteq selected
selectedTeams == {ids \in ToSet(result.teams) : isTeamSelected(ids)}

(* Whether a ticked row of this page is eligible for a mailing depends on what *)
(* is not kept here; one has to be ticked.                                     *)
TickedHere == ToSet(rows) \cap selected
messageTeams == IF query.view = "teams" THEN selectedTeams ELSE {{r} : r \in TickedHere}

-----------------------------------------------------------------------------
(* What is asked for. *)

Ask(q, kept) ==
  /\ query' = q /\ result' = Shows(q, kept)
  /\ UNCHANGED <<table, openTeam, dialog, requests>>

(* Another list: the first page of it, nothing ticked, the drawer closed. *)
AskAnew(q, kept) ==
  /\ Ask([q EXCEPT !.page = 1], kept)
  /\ selected' = {} /\ seen' = ShownIn(query', result')
  /\ drawer' = Closed /\ aim' = 0

(* Mutant: a selection outlives the event it was made in. *)
MutSelectEvent(e, kept) ==
  /\ e # query.event /\ Ask([query EXCEPT !.event = e, !.page = 1], kept)
  /\ seen' = ShownIn(query', result')
  /\ drawer' = Closed /\ aim' = 0 /\ UNCHANGED selected

SelectEvent(e, kept) == e # query.event /\ AskAnew([query EXCEPT !.event = e], kept)

(* "Apply filters", and "Clear all filters" for the first of them. *)
ApplyFilters(f, kept) == AskAnew([query EXCEPT !.filter = f], kept)

ChangeLimit(kept) == query.view = "people" /\ AskAnew([query EXCEPT !.all = ~@], kept)

SwitchView(kept) ==
  /\ query' = [query EXCEPT !.view = IF @ = "people" THEN "teams" ELSE "people"]
  /\ result' = Shows(query', kept)
  /\ selected' = {} /\ seen' = ShownIn(query', result')
  /\ drawer' = Closed /\ aim' = 0 /\ openTeam' = 0
  /\ UNCHANGED <<table, dialog, requests>>

ToggleSort(kept) ==
  /\ Ask([query EXCEPT !.newestFirst = ~@, !.page = 1], kept)
  /\ drawer' = Closed /\ aim' = 0
  /\ seen' = seen \cup ShownIn(query', result') /\ UNCHANGED selected

Paginate(p, kept) ==
  /\ Ask([query EXCEPT !.page = p], kept)
  /\ seen' = seen \cup ShownIn(query', result') /\ aim' = 0
  /\ UNCHANGED <<selected, drawer>>

(* A fetch is answered, the first one or one of the refetches; or it fails, *)
(* which shows an empty list where there was none before.                   *)
Show(res) ==
  /\ result' = res /\ seen' = seen \cup ShownIn(query, res)
  /\ aim' = IF result.loading \/ res = result THEN aim ELSE 0
  /\ UNCHANGED <<table, query, selected, drawer, openTeam, dialog, requests>>

Fetched == query.event # "" /\ Show(Fresh(query))
FetchFails ==
  /\ result.loading
  /\ result' = [Loading EXCEPT !.loading = FALSE] /\ aim' = 0
  /\ UNCHANGED <<table, query, selected, drawer, openTeam, dialog, requests, seen>>

-----------------------------------------------------------------------------
(* Ticking. *)

Tick(ids) ==
  /\ selected' = ids
  /\ UNCHANGED <<table, query, result, drawer, openTeam, dialog, requests, aim, seen>>

ToggleOne(r) == Tick(IF r \in selected THEN selected \ {r} ELSE selected \cup {r})

ToggleSelectAll == rows # <<>> /\ Tick(IF ToSet(rows) \subseteq selected THEN {} ELSE ToSet(rows))

ToggleTeam(ids) == Tick(IF isTeamSelected(ids) THEN selected \ ids ELSE selected \cup ids)

ToggleAllTeams ==
  /\ result.teams # <<>>
  /\ Tick(IF selectedTeams = ToSet(result.teams) THEN {} ELSE selected \cup UNION ToSet(result.teams))

-----------------------------------------------------------------------------
(* The drawer. *)

Steer(d, q, res, to) ==
  /\ drawer' = d /\ query' = q /\ result' = res /\ aim' = to
  /\ seen' = seen \cup ShownIn(query', result')
  /\ UNCHANGED <<table, selected, openTeam, dialog, requests>>

At(i) == [kind |-> "at", at |-> i]

OpenDetail(i) ==
  Steer(At(i), query, result,
        IF result # Fresh(query) THEN 0
        ELSE i + IF query.all THEN 0 ELSE (query.page - 1) * PageLength)

CloseDetail == Steer(Closed, query, result, 0)

(* Where the drawer was is where it is steered from; before the row is known *)
(* the buttons and the arrow keys do nothing.                               *)
Steered(by) == IF aim = 0 THEN 0 ELSE by

GoNextRecord(kept) ==
  /\ openIndex # 0
  /\ \/ /\ openIndex < Len(rows)
        /\ Steer(At(openIndex + 1), query, result, Steered(aim + 1))
     \/ /\ openIndex >= Len(rows) /\ ~query.all /\ query.page < totalPages
        /\ LET q == [query EXCEPT !.page = @ + 1] IN
           Steer([kind |-> "first", at |-> 0], q, Shows(q, kept), Steered(aim + 1))

(* Mutant: the page before is entered at its start. *)
MutGoPrevRecord(kept) ==
  /\ openIndex # 0
  /\ \/ /\ openIndex > 1
        /\ Steer(At(openIndex - 1), query, result, Steered(aim - 1))
     \/ /\ openIndex = 1 /\ query.page > 1
        /\ LET q == [query EXCEPT !.page = @ - 1] IN
           Steer([kind |-> "first", at |-> 0], q, Shows(q, kept), Steered(aim - 1))

GoPrevRecord(kept) ==
  /\ openIndex # 0
  /\ \/ /\ openIndex > 1
        /\ Steer(At(openIndex - 1), query, result, Steered(aim - 1))
     \/ /\ openIndex = 1 /\ query.page > 1
        /\ LET q == [query EXCEPT !.page = @ - 1] IN
           Steer([kind |-> "last", at |-> 0], q, Shows(q, kept), Steered(aim - 1))

(* setOpenTeamIndex, 0 to close. *)
ShowTeam(i) ==
  /\ openTeam' = i
  /\ UNCHANGED <<table, query, result, selected, drawer, dialog, requests, aim, seen>>

-----------------------------------------------------------------------------
(* What is sent. *)

Send(kind, ids, to) ==
  /\ ~Pending(kind) /\ Cardinality(requests) < MaxRequests
  /\ requests' = requests \cup {[kind |-> kind, ids |-> ids, to |-> to]}
  /\ UNCHANGED <<table, query, result, selected, drawer, openTeam, dialog, aim, seen>>

(* The same mutation from the bar, and from the drawer for all of a team. *)
BulkUpdate(to) == selected # {} /\ ~Pending("team") /\ Send("bulk", selected, to)
TeamStatus(ids, to) == ids # {} /\ ~Pending("bulk") /\ Send("team", ids, to)

SetStatusOf(r, to) == Send("status", {r}, to)

RequestDeposit == selectedTeams # {} /\ Send("deposit", {}, "pending")

(* The mailings to what is ticked; two of them also reject it, if asked to. *)
SendMailing(alsoReject) ==
  /\ selected # {} /\ TickedHere # {}
  /\ alsoReject => dialog.kind \in {"expired", "rejection"}
  /\ Send(dialog.kind, IF alsoReject THEN selected ELSE {}, Rejected)

SendTeamMessage == messageTeams # {} /\ Send("teams", {}, "pending")

(* Pasted ids may be anybody's. *)
ImportCsv(ids, to) == ids # {} /\ Send("import", ids, to)

ConfirmDelete == Send("delete", {dialog.target}, "pending")

Restore(r) == Send("restore", {r}, "pending")

(* A deleted row is only restored; its status stays. *)
Stored(q) ==
  [r \in Rows |->
    IF r \notin q.ids \/ table[r].deleted # (q.kind = "restore") THEN table[r]
    ELSE [status |-> IF q.kind \in {"delete", "restore"} THEN table[r].status ELSE q.to,
          deleted |-> q.kind = "delete"]]

(* Success closes the dialog it was sent from; that of a bulk change, and of  *)
(* most mailings, clears whatever is ticked by then.                         *)
Answered(q, ok) ==
  /\ q \in requests /\ requests' = requests \ {q}
  /\ table' = IF ok THEN Stored(q) ELSE table
  /\ dialog' = IF ok /\ q.kind = dialog.kind THEN NoDialog ELSE dialog
  /\ selected' = IF ~ok THEN selected
                 ELSE CASE q.kind \in {"bulk", "reminder", "expired", "rejection"} -> {}
                        [] q.kind = "delete" -> selected \ q.ids
                        [] OTHER -> selected
  /\ UNCHANGED <<query, result, drawer, openTeam, seen>>
  /\ aim' = IF Listing(query)' = Listing(query) THEN aim ELSE 0

-----------------------------------------------------------------------------
(* What is offered where. A drawer or a dialog covers the page. *)

Dialog(kind, target) ==
  /\ dialog' = [kind |-> kind, target |-> target]
  /\ UNCHANGED <<table, query, result, selected, drawer, openTeam, requests, aim, seen>>

(* The event, and "Import IDs". *)
PageHead(kept) ==
  \/ \E e \in Events \cup {""} : SelectEvent(e, kept)
  \/ query.event # "" /\ Dialog("import", 0)

FilterPanel(kept) == query.event # "" /\ \E f \in Filters : ApplyFilters(f, kept)

BulkBar ==
  /\ selected # {}
  /\ \/ \E to \in Statuses : BulkUpdate(to)
     \/ query.view = "teams" /\ RequestDeposit
     \/ \E kind \in Mailings : TickedHere # {} /\ Dialog(kind, 0)
     \/ messageTeams # {} /\ ~Pending("teams") /\ Dialog("teams", 0)
     \/ Tick({})

ListBar(kept) == query.event # "" /\ ~result.loading /\ (SwitchView(kept) \/ ChangeLimit(kept))

PeopleTable(kept) ==
  /\ query.event # "" /\ ~result.loading /\ query.view = "people"
  /\ \/ ToggleSelectAll \/ ToggleSort(kept)
     \/ \E i \in DOMAIN rows :
          \/ ToggleOne(rows[i]) \/ OpenDetail(i) \/ Dialog("delete", rows[i])
          \/ query.filter = "with_deleted" /\ Restore(rows[i])

Pagination(kept) ==
  /\ ~result.loading /\ query.view = "people"
  /\ \E p \in 1..totalPages : (p = query.page + 1 \/ p + 1 = query.page) /\ Paginate(p, kept)

TeamsGrid ==
  /\ query.view = "teams"
  /\ ToggleAllTeams \/ \E i \in DOMAIN result.teams : ToggleTeam(result.teams[i]) \/ ShowTeam(i)

(* The arrow keys do what the buttons do. *)
PersonDrawer(kept) ==
  /\ detailOpen
  /\ \/ CloseDetail \/ GoPrevRecord(kept) \/ GoNextRecord(kept)
     \/ detailShown /\ (ToggleOne(rows[openIndex]) \/ \E to \in Statuses : SetStatusOf(rows[openIndex], to))

TeamDrawer ==
  /\ teamOpen
  /\ \/ \E i \in {0} \cup DOMAIN result.teams : (i \in {0, openTeam + 1} \/ i + 1 = openTeam) /\ ShowTeam(i)
     \/ ToggleTeam(result.teams[openTeam])
     \/ \E to \in Statuses : TeamStatus(result.teams[openTeam], to)

(* The dialogs: each sends, or is cancelled while nothing of it is pending. *)
Cancel == ~Pending(dialog.kind) /\ Dialog("none", 0)
ReminderDialog == dialog.kind = "reminder" /\ (SendMailing(FALSE) \/ Cancel)
WhatsappDialog == dialog.kind = "whatsapp" /\ (SendMailing(FALSE) \/ Cancel)
RejectionDialog ==
  dialog.kind = "rejection" /\ (Cancel \/ \E alsoReject \in BOOLEAN : SendMailing(alsoReject))
WindowClosedDialog ==
  dialog.kind = "expired" /\ (Cancel \/ \E alsoReject \in BOOLEAN : SendMailing(alsoReject))
TeamMessageDialog == dialog.kind = "teams" /\ (SendTeamMessage \/ Cancel)
ImportDialog ==
  dialog.kind = "import" /\ (Cancel \/ \E ids \in SUBSET Rows, to \in Statuses : ImportCsv(ids, to))
DeleteDialog == dialog.kind = "delete" /\ (ConfirmDelete \/ Cancel)

ViewerNext ==
  \/ Fetched \/ FetchFails
  \/ \E q \in requests, ok \in BOOLEAN : Answered(q, ok)
  \/ \E kept \in BOOLEAN :
       \/ ~Covered /\ (PageHead(kept) \/ FilterPanel(kept) \/ ListBar(kept) \/ PeopleTable(kept) \/ Pagination(kept))
       \/ dialog = NoDialog /\ PersonDrawer(kept)
  \/ ~Covered /\ (BulkBar \/ TeamsGrid)
  \/ dialog = NoDialog /\ TeamDrawer
  \/ ReminderDialog \/ WhatsappDialog \/ RejectionDialog \/ WindowClosedDialog
  \/ TeamMessageDialog \/ ImportDialog \/ DeleteDialog

-----------------------------------------------------------------------------
(* What a bulk change or a mailing is sent for has been listed, on some page, *)
(* under the event, the filters and the view the organiser is looking at, also *)
(* where answers and refetches came in between.                              *)
SelectionWasListed == selected \subseteq seen

(* "stepping across a page boundary" (registrations-viewer.jsx:510): while     *)
(* the list stays as it is, the drawer is at the record it was steered to, one *)
(* further or one back each time, whether the next page was kept or loaded.    *)
StepsToNeighbour ==
  (aim # 0 /\ detailShown /\ ~result.loading) => Position = aim
=============================================================================
