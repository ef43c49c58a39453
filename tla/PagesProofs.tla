----------------------------- MODULE PagesProofs -----------------------------
(* Proofs about the pages: the check-in desk, the Registrations page and the *)
(* public forms, for any registrations, events and requests under way; and   *)
(* about the state of all pages and handlers that are checked together.      *)
EXTENDS MCConsole, PanelProofs, SequenceTheorems

-----------------------------------------------------------------------------
(* The check-in desk. *)

DeskTypes ==
  /\ row \in [People -> Entry] /\ list \in [People -> Shown]
  /\ load \in {[snap |-> s] : s \in SUBSET People} \cup {<<>>}
  /\ held \in {[snap |-> s] : s \in SUBSET People} \cup {<<>>}
  /\ calls \in [1..MaxCalls -> Call \cup {<<>>}]
  /\ mishaps \subseteq People

(* What was said of somebody's check-in is so, but for a mishap. *)
SaidRightly(said, r) == (r \in said <=> row[r].checked) \/ r \in mishaps

(* What a handler of the list page goes by was said rightly, and whoever it  *)
(* has checked in is so.                                                     *)
CallRight(call) ==
  call.op # "unassign" => \A r \in {call.id} \cup call.rest :
    IF Awaits(call, r) THEN row[r].checked \/ r \in mishaps ELSE SaidRightly(call.snap, r)

(* A handler asks for what it is about; a check-in toggles whom it was not    *)
(* shown as checked in.                                                      *)
CallInOrder(call) ==
  /\ call.id \notin call.rest
  /\ call.op = "unassign" <=> call.pc = "unassign"
  /\ call.pc = "assign" => call.op = "checkin"
  /\ call.pc = "toggle" /\ call.op = "checkin" => call.id \notin call.snap

CallsRight ==
  \A c \in 1..MaxCalls : calls[c] # <<>> => CallRight(calls[c]) /\ CallInOrder(calls[c])

LoadRight == load # <<>> => \A r \in People : SaidRightly(load.snap, r)

ScannerRight == held # <<>> => \A r \in People : SaidRightly(held.snap, r)

(* The list is right, but for mishaps and assignments that are awaited. *)
ListRight ==
  \A r \in People : list[r].checked # row[r].checked =>
    r \in mishaps \/ \E c \in 1..MaxCalls : Awaits(calls[c], r)

DeskInv == DeskTypes /\ CallsRight /\ LoadRight /\ ScannerRight /\ ListRight

LEMMA DeskStart == DeskInit => DeskInv
<1> SUFFICES ASSUME DeskInit PROVE DeskInv  OBVIOUS
<1>1. row \in [People -> Entry]
  <2>1. \A r \in People : (r \in Sealed) \in BOOLEAN  OBVIOUS
  <2> QED  BY <2>1 DEF DeskInit, Entry
<1>2. DeskTypes  BY <1>1 DEF DeskInit, DeskTypes, DeskList, Entry, Shown
<1>3. CallsRight /\ LoadRight /\ ScannerRight  BY DEF DeskInit, CallsRight, LoadRight, ScannerRight
<1>4. ListRight  BY DEF DeskInit, ListRight, DeskList
<1> QED  BY <1>2, <1>3, <1>4 DEF DeskInv

LEMMA CallIsCall ==
  ASSUME DeskTypes, NEW c \in 1..MaxCalls, calls[c] # <<>>
  PROVE  calls[c] \in Call
BY DEF DeskTypes

LEMMA FirstRequestInOrder ==
  ASSUME NEW op \in {"checkin", "unassign", "toggle"}, NEW r, NEW snap
  PROVE  LET pc == FirstRequest(op, r, snap) IN
         /\ pc \in {"toggle", "assign", "unassign"}
         /\ op = "unassign" <=> pc = "unassign"
         /\ pc = "assign" => op = "checkin" /\ r \in snap
         /\ pc = "toggle" /\ op = "checkin" => r \notin snap
BY DEF FirstRequest

(* Whose check-in changes is a mishap where the list, a load, the scanner or *)
(* another handler goes by it.                                               *)
LEMMA StillSaidRightly ==
  ASSUME NEW said, NEW r \in People, SaidRightly(said, r), mishaps \subseteq mishaps',
         row'[r].checked = row[r].checked \/ r \in mishaps'
  PROVE  SaidRightly(said, r)'
BY DEF SaidRightly

(* A handler whose people stay as they are, or have met with a mishap. *)
LEMMA CallStaysRight ==
  ASSUME NEW call \in Call, CallRight(call), mishaps \subseteq mishaps',
         \A r \in {call.id} \cup call.rest : row'[r].checked = row[r].checked \/ r \in mishaps'
  PROVE  CallRight(call)'
<1>1. {call.id} \cup call.rest \subseteq People  BY DEF Call
<1>2. ASSUME NEW r \in {call.id} \cup call.rest, call.op # "unassign"
      PROVE  IF Awaits(call, r) THEN row'[r].checked \/ r \in mishaps' ELSE SaidRightly(call.snap, r)'
  <2>1. CASE Awaits(call, r)  BY <1>2, <2>1 DEF CallRight
  <2>2. CASE ~Awaits(call, r)
    <3>1. SaidRightly(call.snap, r)  BY <1>2, <2>2 DEF CallRight
    <3> QED  BY <1>1, <1>2, <2>2, <3>1, StillSaidRightly
  <2> QED  BY <2>1, <2>2
<1> QED  BY <1>2 DEF CallRight, Awaits, SaidRightly

(* A change of rows that is a mishap for everybody who goes by them. *)
LEMMA RowChangeKeeps ==
  ASSUME DeskInv, row' \in [People -> Entry], mishaps' \subseteq People, mishaps \subseteq mishaps',
         \A p \in People : row'[p].checked # row[p].checked => p \in mishaps',
         UNCHANGED <<list, load, held, calls>>
  PROVE  DeskInv'
<1> USE DEF DeskInv
<1>1. DeskTypes'  BY DEF DeskTypes
<1>2. CallsRight'
  <2> SUFFICES ASSUME NEW c \in 1..MaxCalls, calls[c] # <<>>
               PROVE  CallRight(calls[c])' /\ CallInOrder(calls[c])
    BY DEF CallsRight, CallInOrder
  <2>1. calls[c] \in Call /\ CallRight(calls[c]) /\ CallInOrder(calls[c])  BY CallIsCall DEF CallsRight
  <2>2. {calls[c].id} \cup calls[c].rest \subseteq People  BY <2>1 DEF Call
  <2>3. PICK call : call = calls[c]  OBVIOUS
  <2>4. CallRight(call)'  BY <2>1, <2>2, <2>3, CallStaysRight
  <2> QED  BY <2>1, <2>3, <2>4 DEF CallRight, Awaits, SaidRightly
<1>3. LoadRight' /\ ScannerRight'  BY StillSaidRightly DEF LoadRight, ScannerRight, SaidRightly
<1>4. ListRight'
  <2> SUFFICES ASSUME NEW p \in People, list'[p].checked # row'[p].checked, p \notin mishaps'
               PROVE  \E c \in 1..MaxCalls : Awaits(calls'[c], p)
    BY DEF ListRight, Awaits
  <2> QED  BY DEF ListRight, Awaits
<1> QED  BY <1>1, <1>2, <1>3, <1>4

(* Steps of the list page. *)
LEMMA LoadsKeep ==
  ASSUME DeskInv,
         LoadAttendees \/ FetchAttendees \/ \E ok \in BOOLEAN : AttendeesAnswered(ok)
  PROVE  DeskInv'
<1> USE DEF DeskInv
<1>1. CASE LoadAttendees
  <2> USE <1>1 DEF LoadAttendees
  <2>1. DeskTypes'  BY DEF DeskTypes, DeskList, Entry, Shown
  <2>2. ListRight'  BY DEF ListRight, DeskList
  <2>3. CASE load = <<>> /\ NothingUnderWay
    BY <2>1, <2>2, <2>3 DEF NothingUnderWay, CallsRight, LoadRight, ScannerRight
  <2>4. CASE ~(load = <<>> /\ NothingUnderWay)
    <3>1. UNCHANGED <<row, load, held, calls, mishaps>>  BY <2>4
    <3>2. CallsRight' /\ LoadRight' /\ ScannerRight'
      BY <3>1 DEF CallsRight, CallRight, CallInOrder, LoadRight, ScannerRight, SaidRightly, Awaits
    <3> QED  BY <2>1, <2>2, <3>2
  <2> QED  BY <2>3, <2>4
<1>2. CASE FetchAttendees
  <2> USE <1>2 DEF FetchAttendees
  <2>1. DeskTypes'  BY DEF DeskTypes
  <2>2. LoadRight'  BY DEF LoadRight, SaidRightly
  <2>3. CallsRight' /\ ScannerRight'
    BY DEF CallsRight, CallRight, CallInOrder, ScannerRight, SaidRightly, Awaits
  <2>4. ListRight'  BY DEF ListRight, Awaits
  <2> QED  BY <2>1, <2>2, <2>3, <2>4
<1>3. ASSUME NEW ok \in BOOLEAN, AttendeesAnswered(ok)  PROVE DeskInv'
  <2>1. /\ load # <<>> /\ load' = <<>> /\ UNCHANGED <<row, held, calls>>
        /\ load \in {[snap |-> s] : s \in SUBSET People}
    BY <1>3 DEF AttendeesAnswered, DeskTypes
  <2>2. LoadRight'  BY <2>1 DEF LoadRight
  <2>3. /\ list' \in [People -> Shown]
        /\ \A r \in People : list'[r].checked = IF ok THEN r \in load.snap ELSE list[r].checked
    <3>1. CASE ok
      <4>1. list' = [r \in People |-> [list[r] EXCEPT !.checked = r \in load.snap]]
        BY <1>3, <3>1 DEF AttendeesAnswered
      <4>2. \A r \in People : (r \in load.snap) \in BOOLEAN  OBVIOUS
      <4> QED  BY <3>1, <4>1, <4>2 DEF DeskTypes, Shown
    <3>2. CASE ~ok  BY <1>3, <3>2 DEF AttendeesAnswered, DeskTypes
    <3> QED  BY <3>1, <3>2
  <2>4. CASE ok /\ NothingUnderWay
    <3>1. mishaps' = {r \in People : r \in load.snap <=> ~row[r].checked}
      BY <1>3, <2>4 DEF AttendeesAnswered
    <3>2. row \in [People -> Entry]  BY DEF DeskTypes
    <3>3. DeskTypes'  BY <2>1, <2>3, <3>1 DEF DeskTypes
    <3>4. CallsRight' /\ ScannerRight'  BY <2>1, <2>4 DEF NothingUnderWay, CallsRight, ScannerRight
    <3>5. ListRight'  BY <2>1, <2>3, <2>4, <3>1, <3>2 DEF ListRight, Entry
    <3> QED  BY <2>2, <3>3, <3>4, <3>5
  <2>5. CASE ~(ok /\ NothingUnderWay)
    <3>1. mishaps' = mishaps  BY <1>3, <2>5 DEF AttendeesAnswered
    <3>2. DeskTypes'  BY <2>1, <2>3, <3>1 DEF DeskTypes
    <3>3. CallsRight' /\ ScannerRight'
      BY <2>1, <3>1 DEF CallsRight, CallRight, CallInOrder, ScannerRight, SaidRightly, Awaits
    <3>4. ListRight'
      <4>1. CASE ok
        <5>1. row \in [People -> Entry]  BY DEF DeskTypes
        <5>2. \A r \in People : (r \in load.snap <=> row[r].checked) \/ r \in mishaps
          BY <2>1 DEF LoadRight, SaidRightly
        <5>3. \A r \in People : list'[r].checked = (r \in load.snap)  BY <2>3, <4>1
        <5>4. \A r \in People : list'[r].checked # row[r].checked => r \in mishaps
          BY <5>1, <5>2, <5>3 DEF Entry
        <5> QED  BY <2>1, <3>1, <5>4 DEF ListRight
      <4>2. CASE ~ok  BY <2>1, <2>3, <3>1, <4>2 DEF ListRight, Awaits
      <4> QED  BY <4>1, <4>2
    <3> QED  BY <2>2, <3>2, <3>3, <3>4
  <2> QED  BY <2>4, <2>5
<1> QED  BY <1>1, <1>2, <1>3

LEMMA RefetchTeamsKeeps ==
  ASSUME DeskInv, RefetchTeams
  PROVE  DeskInv'
<1> USE DEF DeskInv, RefetchTeams
<1>1. DeskTypes'  BY DEF DeskTypes, Entry, Shown
<1>2. CallsRight' /\ LoadRight' /\ ScannerRight'
  BY DEF CallsRight, CallRight, CallInOrder, LoadRight, ScannerRight, SaidRightly, Awaits
<1>3. ListRight'  BY DEF ListRight, Awaits, DeskTypes, Shown
<1> QED  BY <1>1, <1>2, <1>3

(* What the list shows was said rightly, but of whom a handler is about. *)
LEMMA ShownRightly ==
  ASSUME DeskInv, NEW r \in People, NEW c, calls[c] = <<>> \/ c = 0
  PROVE  SaidRightly(ShownChecked, r) \/ r \in UnderWay(c)
<1>1. r \in ShownChecked <=> list[r].checked  BY DEF ShownChecked
<1>2. list[r].checked \in BOOLEAN /\ row[r].checked \in BOOLEAN
  BY DEF DeskInv, DeskTypes, Entry, Shown
<1>3. CASE list[r].checked = row[r].checked  BY <1>1, <1>3 DEF SaidRightly
<1>4. CASE list[r].checked # row[r].checked /\ r \notin mishaps
  <2>1. PICK d \in 1..MaxCalls : Awaits(calls[d], r)  BY <1>4 DEF DeskInv, ListRight
  <2>2. d # c /\ calls[d] # <<>> /\ r = calls[d].id  BY <2>1, DeskAssumption DEF Awaits
  <2> QED  BY <2>2 DEF UnderWay
<1> QED  BY <1>3, <1>4 DEF SaidRightly

(* A handler that goes by what was said rightly. *)
LEMMA CallKeeps ==
  ASSUME DeskInv, NEW c \in 1..MaxCalls, NEW call \in Call, calls[c] = <<>>,
         calls' = [calls EXCEPT ![c] = call], UNCHANGED <<row, list, load>>,
         mishaps' \subseteq People, mishaps \subseteq mishaps', held' \in {held, <<>>},
         CallRight(call)', CallInOrder(call)
  PROVE  DeskInv'
<1> USE DEF DeskInv
<1>1. DeskTypes'  BY DEF DeskTypes
<1>2. CallsRight'
  <2> SUFFICES ASSUME NEW d \in 1..MaxCalls, calls'[d] # <<>>
               PROVE  CallRight(calls[d])' /\ CallInOrder(calls'[d])
    BY DEF CallsRight, CallInOrder
  <2>1. CASE d = c
    <3>1. calls'[d] = call  BY <2>1 DEF DeskTypes
    <3> QED  BY <3>1 DEF CallRight, Awaits, SaidRightly
  <2>2. CASE d # c
    <3>1. calls'[d] = calls[d]  BY <2>2 DEF DeskTypes
    <3>2. PICK other : other = calls[d]  OBVIOUS
    <3>3. other \in Call /\ CallRight(other) /\ CallInOrder(other)
      BY <3>1, <3>2, CallIsCall DEF CallsRight
    <3>4. CallRight(other)'  BY <3>3, CallStaysRight
    <3> QED  BY <3>1, <3>2, <3>3, <3>4 DEF CallRight, Awaits, SaidRightly
  <2> QED  BY <2>1, <2>2
<1>3. LoadRight' /\ ScannerRight'  BY DEF LoadRight, ScannerRight, SaidRightly
<1>4. ListRight'
  <2> SUFFICES ASSUME NEW p \in People, list[p].checked # row[p].checked, p \notin mishaps'
               PROVE  \E d \in 1..MaxCalls : Awaits(calls'[d], p)
    BY DEF ListRight, Awaits
  <2>1. PICK d \in 1..MaxCalls : Awaits(calls[d], p)  BY DEF ListRight
  <2>2. d # c  BY <2>1 DEF Awaits
  <2>3. calls'[d] = calls[d]  BY <2>2 DEF DeskTypes
  <2> QED  BY <2>1, <2>3
<1> QED  BY <1>1, <1>2, <1>3, <1>4

LEMMA HandleKeeps ==
  ASSUME DeskInv, NEW c \in 1..MaxCalls, NEW op \in {"checkin", "unassign", "toggle"},
         NEW todo \in SUBSET People, NEW bulk \in BOOLEAN, NEW snap \in SUBSET People,
         op = "unassign" \/ snap = ShownChecked, Handle(c, op, todo, snap, bulk)
  PROVE  DeskInv'
<1>1. PICK r \in todo :
        calls' = [calls EXCEPT ![c] =
          [op |-> op, id |-> r, rest |-> todo \ {r}, snap |-> snap \cap todo, bulk |-> bulk,
           pc |-> FirstRequest(op, r, snap)]]
  BY DEF Handle
<1> DEFINE pc == FirstRequest(op, r, snap)
           call == [op |-> op, id |-> r, rest |-> todo \ {r}, snap |-> snap \cap todo, bulk |-> bulk,
                    pc |-> pc]
<1>2. /\ pc \in {"toggle", "assign", "unassign"}
      /\ op = "unassign" <=> pc = "unassign"
      /\ pc = "assign" => op = "checkin" /\ r \in snap
      /\ pc = "toggle" /\ op = "checkin" => r \notin snap
  BY FirstRequestInOrder
<1>3. /\ calls' = [calls EXCEPT ![c] = call] /\ UNCHANGED <<row, list, load, held>>
      /\ mishaps' = mishaps \cup (todo \cap UnderWay(c)) /\ calls[c] = <<>>
  BY <1>1 DEF Handle
<1> HIDE DEF pc
<1>4. call \in Call /\ CallInOrder(call)  BY <1>2 DEF Call, CallInOrder
<1>5. CallRight(call)'
  <2> SUFFICES ASSUME op # "unassign", NEW p \in todo
               PROVE  ~Awaits(call, p) /\ SaidRightly(snap \cap todo, p)'
    BY DEF CallRight, Awaits, SaidRightly
  <2>1. ~Awaits(call, p)  BY <1>2 DEF Awaits
  <2>2. SaidRightly(snap, p) \/ p \in UnderWay(c)  BY <1>3, ShownRightly
  <2> QED  BY <1>3, <2>1, <2>2 DEF SaidRightly
<1>6. mishaps' \subseteq People /\ mishaps \subseteq mishaps'  BY <1>3 DEF DeskInv, DeskTypes
<1> HIDE DEF call
<1> QED  BY <1>3, <1>4, <1>5, <1>6, CallKeeps

LEMMA ScanKeeps ==
  ASSUME DeskInv, NEW c \in 1..MaxCalls, ScannerCard(c)
  PROVE  DeskInv'
<1>1. CASE held = <<>> /\ StartScanner
  <2>1. /\ held' = [snap |-> ShownChecked] /\ UNCHANGED <<row, list, load, calls>>
        /\ mishaps' = mishaps \cup UnderWay(0)
    BY <1>1 DEF StartScanner
  <2>2. UnderWay(0) \subseteq People
    <3>1. ASSUME NEW d \in 1..MaxCalls, calls[d] # <<>>
          PROVE  {calls[d].id} \cup calls[d].rest \subseteq People
      BY <3>1, CallIsCall DEF DeskInv, Call
    <3> QED  BY <3>1 DEF UnderWay
  <2>3. ShownChecked \in SUBSET People  BY DEF ShownChecked
  <2>4. DeskTypes'  BY <2>1, <2>2, <2>3 DEF DeskInv, DeskTypes
  <2>5. ScannerRight'
    <3> SUFFICES ASSUME NEW r \in People PROVE SaidRightly(ShownChecked, r) \/ r \in UnderWay(0)
      BY <2>1 DEF ScannerRight, SaidRightly
    <3> QED  BY ShownRightly
  <2>6. LoadRight' /\ ListRight'  BY <2>1 DEF DeskInv, LoadRight, SaidRightly, ListRight, Awaits
  <2>7. CallsRight'
    BY <2>1 DEF DeskInv, CallsRight, CallRight, CallInOrder, SaidRightly, Awaits
  <2> QED  BY <2>4, <2>5, <2>6, <2>7 DEF DeskInv
<1>2. ASSUME NEW r \in People, held # <<>>, handleQrScan(c, r) PROVE DeskInv'
  <2>0. PICK snap : snap = held.snap  OBVIOUS
  <2> DEFINE pc == FirstRequest("checkin", r, snap)
             call == [op |-> "checkin", id |-> r, rest |-> {}, snap |-> snap \cap {r}, bulk |-> FALSE,
                      pc |-> pc]
  <2>1. snap \in SUBSET People /\ SaidRightly(snap, r)
    BY <1>2, <2>0 DEF DeskInv, DeskTypes, ScannerRight
  <2>2. /\ pc \in {"toggle", "assign", "unassign"} /\ pc # "unassign"
        /\ pc = "assign" => r \in snap
        /\ pc = "toggle" => r \notin snap
    BY FirstRequestInOrder
  <2>3. /\ calls' = [calls EXCEPT ![c] = call] /\ UNCHANGED <<row, list, load>> /\ held' = <<>>
        /\ calls[c] = <<>> /\ mishaps' = mishaps \cup ({r} \cap UnderWay(c))
    BY <1>2, <2>0 DEF handleQrScan
  <2> HIDE DEF pc
  <2>4. call \in Call /\ CallInOrder(call)  BY <2>1, <2>2 DEF Call, CallInOrder
  <2>5. CallRight(call)'
    <3>1. ~Awaits(call, r)  BY <2>2 DEF Awaits
    <3>2. SaidRightly(snap \cap {r}, r)'  BY <2>1, <2>3 DEF SaidRightly
    <3> QED  BY <3>1, <3>2 DEF CallRight, Awaits, SaidRightly
  <2>6. mishaps' \subseteq People /\ mishaps \subseteq mishaps'  BY <2>3 DEF DeskInv, DeskTypes
  <2>7. held' \in {held, <<>>}  BY <2>3
  <2> HIDE DEF call
  <2> QED  BY <2>3, <2>4, <2>5, <2>6, <2>7, CallKeeps
<1> QED  BY <1>1, <1>2 DEF ScannerCard

(* What the two pages of the list offer. *)
LEMMA TablesKeep ==
  ASSUME DeskInv, NEW c \in 1..MaxCalls,
         HackathonBulkBar(c) \/ HackathonTable(c) \/ DayOfTable(c)
  PROVE  DeskInv'
<1>1. ASSUME NEW teamed, NEW ticked \in Ticked(teamed) PROVE ticked \in SUBSET People
  BY DEF Ticked
<1>2. ShownChecked \in SUBSET People  BY DEF ShownChecked
<1>3. ASSUME NEW todo \in SUBSET People, NEW bulk \in BOOLEAN,
             \/ Handle(c, "checkin", todo, ShownChecked, bulk)
             \/ Handle(c, "toggle", todo, ShownChecked, bulk)
             \/ Handle(c, "unassign", todo, {}, bulk)
      PROVE  DeskInv'
  <2>1. {} \in SUBSET People  OBVIOUS
  <2> QED  BY <1>2, <1>3, <2>1, HandleKeeps
<1>4. \A r \in People : {r} \in SUBSET People  OBVIOUS
<1>5. CASE HackathonBulkBar(c)
  BY <1>1, <1>3, <1>5 DEF HackathonBulkBar, handleBulkCheckin, handleBulkUnassign
<1>6. CASE HackathonTable(c)
  BY <1>3, <1>4, <1>6 DEF HackathonTable, handleHackathonCheckin, handleUnassign
<1>7. CASE DayOfTable(c)  BY <1>3, <1>4, <1>7 DEF DayOfTable, handleToggle
<1> QED  BY <1>5, <1>6, <1>7

(* A handler of the backend changes the row it was called for. *)
LEMMA RequestedChanges ==
  ASSUME DeskTypes, NEW r \in People, NEW pc \in {"toggle", "assign", "unassign"}, Requested(pc, r)
  PROVE  /\ row' \in [People -> Entry]
         /\ \A p \in People : p # r => row'[p] = row[p]
         /\ pc = "toggle" => row'[r].checked = ~row[r].checked
         /\ pc = "assign" => row'[r].checked = row[r].checked
         /\ pc = "unassign" => row'[r].checked = FALSE
<1>1. row \in [People -> Entry] /\ row[r] \in Entry /\ (r \in Sealed) \in BOOLEAN  BY DEF DeskTypes
<1>2. CASE pc = "toggle"
  <2>1. row' = [row EXCEPT ![r].checked = ~@]  BY <1>2 DEF Requested, ToggleCheckin
  <2>2. PICK now \in BOOLEAN : now = ~row[r].checked  BY <1>1 DEF Entry
  <2>3. row' = [row EXCEPT ![r].checked = now]  BY <2>1, <2>2
  <2> QED  BY <1>1, <1>2, <2>2, <2>3 DEF Entry
<1>3. CASE pc = "assign"  BY <1>1, <1>3 DEF Requested, AssignTeam, Entry
<1>4. CASE pc = "unassign"
  <2>1. row' = [row EXCEPT ![r].checked = FALSE, ![r].team = r \in Sealed]
    BY <1>4 DEF Requested, UnassignTeam
  <2> QED  BY <1>1, <1>4, <2>1 DEF Entry
<1> QED  BY <1>2, <1>3, <1>4

(* What a handler does next: after a toggle that was done, the assignment of *)
(* whom it checked in; else the next one, by what was said when it started.   *)
LEMMA NextCallRight ==
  ASSUME DeskTypes, NEW call \in Call, CallRight(call), CallInOrder(call), mishaps \subseteq mishaps',
         \A p \in People : p # call.id => row'[p] = row[p],
         NEW next \in IF call.op = "checkin" /\ call.pc = "toggle" /\ row'[call.id].checked = ~row[call.id].checked
                      THEN {[call EXCEPT !.pc = "assign"]} \cup Following(call) ELSE Following(call)
  PROVE  /\ next \in Call \cup {<<>>}
         /\ next # <<>> => CallRight(next)' /\ CallInOrder(next)
<1>0. /\ call.id \in People /\ call.rest \subseteq People /\ call.snap \subseteq People
      /\ call.op \in {"checkin", "unassign", "toggle"} /\ call.pc \in {"toggle", "assign", "unassign"}
  BY DEF Call
<1>1. ASSUME NEW p \in call.rest, call.op # "unassign"  PROVE SaidRightly(call.snap, p)'
  <2>1. p # call.id /\ p \in People  BY <1>0, <1>1 DEF CallInOrder
  <2>2. SaidRightly(call.snap, p)  BY <1>1, <2>1 DEF CallRight, Awaits
  <2> QED  BY <2>1, <2>2, StillSaidRightly
<1>2. CASE next \in Following(call) /\ call.rest = {}  BY <1>2 DEF Following
<1>3. CASE next \in Following(call) /\ call.rest # {}
  <2>1. PICK r \in call.rest :
          next = [call EXCEPT !.id = r, !.rest = @ \ {r}, !.snap = @ \cap call.rest,
                              !.pc = FirstRequest(call.op, r, call.snap)]
    BY <1>3 DEF Following
  <2> DEFINE pc == FirstRequest(call.op, r, call.snap)
  <2>2. /\ pc \in {"toggle", "assign", "unassign"}
        /\ call.op = "unassign" <=> pc = "unassign"
        /\ pc = "assign" => call.op = "checkin" /\ r \in call.snap
        /\ pc = "toggle" /\ call.op = "checkin" => r \notin call.snap
    BY <1>0, FirstRequestInOrder
  <2>3. next = [call EXCEPT !.id = r, !.rest = @ \ {r}, !.snap = @ \cap call.rest, !.pc = pc]
    BY <2>1
  <2> HIDE DEF pc
  <2>4. /\ next \in Call /\ next.id = r /\ next.rest = call.rest \ {r} /\ next.op = call.op
        /\ next.snap = call.snap \cap call.rest /\ next.pc = pc
    BY <1>0, <2>2, <2>3 DEF Call
  <2>5. CallInOrder(next)  BY <2>2, <2>4 DEF CallInOrder
  <2>6. CallRight(next)'
    <3> SUFFICES ASSUME next.op # "unassign", NEW p \in call.rest
                 PROVE  ~Awaits(next, p) /\ SaidRightly(call.snap \cap call.rest, p)'
      BY <2>4 DEF CallRight, Awaits, SaidRightly
    <3>1. ~Awaits(next, p)  BY <2>2, <2>4 DEF Awaits
    <3> QED  BY <1>1, <2>4, <3>1 DEF SaidRightly
  <2> QED  BY <2>4, <2>5, <2>6
<1>4. CASE /\ call.op = "checkin" /\ call.pc = "toggle" /\ row'[call.id].checked = ~row[call.id].checked
           /\ next = [call EXCEPT !.pc = "assign"]
  <2>1. /\ next \in Call /\ next.id = call.id /\ next.rest = call.rest /\ next.op = "checkin"
        /\ next.snap = call.snap /\ next.pc = "assign"
    BY <1>0, <1>4 DEF Call
  <2>2. call.id \notin call.snap /\ CallInOrder(next)  BY <1>4, <2>1 DEF CallInOrder
  <2>3. row'[call.id].checked \/ call.id \in mishaps'
    <3>1. SaidRightly(call.snap, call.id)  BY <1>4 DEF CallRight, Awaits
    <3> QED  BY <1>4, <2>2, <3>1 DEF SaidRightly
  <2>4. CallRight(next)'
    <3> SUFFICES ASSUME NEW p \in {call.id} \cup call.rest
                 PROVE  IF Awaits(next, p) THEN row'[p].checked \/ p \in mishaps'
                                           ELSE SaidRightly(call.snap, p)'
      BY <2>1 DEF CallRight, Awaits, SaidRightly
    <3>0. next # <<>>  BY <2>1 DEF Call
    <3>1. CASE p = call.id  BY <2>1, <2>2, <2>3, <3>0, <3>1 DEF Awaits
    <3>2. CASE p # call.id
      <4>1. p \in call.rest /\ ~Awaits(next, p)  BY <2>1, <3>2 DEF Awaits
      <4> QED  BY <1>1, <1>4, <4>1
    <3> QED  BY <3>1, <3>2
  <2> QED  BY <2>1, <2>2, <2>4
<1> QED  BY <1>2, <1>3, <1>4

LEMMA HandlerStepKeeps ==
  ASSUME DeskInv, NEW c \in 1..MaxCalls, NEW outcome \in Outcomes, HandlerStep(c, outcome)
  PROVE  DeskInv'
<1>0. PICK call : call = calls[c]  OBVIOUS
<1>1. call \in Call /\ call # <<>>  BY <1>0, CallIsCall DEF HandlerStep, DeskInv
<1> DEFINE r == call.id
<1>2. DeskTypes /\ CallRight(call) /\ CallInOrder(call)  BY <1>0, <1>1 DEF DeskInv, CallsRight
<1>3. /\ outcome = "refused" => row' = row
      /\ outcome # "refused" => Requested(call.pc, r)
      /\ ShowOutcome(call, outcome) /\ held' = held /\ load' = load
      /\ mishaps' = mishaps \cup Untold(c, outcome)
  BY <1>0 DEF HandlerStep
<1>4. PICK next \in IF outcome = "done" /\ call.op = "checkin" /\ call.pc = "toggle"
                    THEN {[call EXCEPT !.pc = "assign"]} ELSE Following(call) :
        calls' = [calls EXCEPT ![c] = next]
  BY <1>0 DEF HandlerStep
<1>5. /\ r \in People /\ call.pc \in {"toggle", "assign", "unassign"}
      /\ call.op \in {"checkin", "unassign", "toggle"}
  BY <1>1 DEF Call
<1>6. /\ row' \in [People -> Entry]
      /\ \A p \in People : p # r => row'[p] = row[p]
      /\ outcome # "refused" /\ call.pc = "toggle" => row'[r].checked = ~row[r].checked
      /\ outcome # "refused" /\ call.pc = "assign" => row'[r].checked = row[r].checked
      /\ outcome # "refused" /\ call.pc = "unassign" => row'[r].checked = FALSE
  <2>1. CASE outcome = "refused"  BY <1>2, <1>3, <2>1 DEF DeskTypes
  <2>2. CASE outcome # "refused"  BY <1>2, <1>3, <1>5, <2>2, RequestedChanges
  <2> QED  BY <2>1, <2>2
<1>7. /\ mishaps' \subseteq People /\ mishaps \subseteq mishaps'
      /\ outcome = "lost" => r \in mishaps'
      /\ outcome = "refused" /\ call.op = "checkin" /\ call.pc = "assign" => r \in mishaps'
  <2>1. Untold(c, outcome) \subseteq People  BY <1>0, <1>5 DEF Untold, Moved
  <2> QED  BY <1>0, <1>2, <1>3, <2>1 DEF Untold, DeskTypes
<1>8. row'[r].checked # row[r].checked /\ r \notin mishaps' =>
        held = <<>> /\ load = <<>> /\ r \notin UnderWay(c)
  <2>1. row'[r].checked # row[r].checked => r \in Moved  BY <1>5 DEF Moved
  <2> QED  BY <1>0, <1>3, <2>1 DEF Untold
<1>9. /\ next \in Call \cup {<<>>}
      /\ next # <<>> => CallRight(next)' /\ CallInOrder(next)
  BY <1>1, <1>2, <1>4, <1>6, <1>7, NextCallRight
<1>10. ASSUME NEW d \in 1..MaxCalls, d # c
       PROVE  /\ calls'[d] = calls[d]
              /\ calls[d] # <<>> => CallRight(calls[d])' /\ CallInOrder(calls[d])
  <2>1. calls'[d] = calls[d]  BY <1>4, <1>10 DEF DeskInv, DeskTypes
  <2>2. ASSUME NEW other, other = calls[d], other # <<>>
        PROVE  CallRight(other)' /\ CallInOrder(other)
    <3>1. other \in Call /\ CallRight(other) /\ CallInOrder(other)
      BY <2>2, CallIsCall DEF DeskInv, CallsRight
    <3>2. {other.id} \cup other.rest \subseteq UnderWay(c)  BY <1>10, <2>2 DEF UnderWay
    <3>3. {other.id} \cup other.rest \subseteq People  BY <3>1 DEF Call
    <3>4. \A p \in {other.id} \cup other.rest : row'[p].checked = row[p].checked \/ p \in mishaps'
      BY <1>6, <1>8, <3>2, <3>3
    <3> QED  BY <1>7, <3>1, <3>4, CallStaysRight
  <2> QED  BY <2>1, <2>2 DEF CallRight, Awaits, SaidRightly
<1>11. CallsRight'
  <2> SUFFICES ASSUME NEW d \in 1..MaxCalls, calls'[d] # <<>>
               PROVE  CallRight(calls[d])' /\ CallInOrder(calls'[d])
    BY DEF CallsRight, CallInOrder
  <2>1. CASE d = c
    <3>1. calls'[d] = next  BY <1>4, <2>1 DEF DeskInv, DeskTypes
    <3> QED  BY <1>9, <3>1 DEF CallRight, Awaits, SaidRightly
  <2>2. CASE d # c  BY <1>10, <2>2
  <2> QED  BY <2>1, <2>2
<1>12. /\ list' \in [People -> Shown]
       /\ \A p \in People : p # r => list'[p] = list[p]
       /\ outcome = "done" /\ ~(call.op = "checkin" /\ call.pc = "toggle") =>
            list'[r].checked = CASE call.pc = "assign" -> TRUE
                                 [] call.pc = "unassign" -> FALSE
                                 [] call.pc = "toggle" -> row'[r].checked
       /\ ~(outcome = "done" /\ ~(call.op = "checkin" /\ call.pc = "toggle")) => list' = list
  <2>1. list \in [People -> Shown]  BY <1>2 DEF DeskTypes
  <2>2. CASE outcome # "done" \/ (call.op = "checkin" /\ call.pc = "toggle")
    BY <1>3, <2>1, <2>2 DEF ShowOutcome
  <2>3. CASE outcome = "done" /\ ~(call.op = "checkin" /\ call.pc = "toggle")
    <3> DEFINE now == CASE call.pc = "assign" -> TRUE
                        [] call.pc = "unassign" -> FALSE
                        [] call.pc = "toggle" -> row'[r].checked
    <3>1. row'[r].checked \in BOOLEAN  BY <1>5, <1>6 DEF Entry
    <3>2. now \in BOOLEAN  BY <1>5, <3>1
    <3>3. list' = [list EXCEPT ![r].checked = now]
      <4> HIDE DEF now
      <4> QED  BY <1>3, <2>3 DEF ShowOutcome, now
    <3> HIDE DEF now
    <3>4. /\ list' \in [People -> Shown] /\ list'[r].checked = now
          /\ \A p \in People : p # r => list'[p] = list[p]
      BY <1>5, <2>1, <3>2, <3>3 DEF Shown
    <3> QED  BY <2>3, <3>4 DEF now
  <2> QED  BY <2>2, <2>3
<1>13. ListRight'
  <2> SUFFICES ASSUME NEW p \in People, list'[p].checked # row'[p].checked, p \notin mishaps'
               PROVE  \E d \in 1..MaxCalls : Awaits(calls'[d], p)
    BY DEF ListRight, Awaits
  <2>1. ASSUME list[p].checked # row[p].checked, ~Awaits(call, p)
        PROVE  \E d \in 1..MaxCalls : Awaits(calls'[d], p)
    <3>1. PICK d \in 1..MaxCalls : Awaits(calls[d], p)  BY <1>7, <2>1 DEF DeskInv, ListRight
    <3>2. d # c  BY <1>0, <2>1, <3>1
    <3> QED  BY <1>10, <3>1, <3>2
  <2>2. CASE p # r
    <3>1. ~Awaits(call, p)  BY <2>2 DEF Awaits
    <3> QED  BY <1>6, <1>12, <2>1, <2>2, <3>1
  <2>3. CASE p = r /\ outcome = "done" /\ call.op = "checkin" /\ call.pc = "toggle"
    <3>1. calls'[c] = [call EXCEPT !.pc = "assign"]  BY <1>4, <2>3 DEF DeskInv, DeskTypes
    <3>2. r \notin call.snap  BY <1>2, <2>3 DEF CallInOrder
    <3>3. Awaits([call EXCEPT !.pc = "assign"], r)
      <4>1. [call EXCEPT !.pc = "assign"] \in Call  BY <1>1 DEF Call
      <4>2. [call EXCEPT !.pc = "assign"] # <<>>  BY <1>1, <4>1 DEF Call
      <4> QED  BY <1>1, <2>3, <3>2, <4>2 DEF Awaits, Call
    <3> QED  BY <2>3, <3>1, <3>3
  <2>4. CASE p = r /\ outcome = "done" /\ ~(call.op = "checkin" /\ call.pc = "toggle")
    <3>0. row'[r].checked \in BOOLEAN  BY <1>5, <1>6 DEF Entry
    <3>1. CASE call.pc = "assign"
      <4>1. call.op = "checkin" /\ list'[r].checked = TRUE  BY <1>2, <1>12, <2>4, <3>1 DEF CallInOrder
      <4>2. row[r].checked \/ r \in mishaps
        <5>1. CASE Awaits(call, r)  BY <1>2, <4>1, <5>1 DEF CallRight
        <5>2. CASE ~Awaits(call, r)
          <6>1. r \in call.snap  BY <1>1, <3>1, <4>1, <5>2 DEF Awaits
          <6>2. SaidRightly(call.snap, r)  BY <1>2, <4>1, <5>2 DEF CallRight
          <6> QED  BY <6>1, <6>2 DEF SaidRightly
        <5> QED  BY <5>1, <5>2
      <4> QED  BY <1>6, <1>7, <2>4, <3>0, <3>1, <4>1, <4>2
    <3>2. CASE call.pc = "unassign"
      <4>1. list'[r].checked = FALSE  BY <1>12, <2>4, <3>2
      <4> QED  BY <1>6, <2>4, <3>2, <4>1
    <3>3. CASE call.pc = "toggle"
      <4>1. list'[r].checked = row'[r].checked  BY <1>12, <2>4, <3>3
      <4> QED  BY <2>4, <4>1
    <3> QED  BY <1>5, <3>1, <3>2, <3>3
  <2>5. CASE p = r /\ outcome # "done"
    <3>1. CASE outcome = "refused"
      <4>1. list' = list /\ row' = row /\ ~Awaits(call, p)
        BY <1>3, <1>7, <1>12, <2>5, <3>1 DEF Awaits
      <4> QED  BY <2>1, <4>1
    <3>2. CASE outcome = "lost"  BY <1>7, <2>5, <3>2
    <3> QED  BY <2>5, <3>1, <3>2, DeskAssumption
  <2> QED  BY <2>2, <2>3, <2>4, <2>5
<1>14. LoadRight' /\ ScannerRight'
  <2>1. ASSUME NEW said, NEW p \in People, SaidRightly(said, p), held # <<>> \/ load # <<>>
        PROVE  SaidRightly(said, p)'
    <3>1. row'[p].checked = row[p].checked \/ p \in mishaps'  BY <1>6, <1>8, <2>1
    <3> QED  BY <1>7, <2>1, <3>1, StillSaidRightly
  <2>2. ASSUME load # <<>>, NEW p \in People  PROVE SaidRightly(load.snap, p)'
    BY <1>3, <2>1, <2>2 DEF DeskInv, LoadRight, SaidRightly
  <2>3. ASSUME held # <<>>, NEW p \in People  PROVE SaidRightly(held.snap, p)'
    BY <1>3, <2>1, <2>3 DEF DeskInv, ScannerRight, SaidRightly
  <2> QED  BY <1>3, <2>2, <2>3 DEF LoadRight, ScannerRight
<1>15. DeskTypes'
  <2>1. calls' \in [1..MaxCalls -> Call \cup {<<>>}]  BY <1>2, <1>4, <1>9 DEF DeskTypes
  <2> QED  BY <1>2, <1>3, <1>6, <1>7, <1>12, <2>1 DEF DeskTypes
<1> QED  BY <1>11, <1>13, <1>14, <1>15 DEF DeskInv

(* The other browser changes rows, and nothing of the list page. *)
LEMMA ScannerPageKeeps ==
  ASSUME DeskInv,
         \/ QrScanPage \/ PhonePage
         \/ \E r \in People, outcome \in Outcomes : MarkStep(r, outcome)
  PROVE  DeskInv'
<1>1. CASE QrScanPage \/ PhonePage
  <2>1. UNCHANGED listPage
    BY <1>1 DEF QrScanPage, PhonePage, ScanCode, ScanNext, MarkClick, CancelWarning
  <2> QED  BY <2>1, RowChangeKeeps DEF listPage, DeskInv, DeskTypes
<1>2. ASSUME NEW r \in People, NEW outcome, MarkStep(r, outcome) PROVE DeskInv'
  <2>1. UNCHANGED <<list, load, held, calls>> /\ mishaps' = mishaps \cup Moved  BY <1>2 DEF MarkStep
  <2>2. row' \in [People -> Entry]
    <3>1. row \in [People -> Entry]  BY DEF DeskInv, DeskTypes
    <3>2. CASE row' = row  BY <3>1, <3>2
    <3>3. CASE MarkAttended(r) \/ AssignTeam(r)  BY <3>1, <3>3 DEF MarkAttended, AssignTeam, Entry
    <3> QED  BY <1>2, <3>2, <3>3 DEF MarkStep
  <2>3. mishaps' \subseteq People /\ \A p \in People : row'[p].checked # row[p].checked => p \in mishaps'
    BY <2>1 DEF Moved, DeskInv, DeskTypes
  <2> QED  BY <2>1, <2>2, <2>3, RowChangeKeeps
<1> QED  BY <1>1, <1>2

LEMMA DeskStep == DeskInv /\ [DeskNext]_deskVars => DeskInv'
<1> SUFFICES ASSUME DeskInv, [DeskNext]_deskVars PROVE DeskInv'  OBVIOUS
<1>1. CASE UNCHANGED deskVars
  BY <1>1, RowChangeKeeps DEF deskVars, DeskInv, DeskTypes
<1>2. CASE DeskNext
  BY <1>2, LoadsKeep, RefetchTeamsKeeps, ScannerPageKeeps, ScanKeeps, TablesKeep, HandlerStepKeeps
    DEF DeskNext
<1> QED  BY <1>1, <1>2

LEMMA DeskSays == DeskInv => UncheckedByMishapOnly
<1> SUFFICES ASSUME DeskInv PROVE UncheckedByMishapOnly  OBVIOUS
<1>1. ASSUME NEW c \in 1..MaxCalls, calls[c] # <<>>, calls[c].pc = "toggle", calls[c].id \notin mishaps
      PROVE  row[calls[c].id].checked <=> calls[c].op = "toggle" /\ calls[c].id \in calls[c].snap
  <2>1. PICK call : call = calls[c]  OBVIOUS
  <2>2. call \in Call /\ CallRight(call) /\ CallInOrder(call)
    BY <1>1, <2>1, CallIsCall DEF DeskInv, CallsRight
  <2>3. call.op \in {"checkin", "unassign", "toggle"} /\ row[call.id].checked \in BOOLEAN
    BY <2>2 DEF Call, DeskInv, DeskTypes, Entry
  <2>4. SaidRightly(call.snap, call.id)  BY <1>1, <2>1, <2>2 DEF CallRight, CallInOrder, Awaits
  <2> QED  BY <1>1, <2>1, <2>2, <2>3, <2>4 DEF SaidRightly, CallInOrder
<1> QED  BY <1>1 DEF DeskInv, ListRight, UncheckedByMishapOnly

(* The list of the check-in desk says what is so, and a check-in unchecks     *)
(* nobody, but after a mishap of those named: however many people there are   *)
(* and handlers under way, however long the bulk operations and late the      *)
(* lists, and however many requests are refused or lose their answers.        *)
THEOREM NobodyUncheckedUnawares ==
  DeskInit /\ [][DeskNext]_deskVars => []UncheckedByMishapOnly
BY DeskStart, DeskStep, DeskSays, PTL

(* The other browser shows a card of somebody, and marks under way. *)
ScannerTypes ==
  /\ hackathon \in BOOLEAN
  /\ card \in [id : People \cup {Nobody}, present : BOOLEAN, warn : BOOLEAN]
  /\ marks \in [People -> {"idle", "attend", "assign"}]

LEMMA ScannerStep ==
  DeskInv /\ ScannerTypes /\ [DeskNext]_deskVars => ScannerTypes'
<1> SUFFICES ASSUME DeskInv, ScannerTypes, [DeskNext]_deskVars PROVE ScannerTypes'  OBVIOUS
<1> USE DEF ScannerTypes, listPage
<1>1. ASSUME NEW r \in People, NEW ok, ScanCode(r, ok)  PROVE ScannerTypes'
  <2>1. row[r].present \in BOOLEAN  BY DEF DeskInv, DeskTypes, Entry
  <2> QED  BY <1>1, <2>1 DEF ScanCode, ScanAnswer, NoCard
<1>2. CASE ScanNext \/ CancelWarning
  <2>1. CASE ScanNext  BY <2>1 DEF ScanNext, NoCard
  <2>2. CASE CancelWarning  BY <2>2 DEF CancelWarning
  <2> QED  BY <1>2, <2>1, <2>2
<1>3. CASE MarkClick  BY <1>3 DEF MarkClick
<1>4. CASE QrScanPage \/ PhonePage  BY <1>1, <1>2, <1>3, <1>4 DEF QrScanPage, PhonePage
<1>5. ASSUME NEW r \in People, NEW outcome, MarkStep(r, outcome)  PROVE ScannerTypes'
  BY <1>5 DEF MarkStep
<1>6. CASE UNCHANGED <<hackathon, card, marks>>  BY <1>6
<1>7. CASE LoadAttendees \/ FetchAttendees \/ RefetchTeams \/ \E ok \in BOOLEAN : AttendeesAnswered(ok)
  BY <1>6, <1>7 DEF LoadAttendees, FetchAttendees, AttendeesAnswered, RefetchTeams, scanPage
<1>8. ASSUME NEW c, ScannerCard(c) \/ HackathonBulkBar(c) \/ HackathonTable(c) \/ DayOfTable(c)
      PROVE  ScannerTypes'
  <2>1. UNCHANGED <<hackathon, scanPage>>
    BY <1>8 DEF ScannerCard, HackathonBulkBar, HackathonTable, DayOfTable, StartScanner, handleQrScan,
      handleBulkCheckin, handleBulkUnassign, handleHackathonCheckin, handleUnassign, handleToggle, Handle
  <2> QED  BY <1>6, <2>1 DEF scanPage
<1>9. ASSUME NEW c, NEW outcome, HandlerStep(c, outcome)  PROVE ScannerTypes'
  BY <1>6, <1>9 DEF HandlerStep, scanPage
<1>10. CASE UNCHANGED deskVars  BY <1>6, <1>10 DEF deskVars
<1> QED  BY <1>4, <1>5, <1>7, <1>8, <1>9, <1>10 DEF DeskNext

(* The state of the check-in desk is well typed, for any people, handlers    *)
(* and marks under way.                                                     *)
THEOREM DeskTyped ==
  DeskInit /\ [][DeskNext]_deskVars => []DeskTypeOK
<1>1. DeskInit => ScannerTypes  BY DEF DeskInit, ScannerTypes, NoCard
<1>2. DeskInv /\ ScannerTypes => DeskTypeOK  BY DEF DeskInv, DeskTypes, ScannerTypes, DeskTypeOK
<1> QED  BY <1>1, <1>2, DeskStart, DeskStep, ScannerStep, PTL

-----------------------------------------------------------------------------
(* The Registrations page: what is ticked has been listed. *)

LEMMA ListOfLength ==
  ASSUME NEW n \in Nat, NEW s, s = [i \in 1..n |-> s[i]]
  PROVE  s \in Seq(ToSet(s)) /\ Len(s) = n
<1>1. s \in [1..n -> ToSet(s)]  BY DEF ToSet
<1> QED  BY <1>1

LEMMA InOrderIsList ==
  ASSUME NEW S, IsFiniteSet(S), NEW ascending
  PROVE  /\ InOrder(S, ascending) \in Seq(ToSet(InOrder(S, ascending)))
         /\ Len(InOrder(S, ascending)) = Cardinality(S)
<1> DEFINE s == InOrder(S, ascending)
           before(x) == {y \in S : IF ascending THEN y < x ELSE x < y}
           e(i) == CHOOSE x \in S : Cardinality(before(x)) + 1 = i
<1>1. s = [i \in 1..Cardinality(S) |-> e(i)]  BY DEF InOrder
<1> HIDE DEF s, e
<1>2. s = [i \in 1..Cardinality(S) |-> s[i]]  BY <1>1
<1>3. s \in Seq(ToSet(s)) /\ Len(s) = Cardinality(S)  BY <1>2, ListOfLength, FS_CardinalityType
<1> QED  BY <1>3 DEF s

LEMMA ListingIsList ==
  ASSUME NEW q
  PROVE  Listing(q) \in Seq(ToSet(Listing(q))) /\ Len(Listing(q)) \in Nat
<1> DEFINE listed == {r \in Rows : EventOfRow[r] = q.event /\ Matches(q.filter, r)}
<1>1. IsFiniteSet(listed)  BY ViewerAssumption, FS_Subset
<1>2. Listing(q) = InOrder(listed, q.newestFirst)  BY DEF Listing
<1> HIDE DEF listed
<1> QED  BY <1>1, <1>2, InOrderIsList, FS_CardinalityType

LEMMA TeamRowsIsList ==
  ASSUME NEW q
  PROVE  TeamRows(q) \in Seq(ToSet(TeamRows(q)))
<1> DEFINE here == {x \in Rows : EventOfRow[x] = q.event}
           listed == {t \in {TeamOfRow[r] : r \in here} :
             /\ q.filter = "pending" => \E r \in Rows : TeamOfRow[r] = t /\ table[r].status = "pending"
             /\ q.filter # "with_deleted" => LiveMembers(t) # {}}
           order == InOrder(listed, TRUE)
<1>1. IsFiniteSet({TeamOfRow[r] : r \in here})
  <2>1. IsFiniteSet(here)  BY ViewerAssumption, FS_Subset
  <2> DEFINE f == [r \in here |-> TeamOfRow[r]]
             numbers == {TeamOfRow[r] : r \in here}
  <2>2. f \in Surjection(here, numbers)  BY DEF Surjection
  <2> HIDE DEF here, f, numbers
  <2>3. IsFiniteSet(numbers)  BY <2>1, <2>2, FS_Surjection
  <2> QED  BY <2>3 DEF numbers
<1>2. IsFiniteSet(listed)  BY <1>1, FS_Subset
<1>3. TeamRows(q) = [i \in 1..Len(order) |-> LiveMembers(order[i])]  BY DEF TeamRows
<1> HIDE DEF listed
<1>4. Len(order) \in Nat  BY <1>2, InOrderIsList, FS_CardinalityType
<1> HIDE DEF order
<1>5. TeamRows(q) = [i \in 1..Len(order) |-> TeamRows(q)[i]]  BY <1>3
<1> QED  BY <1>4, <1>5, ListOfLength

LEMMA PageOfIsList ==
  ASSUME NEW q, q.page \in Nat \ {0}
  PROVE  PageOf(q) \in Seq(ToSet(PageOf(q)))
<1>1. Listing(q) \in Seq(ToSet(Listing(q))) /\ Len(Listing(q)) \in Nat  BY ListingIsList
<1>2. CASE q.all  BY <1>1, <1>2 DEF PageOf
<1>3. CASE ~q.all
  <2> DEFINE from == (q.page - 1) * PageLength + 1
             last == IF q.page * PageLength < Len(Listing(q)) THEN q.page * PageLength ELSE Len(Listing(q))
  <2>1. from - 1 \in Nat /\ from \in Nat /\ last \in Nat
    <3>1. q.page * PageLength \in Nat /\ (q.page - 1) * PageLength \in Nat  BY ViewerAssumption
    <3> DEFINE before == (q.page - 1) * PageLength
    <3>2. from = before + 1 /\ before \in Nat  BY <3>1
    <3>3. last \in Nat  BY <1>1, <3>1
    <3> HIDE DEF before, from
    <3> QED  BY <3>2, <3>3
  <2>2. PageOf(q) = SubSeq(Listing(q), from, last)  BY <1>3 DEF PageOf
  <2> HIDE DEF from, last
  <2>3. PICK n \in Nat : PageOf(q) = [i \in 1..n |-> Listing(q)[i + from - 1]]
    <3>1. IF from <= last THEN last - from + 1 \in Nat ELSE 0 \in Nat  BY <2>1
    <3> DEFINE n == IF from <= last THEN last - from + 1 ELSE 0
    <3>2. n \in Nat  BY <3>1
    <3>3. SubSeq(Listing(q), from, last) = [i \in 1..n |-> Listing(q)[i + from - 1]]
      BY <1>1, <2>1, <3>1
    <3> HIDE DEF n
    <3> QED  BY <2>2, <3>2, <3>3
  <2>4. PageOf(q) = [i \in 1..n |-> PageOf(q)[i]]  BY <2>3
  <2> QED  BY <2>4, ListOfLength
<1> QED  BY <1>2, <1>3

(* What is shown is lists, of what has been seen, and so is what is ticked.  *)
ResultsAreLists ==
  /\ result.rows \in Seq(ToSet(result.rows)) /\ result.teams \in Seq(ToSet(result.teams))
  /\ ShownIn(query, result) \subseteq seen

Queries == [event : Events \cup {""}, filter : Filters \cup {"default"}, newestFirst : BOOLEAN,
            page : Nat \ {0}, all : BOOLEAN, view : {"people", "teams"}]
PagesAreCounted == query \in Queries

SelectionInv == PagesAreCounted /\ ResultsAreLists /\ SelectionWasListed

LEMMA FreshIsLists ==
  ASSUME NEW q, q.page \in Nat \ {0}, NEW kept
  PROVE  /\ Shows(q, kept).rows \in Seq(ToSet(Shows(q, kept).rows))
         /\ Shows(q, kept).teams \in Seq(ToSet(Shows(q, kept).teams))
<1>1. <<>> \in Seq(ToSet(<<>>))  OBVIOUS
<1>2. PageOf(q) \in Seq(ToSet(PageOf(q))) /\ TeamRows(q) \in Seq(ToSet(TeamRows(q)))
  BY PageOfIsList, TeamRowsIsList
<1>3. /\ Fresh(q).rows \in {<<>>, PageOf(q)} /\ Fresh(q).teams \in {<<>>, TeamRows(q)}
  BY DEF Fresh, Loading
<1>4. Loading.rows = <<>> /\ Loading.teams = <<>>  BY DEF Loading
<1> HIDE DEF Fresh, Loading, PageOf, TeamRows
<1> QED  BY <1>1, <1>2, <1>3, <1>4 DEF Shows

(* Another query is asked for, and what is shown of it has been seen then. *)
LEMMA AskedIsLists ==
  ASSUME NEW q, q.page \in Nat \ {0}, NEW kept, query' = q, result' = Shows(q, kept),
         ShownIn(query', result') \subseteq seen'
  PROVE  ResultsAreLists'
BY FreshIsLists DEF ResultsAreLists, ShownIn

LEMMA AskAnewKeeps ==
  ASSUME NEW q \in Queries, NEW kept, AskAnew(q, kept)
  PROVE  SelectionInv'
<1> DEFINE first == [q EXCEPT !.page = 1]
<1>0. 1 \in Nat \ {0}  OBVIOUS
<1>1. first \in Queries  BY <1>0 DEF Queries
<1>2. query' = first /\ result' = Shows(first, kept) /\ selected' = {} /\ seen' = ShownIn(query', result')
  BY DEF AskAnew, Ask
<1> HIDE DEF first
<1>3. first.page \in Nat \ {0}  BY <1>1 DEF Queries
<1>4. ShownIn(query', result') \subseteq seen'  BY <1>2
<1>5. ResultsAreLists'  BY <1>2, <1>3, <1>4, AskedIsLists
<1> QED  BY <1>1, <1>2, <1>5 DEF SelectionInv, PagesAreCounted, SelectionWasListed

(* Another page of the list, or another order of it: what was seen stays so. *)
LEMMA TurnKeeps ==
  ASSUME SelectionInv, NEW q \in Queries,
         NEW kept, query' = q, result' = Shows(q, kept), selected' = selected,
         seen' = seen \cup ShownIn(query', result')
  PROVE  SelectionInv'
<1>1. q.page \in Nat \ {0}  BY DEF Queries
<1>2. ShownIn(query', result') \subseteq seen'  OBVIOUS
<1>3. ResultsAreLists'  BY <1>1, <1>2, AskedIsLists
<1> QED  BY <1>3 DEF SelectionInv, PagesAreCounted, SelectionWasListed

(* The drawer moves within the page it is on. *)
LEMMA SteerKeeps ==
  ASSUME SelectionInv, NEW d, NEW to, Steer(d, query, result, to)
  PROVE  SelectionInv'
BY DEF Steer, SelectionInv, PagesAreCounted, ResultsAreLists, SelectionWasListed, ShownIn

LEMMA SameShownKeeps ==
  ASSUME SelectionInv, query' = query, result' = result, seen' = seen, selected' \subseteq seen
  PROVE  SelectionInv'
BY DEF SelectionInv, PagesAreCounted, ResultsAreLists, SelectionWasListed, ShownIn

LEMMA OpenIsListed ==
  ASSUME SelectionInv, query.view = "people", detailShown
  PROVE  rows[openIndex] \in seen
BY DEF SelectionInv, ResultsAreLists, detailShown, rows, ShownIn, ToSet

LEMMA PageHeadKeeps ==
  ASSUME SelectionInv, NEW kept, PageHead(kept) \/ FilterPanel(kept) \/ ListBar(kept)
  PROVE  SelectionInv'
<1> USE DEF SelectionInv, PagesAreCounted
<1>1. ASSUME NEW e \in Events \cup {""}, SelectEvent(e, kept)  PROVE SelectionInv'
  <2> DEFINE q == [query EXCEPT !.event = e]
  <2>1. q \in Queries  BY DEF Queries
  <2>2. AskAnew(q, kept)  BY <1>1 DEF SelectEvent
  <2> HIDE DEF q
  <2> QED  BY <2>1, <2>2, AskAnewKeeps
<1>2. CASE Dialog("import", 0)
  BY <1>2, SameShownKeeps DEF Dialog, SelectionWasListed
<1>3. ASSUME NEW f \in Filters, ApplyFilters(f, kept)  PROVE SelectionInv'
  <2> DEFINE q == [query EXCEPT !.filter = f]
  <2>1. q \in Queries  BY DEF Queries
  <2>2. AskAnew(q, kept)  BY <1>3 DEF ApplyFilters
  <2> HIDE DEF q
  <2> QED  BY <2>1, <2>2, AskAnewKeeps
<1>4. CASE ChangeLimit(kept)
  <2> DEFINE q == [query EXCEPT !.all = ~query.all]
  <2>1. q \in Queries  BY DEF Queries
  <2>2. AskAnew(q, kept)  BY <1>4 DEF ChangeLimit
  <2> HIDE DEF q
  <2> QED  BY <2>1, <2>2, AskAnewKeeps
<1>5. CASE SwitchView(kept)
  <2> DEFINE q == [query EXCEPT !.view = IF query.view = "people" THEN "teams" ELSE "people"]
  <2>1. q \in Queries  BY DEF Queries
  <2>2. /\ query' = q /\ result' = Shows(q, kept)
        /\ selected' = {} /\ seen' = ShownIn(query', result')
    BY <1>5 DEF SwitchView
  <2> HIDE DEF q
  <2>3. q.page \in Nat \ {0}  BY <2>1 DEF Queries
  <2>4. ResultsAreLists'  BY <2>2, <2>3, AskedIsLists
  <2> QED  BY <2>1, <2>2, <2>4 DEF SelectionWasListed
<1> QED  BY <1>1, <1>2, <1>3, <1>4, <1>5 DEF PageHead, FilterPanel, ListBar

LEMMA PeopleTableKeeps ==
  ASSUME SelectionInv, NEW kept, PeopleTable(kept) \/ Pagination(kept)
  PROVE  SelectionInv'
<1> USE DEF SelectionInv, PagesAreCounted
<1>1. CASE ToggleSelectAll /\ query.view = "people"
  <2>1. selected' \subseteq ToSet(rows)  BY <1>1 DEF ToggleSelectAll, Tick
  <2>2. ToSet(rows) \subseteq seen  BY <1>1 DEF ResultsAreLists, ShownIn, rows
  <2> QED  BY <1>1, <2>1, <2>2, SameShownKeeps DEF ToggleSelectAll, Tick
<1>2. CASE ToggleSort(kept)
  <2> DEFINE q == [query EXCEPT !.newestFirst = ~query.newestFirst, !.page = 1]
  <2>1. q \in Queries
    <3>1. 1 \in Nat \ {0}  OBVIOUS
    <3> QED  BY <3>1 DEF Queries
  <2>2. /\ query' = q /\ result' = Shows(q, kept) /\ selected' = selected
        /\ seen' = seen \cup ShownIn(query', result')
    BY <1>2 DEF ToggleSort, Ask
  <2> HIDE DEF q
  <2> QED  BY <2>1, <2>2, TurnKeeps
<1>3. ASSUME NEW i \in DOMAIN rows, ToggleOne(rows[i]), query.view = "people"  PROVE SelectionInv'
  <2>1. rows[i] \in seen  BY <1>3 DEF ResultsAreLists, ShownIn, ToSet, rows
  <2> QED  BY <1>3, <2>1, SameShownKeeps DEF ToggleOne, Tick, SelectionWasListed
<1>4. ASSUME NEW i, OpenDetail(i)  PROVE SelectionInv'
  BY <1>4, SteerKeeps DEF OpenDetail
<1>5. ASSUME NEW target, Dialog("delete", target) \/ Restore(target)  PROVE SelectionInv'
  BY <1>5, SameShownKeeps DEF Dialog, Restore, Send, SelectionWasListed
<1>6. ASSUME NEW p \in 1..totalPages, Paginate(p, kept), p = query.page + 1 \/ p + 1 = query.page
      PROVE  SelectionInv'
  <2> DEFINE q == [query EXCEPT !.page = p]
  <2>1. p \in Nat \ {0}
    <3>1. query.page \in Nat \ {0}  BY DEF Queries
    <3> QED  BY <1>6, <3>1
  <2>2. q \in Queries  BY <2>1 DEF Queries
  <2>3. /\ query' = q /\ result' = Shows(q, kept) /\ selected' = selected
        /\ seen' = seen \cup ShownIn(query', result')
    BY <1>6 DEF Paginate, Ask
  <2> HIDE DEF q
  <2> QED  BY <2>2, <2>3, TurnKeeps
<1>7. CASE PeopleTable(kept)
  BY <1>1, <1>2, <1>3, <1>4, <1>5, <1>7 DEF PeopleTable
<1>8. CASE Pagination(kept)  BY <1>6, <1>8 DEF Pagination
<1> QED  BY <1>7, <1>8

LEMMA PersonDrawerKeeps ==
  ASSUME SelectionInv, NEW kept, PersonDrawer(kept)
  PROVE  SelectionInv'
<1> USE DEF SelectionInv, PagesAreCounted
<1>1. query.view = "people"  BY DEF PersonDrawer, detailOpen
<1>2. CASE CloseDetail  BY <1>2, SteerKeeps DEF CloseDetail
<1>3. ASSUME NEW d, NEW to, NEW p \in Nat \ {0},
             \/ Steer(d, query, result, to)
             \/ Steer(d, [query EXCEPT !.page = p], Shows([query EXCEPT !.page = p], kept), to)
      PROVE  SelectionInv'
  <2>1. CASE Steer(d, query, result, to)  BY <2>1, SteerKeeps
  <2>2. CASE Steer(d, [query EXCEPT !.page = p], Shows([query EXCEPT !.page = p], kept), to)
    <3> DEFINE q == [query EXCEPT !.page = p]
    <3>1. q \in Queries  BY DEF Queries
    <3>2. Steer(d, q, Shows(q, kept), to)  BY <2>2
    <3> HIDE DEF q
    <3> QED  BY <3>1, <3>2, TurnKeeps DEF Steer
  <2> QED  BY <1>3, <2>1, <2>2
<1>4. query.page \in Nat \ {0} /\ query.page + 1 \in Nat \ {0}
  <2>1. query.page \in Nat \ {0}  BY DEF Queries
  <2> QED  BY <2>1
<1>5. CASE GoNextRecord(kept)
  <2>1. CASE Steer(At(openIndex + 1), query, result, Steered(aim + 1))  BY <1>3, <1>4, <2>1
  <2>2. CASE Steer([kind |-> "first", at |-> 0], [query EXCEPT !.page = query.page + 1],
                   Shows([query EXCEPT !.page = query.page + 1], kept), Steered(aim + 1))
    BY <1>3, <1>4, <2>2
  <2> QED  BY <1>5, <2>1, <2>2 DEF GoNextRecord
<1>6. CASE GoPrevRecord(kept)
  <2>1. CASE Steer(At(openIndex - 1), query, result, Steered(aim - 1))  BY <1>3, <1>4, <2>1
  <2>2. CASE /\ query.page > 1
             /\ Steer([kind |-> "last", at |-> 0], [query EXCEPT !.page = query.page - 1],
                      Shows([query EXCEPT !.page = query.page - 1], kept), Steered(aim - 1))
    <3>1. query.page - 1 \in Nat \ {0}  BY <1>4, <2>2
    <3> QED  BY <1>3, <2>2, <3>1
  <2> QED  BY <1>6, <2>1, <2>2 DEF GoPrevRecord
<1>7. CASE detailShown /\ ToggleOne(rows[openIndex])
  BY <1>1, <1>7, OpenIsListed, SameShownKeeps DEF ToggleOne, Tick, SelectionWasListed
<1>8. ASSUME NEW to, SetStatusOf(rows[openIndex], to)  PROVE SelectionInv'
  BY <1>8, SameShownKeeps DEF SetStatusOf, Send, SelectionWasListed
<1> QED  BY <1>2, <1>5, <1>6, <1>7, <1>8 DEF PersonDrawer

LEMMA TeamsKeep ==
  ASSUME SelectionInv, TeamsGrid \/ TeamDrawer
  PROVE  SelectionInv'
<1> USE DEF SelectionInv
<1>1. query.view = "teams"  BY DEF TeamsGrid, TeamDrawer, teamOpen
<1>2. UNION ToSet(result.teams) \subseteq seen  BY <1>1 DEF ResultsAreLists, ShownIn
<1>3. CASE ToggleAllTeams
  BY <1>2, <1>3, SameShownKeeps DEF ToggleAllTeams, Tick, SelectionWasListed
<1>4. ASSUME NEW i \in DOMAIN result.teams, ToggleTeam(result.teams[i])  PROVE SelectionInv'
  <2>1. result.teams[i] \subseteq seen  BY <1>2 DEF ToSet
  <2> QED  BY <1>4, <2>1, SameShownKeeps DEF ToggleTeam, Tick, SelectionWasListed
<1>5. ASSUME NEW i, ShowTeam(i)  PROVE SelectionInv'
  BY <1>5, SameShownKeeps DEF ShowTeam, SelectionWasListed
<1>6. ASSUME NEW ids, NEW to, TeamStatus(ids, to)  PROVE SelectionInv'
  BY <1>6, SameShownKeeps DEF TeamStatus, Send, SelectionWasListed
<1>7. CASE TeamsGrid  BY <1>3, <1>4, <1>5, <1>7 DEF TeamsGrid
<1>8. CASE TeamDrawer
  <2>1. teamOpen => openTeam \in DOMAIN result.teams  BY DEF teamOpen, ResultsAreLists
  <2> QED  BY <1>4, <1>5, <1>6, <1>8, <2>1 DEF TeamDrawer
<1> QED  BY <1>7, <1>8

(* What is sent, offered or cancelled shows nothing else. *)
LEMMA DialogsKeep ==
  ASSUME SelectionInv,
         \/ BulkBar \/ ReminderDialog \/ WhatsappDialog \/ RejectionDialog \/ WindowClosedDialog
         \/ TeamMessageDialog \/ ImportDialog \/ DeleteDialog
  PROVE  SelectionInv'
<1>1. \/ \E kind, ids, to : Send(kind, ids, to)
      \/ \E kind, target : Dialog(kind, target)
      \/ Tick({})
  BY DEF BulkBar, ReminderDialog, WhatsappDialog, RejectionDialog, WindowClosedDialog,
    TeamMessageDialog, ImportDialog, DeleteDialog, BulkUpdate, RequestDeposit, SendMailing,
    SendTeamMessage, ImportCsv, ConfirmDelete, Cancel
<1>2. selected \subseteq seen  BY DEF SelectionInv, SelectionWasListed
<1> QED  BY <1>1, <1>2, SameShownKeeps DEF Send, Dialog, Tick

LEMMA AnswersKeep ==
  ASSUME SelectionInv, Fetched \/ FetchFails \/ \E q \in requests, ok \in BOOLEAN : Answered(q, ok)
  PROVE  SelectionInv'
<1> USE DEF SelectionInv, PagesAreCounted
<1>1. query.page \in Nat \ {0}  BY DEF Queries
<1>2. CASE Fetched
  <2>1. /\ result' = Shows(query, TRUE) /\ query' = query /\ selected' = selected
        /\ seen' = seen \cup ShownIn(query', result')
    BY <1>2 DEF Fetched, Show, Shows
  <2> QED  BY <2>1, TurnKeeps
<1>3. CASE FetchFails
  <2>1. /\ result'.rows = <<>> /\ result'.teams = <<>> /\ query' = query
        /\ seen' = seen /\ selected' = selected
    BY <1>3 DEF FetchFails, Loading
  <2>2. ToSet(<<>>) = {} /\ <<>> \in Seq({}) /\ UNION {} = {}  BY DEF ToSet
  <2>3. ShownIn(query', result') = {}  BY <2>1, <2>2 DEF ShownIn
  <2> QED  BY <2>1, <2>2, <2>3 DEF ResultsAreLists, SelectionWasListed, ShownIn
<1>4. ASSUME NEW q, NEW ok, Answered(q, ok)  PROVE SelectionInv'
  <2>1. selected' \subseteq selected  BY <1>4 DEF Answered
  <2> QED  BY <1>4, <2>1, SameShownKeeps DEF Answered, SelectionWasListed
<1> QED  BY <1>2, <1>3, <1>4

LEMMA SelectionStart == ViewerInit => SelectionInv
<1> SUFFICES ASSUME ViewerInit PROVE SelectionInv  OBVIOUS
<1>1. PagesAreCounted
  <2>1. 1 \in Nat \ {0}  OBVIOUS
  <2> QED  BY <2>1 DEF ViewerInit, PagesAreCounted, Queries
<1>2. result.rows = <<>> /\ result.teams = <<>>
  BY DEF ViewerInit, Fresh, Loading
<1>3. ToSet(<<>>) = {} /\ <<>> \in Seq({}) /\ UNION {} = {}  BY DEF ToSet
<1>4. ShownIn(query, result) = {}  BY <1>2, <1>3 DEF ShownIn
<1> QED  BY <1>1, <1>2, <1>3, <1>4 DEF ViewerInit, SelectionInv, ResultsAreLists, SelectionWasListed

LEMMA SelectionStep == SelectionInv /\ [ViewerNext]_viewerVars => SelectionInv'
<1> SUFFICES ASSUME SelectionInv, [ViewerNext]_viewerVars PROVE SelectionInv'  OBVIOUS
<1>1. CASE UNCHANGED viewerVars
  BY <1>1, SameShownKeeps DEF viewerVars, SelectionInv, SelectionWasListed
<1>2. CASE ViewerNext
  BY <1>2, PageHeadKeeps, PeopleTableKeeps, PersonDrawerKeeps, TeamsKeep, DialogsKeep, AnswersKeep
    DEF ViewerNext
<1> QED  BY <1>1, <1>2

(* Whatever a bulk change or a mailing is sent for has been listed since the *)
(* organiser chose what to look at, however large the table, however long    *)
(* they turn its pages and whatever is answered or fetched in between.       *)
THEOREM TickedWasListed ==
  ViewerInit /\ [][ViewerNext]_viewerVars => []SelectionWasListed
<1>1. SelectionInv => SelectionWasListed  BY DEF SelectionInv
<1> QED  BY <1>1, SelectionStart, SelectionStep, PTL

-----------------------------------------------------------------------------
(* The drawer of the Registrations page: it is where it was steered to. *)

LEMMA PageTimesLength ==
  ASSUME NEW p \in Nat \ {0}
  PROVE  /\ p * PageLength \in Nat /\ (p - 1) * PageLength \in Nat
         /\ p * PageLength = (p - 1) * PageLength + PageLength
<1>1. \A k, n \in Nat : k * n \in Nat  OBVIOUS
<1>2. \A k, n \in Int : k * n = (k - 1) * n + n  OBVIOUS
<1> QED  BY <1>1, <1>2, ViewerAssumption

(* A page that is not the last one is full: there are more rows after it. *)
LEMMA MorePages ==
  ASSUME NEW p \in Nat, NEW t \in Nat, p < (t + PageLength - 1) \div PageLength
  PROVE  p * PageLength < t
<1> DEFINE n == t + PageLength - 1
           d == n \div PageLength
<1>1. PageLength \in Nat \ {0} /\ n \in Nat  BY ViewerAssumption
<1>2. d \in Int /\ d * PageLength <= n
  <2>1. \A a \in Nat, b \in Nat \ {0} : a \div b \in Int /\ b * (a \div b) <= a  OBVIOUS
  <2>2. \A x, y \in Int : x * y = y * x  OBVIOUS
  <2> QED  BY <1>1, <2>1, <2>2
<1>3. p + 1 <= d  BY <1>2
<1> HIDE DEF d
<1>4. (p + 1) * PageLength <= d * PageLength
  <2>1. \A a, b \in Int, c \in Nat : a <= b => a * c <= b * c  OBVIOUS
  <2> QED  BY <1>1, <1>2, <1>3, <2>1
<1>5. (p + 1) * PageLength = p * PageLength + PageLength
  <2>1. \A a, c \in Int : (a + 1) * c = a * c + c  OBVIOUS
  <2> QED  BY <1>1, <2>1
<1>6. p * PageLength \in Int /\ d * PageLength \in Int  BY <1>1, <1>2
<1> QED  BY <1>1, <1>2, <1>4, <1>5, <1>6

LEMMA RowsOfAPage ==
  ASSUME NEW q, q.page \in Nat \ {0}, ~q.all
  PROVE  /\ q.page * PageLength <= Len(Listing(q)) => Len(PageOf(q)) = PageLength
         /\ Len(PageOf(q)) > 0 => (q.page - 1) * PageLength < Len(Listing(q))
<1> DEFINE skip == (q.page - 1) * PageLength
           last == IF q.page * PageLength < Len(Listing(q)) THEN q.page * PageLength ELSE Len(Listing(q))
<1>1. /\ Listing(q) \in Seq(ToSet(Listing(q))) /\ Len(Listing(q)) \in Nat
      /\ skip \in Nat /\ q.page * PageLength = skip + PageLength
  BY ListingIsList, PageTimesLength
<1>2. PageOf(q) = SubSeq(Listing(q), skip + 1, last)  BY DEF PageOf
<1>3. last = IF skip + PageLength < Len(Listing(q)) THEN skip + PageLength ELSE Len(Listing(q))
  BY <1>1
<1> HIDE DEF skip, last
<1>4. last \in Nat /\ last <= Len(Listing(q))  BY <1>1, <1>3, ViewerAssumption
<1>5. Len(PageOf(q)) = IF skip + 1 <= last THEN last - skip ELSE 0  BY <1>1, <1>2, <1>4
<1>6. /\ skip + PageLength <= Len(Listing(q)) => Len(PageOf(q)) = PageLength
      /\ Len(PageOf(q)) > 0 => skip < Len(Listing(q))
  BY <1>1, <1>3, <1>4, <1>5, ViewerAssumption
<1> QED  BY <1>1, <1>6 DEF skip

Skipped(q) == IF q.all THEN 0 ELSE (q.page - 1) * PageLength

(* Where the drawer was steered to: a row of the page that is shown, or the  *)
(* first or the last row of a page that is shown or still loading.           *)
KeepsItsPlace == aim # 0 =>
  /\ query.view = "people"
  /\ ~result.loading => result = Fresh(query)
  /\ drawer.kind = "at" =>
       ~result.loading /\ drawer.at \in 1..Len(rows) /\ aim = drawer.at + Skipped(query)
  /\ drawer.kind = "first" => ~query.all /\ aim = 1 + Skipped(query)
  /\ drawer.kind = "last" =>
       /\ ~query.all /\ aim = query.page * PageLength
       /\ query.page * PageLength < Len(Listing(query))

DrawerInv ==
  /\ SelectionInv /\ KeepsItsPlace
  /\ query.all => query.page = 1
  /\ result.loading => result = Loading

(* Where the row is known, it is a row of the list, and of the page shown. *)
LEMMA AtItsPlace ==
  ASSUME DrawerInv, aim # 0, openIndex # 0
  PROVE  /\ ~result.loading /\ result = Fresh(query) /\ query.view = "people"
         /\ openIndex \in 1..Len(rows) /\ aim = openIndex + Skipped(query)
         /\ query.event # "" /\ rows = PageOf(query) /\ result.total = Len(Listing(query))
<1> USE DEF DrawerInv
<1>1. query.page \in Nat \ {0}  BY DEF SelectionInv, PagesAreCounted, Queries
<1>2. rows \in Seq(ToSet(rows)) /\ Len(rows) \in Nat  BY DEF SelectionInv, ResultsAreLists, rows
<1>3. drawer.kind \in {"at", "first", "last"}  BY DEF openIndex
<1>4. ~result.loading
  <2>1. result.loading => rows = <<>>  BY DEF Loading, rows
  <2>2. drawer.kind = "at" => ~result.loading  BY DEF KeepsItsPlace
  <2>3. rows = <<>> /\ drawer.kind = "first" => openIndex = 0  BY DEF openIndex
  <2>4. rows = <<>> /\ drawer.kind = "last" => openIndex = 0
    <3>1. Len(<<>>) = 0  OBVIOUS
    <3> QED  BY <3>1 DEF openIndex
  <2> QED  BY <1>3, <2>1, <2>2, <2>3, <2>4
<1>5. result = Fresh(query) /\ query.view = "people"  BY <1>4 DEF KeepsItsPlace
<1>6. openIndex \in 1..Len(rows)
  <2>1. drawer.kind = "at" => openIndex = drawer.at  BY DEF openIndex
  <2>2. drawer.kind = "first" => openIndex = 1 /\ rows # <<>>  BY DEF openIndex
  <2>3. drawer.kind = "last" => openIndex = Len(rows)  BY DEF openIndex
  <2> QED  BY <1>2, <1>3, <2>1, <2>2, <2>3 DEF KeepsItsPlace
<1>7. query.event # ""
  <2>1. query.event = "" => rows = <<>>  BY <1>5 DEF Fresh, Loading, rows
  <2>2. rows = <<>> => Len(rows) = 0  OBVIOUS
  <2>3. Len(rows) # 0  BY <1>2, <1>6
  <2> QED  BY <2>1, <2>2, <2>3
<1>8. rows = PageOf(query) /\ result.total = Len(Listing(query))  BY <1>5, <1>7 DEF Fresh, rows
<1>9. aim = openIndex + Skipped(query)
  <2>1. CASE drawer.kind = "at"  BY <2>1 DEF KeepsItsPlace, openIndex
  <2>2. CASE drawer.kind = "first"
    <3>1. openIndex = 1  BY <1>6, <2>2 DEF openIndex
    <3> QED  BY <2>2, <3>1 DEF KeepsItsPlace
  <2>3. CASE drawer.kind = "last"
    <3>1. /\ ~query.all /\ aim = query.page * PageLength
          /\ query.page * PageLength < Len(Listing(query))
      BY <2>3 DEF KeepsItsPlace
    <3>2. query.page * PageLength \in Nat /\ Len(Listing(query)) \in Nat
      BY <1>1, PageTimesLength, ListingIsList
    <3>3. Len(rows) = PageLength  BY <1>1, <1>8, <3>1, <3>2, RowsOfAPage
    <3>4. openIndex = PageLength  BY <2>3, <3>3 DEF openIndex
    <3> QED  BY <1>1, <3>1, <3>4, PageTimesLength, ViewerAssumption DEF Skipped
  <2> QED  BY <1>3, <2>1, <2>2, <2>3
<1> QED  BY <1>4, <1>5, <1>6, <1>7, <1>8, <1>9

(* The drawer goes nowhere when the list is another one. *)
LEMMA LostPlaceKeeps ==
  ASSUME SelectionInv', aim' = 0, query'.all => query'.page = 1,
         result'.loading => result' = Loading
  PROVE  DrawerInv'
BY DEF DrawerInv, KeepsItsPlace

LEMMA SamePlaceKeeps ==
  ASSUME DrawerInv, SelectionInv', UNCHANGED <<table, query, result, drawer, aim>>
  PROVE  DrawerInv'
<1>1. Listing(query)' = Listing(query)
  BY DEF Listing, Matches
<1>2. Fresh(query)' = Fresh(query)
  BY DEF Fresh, PageOf, Listing, Matches, TeamRows, LiveMembers
<1> QED  BY <1>1, <1>2 DEF DrawerInv, KeepsItsPlace, rows, Skipped

LEMMA ShowsLoading ==
  ASSUME NEW q, NEW kept
  PROVE  /\ Shows(q, kept).loading => Shows(q, kept) = Loading
         /\ ~Shows(q, kept).loading => Shows(q, kept) = Fresh(q)
BY DEF Shows, Fresh, Loading

LEMMA AskAnewKeepsPlace ==
  ASSUME DrawerInv, SelectionInv', NEW q \in Queries, NEW kept, AskAnew(q, kept)
  PROVE  DrawerInv'
<1>1. query'.page = 1 /\ aim' = 0 /\ \E r : result' = Shows(r, kept)
  BY DEF AskAnew, Ask, Queries
<1> QED  BY <1>1, LostPlaceKeeps, ShowsLoading

LEMMA HeadKeepsPlace ==
  ASSUME DrawerInv, SelectionInv', NEW kept, PageHead(kept) \/ FilterPanel(kept) \/ ListBar(kept)
  PROVE  DrawerInv'
<1>0. query \in Queries  BY DEF DrawerInv, SelectionInv, PagesAreCounted
<1>1. ASSUME NEW e \in Events \cup {""}, SelectEvent(e, kept)  PROVE DrawerInv'
  <2> DEFINE q == [query EXCEPT !.event = e]
  <2>1. q \in Queries  BY <1>0 DEF Queries
  <2>2. AskAnew(q, kept)  BY <1>1 DEF SelectEvent
  <2> HIDE DEF q
  <2> QED  BY <2>1, <2>2, AskAnewKeepsPlace
<1>2. CASE Dialog("import", 0)  BY <1>2, SamePlaceKeeps DEF Dialog
<1>3. ASSUME NEW f \in Filters, ApplyFilters(f, kept)  PROVE DrawerInv'
  <2> DEFINE q == [query EXCEPT !.filter = f]
  <2>1. q \in Queries  BY <1>0 DEF Queries
  <2>2. AskAnew(q, kept)  BY <1>3 DEF ApplyFilters
  <2> HIDE DEF q
  <2> QED  BY <2>1, <2>2, AskAnewKeepsPlace
<1>4. CASE ChangeLimit(kept)
  <2> DEFINE q == [query EXCEPT !.all = ~query.all]
  <2>1. q \in Queries  BY <1>0 DEF Queries
  <2>2. AskAnew(q, kept)  BY <1>4 DEF ChangeLimit
  <2> HIDE DEF q
  <2> QED  BY <2>1, <2>2, AskAnewKeepsPlace
<1>5. CASE SwitchView(kept)
  <2>1. aim' = 0 /\ result' = Shows(query', kept)
        /\ query' = [query EXCEPT !.view = IF query.view = "people" THEN "teams" ELSE "people"]
    BY <1>5 DEF SwitchView
  <2>2. query'.all = query.all /\ query'.page = query.page  BY <1>0, <2>1 DEF Queries
  <2>3. result'.loading => result' = Loading  BY <2>1, ShowsLoading
  <2> QED  BY <2>1, <2>2, <2>3, LostPlaceKeeps DEF DrawerInv
<1> QED  BY <1>1, <1>2, <1>3, <1>4, <1>5 DEF PageHead, FilterPanel, ListBar

(* The drawer is opened at a row that is listed. *)
LEMMA OpenDetailKeepsPlace ==
  ASSUME DrawerInv, SelectionInv', query.view = "people", ~result.loading,
         NEW i \in DOMAIN rows, OpenDetail(i)
  PROVE  DrawerInv'
<1>1. /\ drawer' = [kind |-> "at", at |-> i] /\ UNCHANGED <<table, query, result>>
      /\ aim' = IF result # Fresh(query) THEN 0 ELSE i + Skipped(query)
  BY DEF OpenDetail, Steer, At, Skipped
<1>2. i \in 1..Len(rows)  BY DEF DrawerInv, SelectionInv, ResultsAreLists, rows
<1>3. Fresh(query)' = Fresh(query)
  BY <1>1 DEF Fresh, PageOf, Listing, Matches, TeamRows, LiveMembers
<1>4. KeepsItsPlace'  BY <1>1, <1>2, <1>3 DEF KeepsItsPlace, rows, Skipped
<1> QED  BY <1>1, <1>4 DEF DrawerInv

LEMMA TableKeepsPlace ==
  ASSUME DrawerInv, SelectionInv', NEW kept, PeopleTable(kept) \/ Pagination(kept)
  PROVE  DrawerInv'
<1>0. query \in Queries  BY DEF DrawerInv, SelectionInv, PagesAreCounted
<1>1. CASE ToggleSort(kept)
  <2> DEFINE q == [query EXCEPT !.newestFirst = ~query.newestFirst, !.page = 1]
  <2>1. q.page = 1  BY <1>0 DEF Queries
  <2>2. query' = q /\ result' = Shows(q, kept) /\ aim' = 0  BY <1>1 DEF ToggleSort, Ask
  <2> HIDE DEF q
  <2> QED  BY <2>1, <2>2, LostPlaceKeeps, ShowsLoading
<1>2. ASSUME NEW p \in 1..totalPages, Paginate(p, kept)  PROVE DrawerInv'
  <2> DEFINE q == [query EXCEPT !.page = p]
  <2>1. q.page = p /\ q.all = query.all  BY <1>0 DEF Queries
  <2>2. query.all => p = 1  BY DEF totalPages
  <2>3. query' = q /\ result' = Shows(q, kept) /\ aim' = 0  BY <1>2 DEF Paginate, Ask
  <2> HIDE DEF q
  <2> QED  BY <2>1, <2>2, <2>3, LostPlaceKeeps, ShowsLoading
<1>3. ASSUME NEW target, Dialog("delete", target) \/ Restore(target) \/ ToggleOne(target)
      PROVE  DrawerInv'
  BY <1>3, SamePlaceKeeps DEF Dialog, Restore, Send, ToggleOne, Tick
<1>4. CASE ToggleSelectAll  BY <1>4, SamePlaceKeeps DEF ToggleSelectAll, Tick
<1>5. CASE PeopleTable(kept)
  BY <1>1, <1>3, <1>4, <1>5, OpenDetailKeepsPlace DEF PeopleTable
<1>6. CASE Pagination(kept)  BY <1>2, <1>6 DEF Pagination
<1> QED  BY <1>5, <1>6

(* A step within the page: the next row or the one before. *)
LEMMA StepInPage ==
  ASSUME DrawerInv, SelectionInv', openIndex # 0, NEW to, NEW next,
         openIndex \in 1..Len(rows) => to \in 1..Len(rows),
         openIndex \in Int /\ aim \in Int => next \in Int /\ next - aim = to - openIndex,
         Steer(At(to), query, result, Steered(next))
  PROVE  DrawerInv'
<1>1. /\ drawer' = [kind |-> "at", at |-> to] /\ UNCHANGED <<table, query, result>>
      /\ aim' = IF aim = 0 THEN 0 ELSE next
  BY DEF Steer, At, Steered
<1>2. KeepsItsPlace'
  <2> SUFFICES ASSUME aim # 0 PROVE KeepsItsPlace'  BY <1>1 DEF KeepsItsPlace
  <2>1. /\ ~result.loading /\ result = Fresh(query) /\ query.view = "people"
        /\ openIndex \in 1..Len(rows) /\ aim = openIndex + Skipped(query)
    BY AtItsPlace
  <2>2. Skipped(query) \in Nat
    BY PageTimesLength DEF Skipped, DrawerInv, SelectionInv, PagesAreCounted, Queries
  <2>3. aim' = to + Skipped(query)  BY <1>1, <2>1, <2>2
  <2>4. Fresh(query)' = Fresh(query)
    BY <1>1 DEF Fresh, PageOf, Listing, Matches, TeamRows, LiveMembers
  <2> QED  BY <1>1, <2>1, <2>3, <2>4 DEF KeepsItsPlace, rows, Skipped
<1> QED  BY <1>1, <1>2 DEF DrawerInv

LEMMA SameListing ==
  ASSUME query \in Queries, NEW p, NEW q, q = [query EXCEPT !.page = p], UNCHANGED table, query' = q
  PROVE  Listing(query)' = Listing(query)
<1>1. /\ query'.event = query.event /\ query'.filter = query.filter
      /\ query'.newestFirst = query.newestFirst
  BY DEF Queries
<1> QED  BY <1>1 DEF Listing, Matches

LEMMA FreshLater ==
  ASSUME UNCHANGED table, NEW q
  PROVE  Fresh(q)' = Fresh(q)
BY DEF Fresh, PageOf, Listing, Matches, TeamRows, LiveMembers

(* Over the end of a page, to the first row of the next. *)
LEMMA NextPageKeepsPlace ==
  ASSUME DrawerInv, SelectionInv', NEW kept, query.view = "people", openIndex # 0,
         openIndex >= Len(rows), ~query.all, query.page < totalPages,
         NEW q, q = [query EXCEPT !.page = query.page + 1],
         Steer([kind |-> "first", at |-> 0], q, Shows(q, kept), Steered(aim + 1))
  PROVE  DrawerInv'
<1>0. query \in Queries /\ query.page \in Nat \ {0}
  BY DEF DrawerInv, SelectionInv, PagesAreCounted, Queries
<1>1. q.page = query.page + 1 /\ q.view = "people" /\ ~q.all  BY <1>0 DEF Queries
<1>2. /\ drawer' = [kind |-> "first", at |-> 0] /\ query' = q /\ result' = Shows(q, kept)
      /\ aim' = IF aim = 0 THEN 0 ELSE aim + 1
      /\ UNCHANGED table
  BY DEF Steer, Steered
<1>3. KeepsItsPlace'
  <2> SUFFICES ASSUME aim # 0 PROVE KeepsItsPlace'  BY <1>2 DEF KeepsItsPlace
  <2>1. /\ openIndex \in 1..Len(rows) /\ aim = openIndex + Skipped(query)
        /\ rows = PageOf(query) /\ result.total = Len(Listing(query))
    BY AtItsPlace
  <2>2. result.total \in Nat  BY <2>1, ListingIsList
  <2>3. query.page < (result.total + PageLength - 1) \div PageLength
    <3>1. result.total # 0  BY <1>0 DEF totalPages
    <3> QED  BY <3>1 DEF totalPages
  <2>4. query.page * PageLength < Len(Listing(query))
    BY <1>0, <2>1, <2>2, <2>3, MorePages
  <2>5. /\ query.page * PageLength \in Nat
        /\ query.page * PageLength = (query.page - 1) * PageLength + PageLength
        /\ (query.page - 1) * PageLength \in Nat
    BY <1>0, PageTimesLength
  <2>6. Len(rows) = PageLength  BY <1>0, <2>1, <2>2, <2>4, <2>5, RowsOfAPage
  <2>7. aim = query.page * PageLength  BY <2>1, <2>5, <2>6, ViewerAssumption DEF Skipped
  <2>8. Skipped(q) = query.page * PageLength
    <3>1. q.page - 1 = query.page  BY <1>0, <1>1
    <3> QED  BY <1>1, <3>1 DEF Skipped
  <2>9. aim' = 1 + Skipped(q)  BY <1>2, <2>5, <2>7, <2>8
  <2>10. ~result'.loading => result' = Fresh(q)'  BY <1>2, ShowsLoading, FreshLater
  <2> QED  BY <1>1, <1>2, <2>9, <2>10 DEF KeepsItsPlace, Skipped
<1>4. result'.loading => result' = Loading  BY <1>2, ShowsLoading
<1> QED  BY <1>1, <1>2, <1>3, <1>4 DEF DrawerInv

(* Over the start of a page, to the last row of the one before. *)
LEMMA PrevPageKeepsPlace ==
  ASSUME DrawerInv, SelectionInv', NEW kept, query.view = "people", openIndex = 1, query.page > 1,
         NEW q, q = [query EXCEPT !.page = query.page - 1],
         Steer([kind |-> "last", at |-> 0], q, Shows(q, kept), Steered(aim - 1))
  PROVE  DrawerInv'
<1>0. query \in Queries /\ query.page \in Nat \ {0}
  BY DEF DrawerInv, SelectionInv, PagesAreCounted, Queries
<1>1. ~query.all  BY <1>0 DEF DrawerInv
<1>2. q.page = query.page - 1 /\ q.view = "people" /\ ~q.all  BY <1>0, <1>1 DEF Queries
<1>3. /\ drawer' = [kind |-> "last", at |-> 0] /\ query' = q /\ result' = Shows(q, kept)
      /\ aim' = IF aim = 0 THEN 0 ELSE aim - 1
      /\ UNCHANGED table
  BY DEF Steer, Steered
<1>4. KeepsItsPlace'
  <2> SUFFICES ASSUME aim # 0 PROVE KeepsItsPlace'  BY <1>3 DEF KeepsItsPlace
  <2>1. openIndex # 0  OBVIOUS
  <2>2. openIndex \in 1..Len(rows) /\ aim = openIndex + Skipped(query) /\ rows = PageOf(query)
    BY <2>1, AtItsPlace, Zenon
  <2>3. 1 \in 1..Len(rows) /\ aim = 1 + (query.page - 1) * PageLength /\ rows = PageOf(query)
    BY <1>1, <2>2 DEF Skipped
  <2>4. (query.page - 1) * PageLength < Len(Listing(query))
    <3>1. rows \in Seq(ToSet(rows))  BY DEF DrawerInv, SelectionInv, ResultsAreLists, rows
    <3>2. Len(rows) > 0  BY <2>3, <3>1
    <3> QED  BY <1>0, <1>1, <2>3, <3>2, RowsOfAPage
  <2>5. (query.page - 1) * PageLength \in Nat  BY <1>0, PageTimesLength
  <2>6. aim' = q.page * PageLength  BY <1>2, <1>3, <2>3, <2>5
  <2>7. q.page * PageLength < Len(Listing(query))'  BY <1>0, <1>2, <1>3, <2>4, SameListing
  <2>8. ~result'.loading => result' = Fresh(q)'  BY <1>3, ShowsLoading, FreshLater
  <2> QED  BY <1>2, <1>3, <2>6, <2>7, <2>8 DEF KeepsItsPlace
<1>5. result'.loading => result' = Loading  BY <1>3, ShowsLoading
<1> QED  BY <1>2, <1>3, <1>4, <1>5 DEF DrawerInv

LEMMA DrawerKeepsPlace ==
  ASSUME DrawerInv, SelectionInv', NEW kept, PersonDrawer(kept)
  PROVE  DrawerInv'
<1>1. query.view = "people"  BY DEF PersonDrawer, detailOpen
<1>2. Len(rows) \in Nat  BY DEF DrawerInv, SelectionInv, ResultsAreLists, rows
<1>3. CASE CloseDetail
  BY <1>3, LostPlaceKeeps DEF CloseDetail, Steer, DrawerInv
<1>4. CASE GoNextRecord(kept)
  <2>1. openIndex # 0  BY <1>4 DEF GoNextRecord
  <2>2. CASE openIndex < Len(rows) /\ Steer(At(openIndex + 1), query, result, Steered(aim + 1))
    <3>1. /\ openIndex \in 1..Len(rows) => openIndex + 1 \in 1..Len(rows)
          /\ openIndex \in Int /\ aim \in Int => aim + 1 \in Int /\ (aim + 1) - aim = (openIndex + 1) - openIndex
      BY <1>2, <2>2
    <3> QED  BY <2>1, <2>2, <3>1, StepInPage
  <2>3. CASE /\ openIndex >= Len(rows) /\ ~query.all /\ query.page < totalPages
             /\ Steer([kind |-> "first", at |-> 0], [query EXCEPT !.page = query.page + 1],
                      Shows([query EXCEPT !.page = query.page + 1], kept), Steered(aim + 1))
    BY <1>1, <2>1, <2>3, NextPageKeepsPlace
  <2> QED  BY <1>4, <2>2, <2>3 DEF GoNextRecord
<1>5. CASE GoPrevRecord(kept)
  <2>1. openIndex # 0  BY <1>5 DEF GoPrevRecord
  <2>2. CASE openIndex > 1 /\ Steer(At(openIndex - 1), query, result, Steered(aim - 1))
    <3>1. /\ openIndex \in 1..Len(rows) => openIndex - 1 \in 1..Len(rows)
          /\ openIndex \in Int /\ aim \in Int => aim - 1 \in Int /\ (aim - 1) - aim = (openIndex - 1) - openIndex
      BY <1>2, <2>2
    <3> QED  BY <2>1, <2>2, <3>1, StepInPage
  <2>3. CASE /\ openIndex = 1 /\ query.page > 1
             /\ Steer([kind |-> "last", at |-> 0], [query EXCEPT !.page = query.page - 1],
                      Shows([query EXCEPT !.page = query.page - 1], kept), Steered(aim - 1))
    BY <1>1, <2>3, PrevPageKeepsPlace
  <2> QED  BY <1>5, <2>2, <2>3 DEF GoPrevRecord
<1>6. ASSUME NEW r, NEW to, ToggleOne(r) \/ SetStatusOf(r, to)  PROVE DrawerInv'
  BY <1>6, SamePlaceKeeps DEF ToggleOne, Tick, SetStatusOf, Send
<1> QED  BY <1>3, <1>4, <1>5, <1>6 DEF PersonDrawer

LEMMA OthersKeepPlace ==
  ASSUME DrawerInv, SelectionInv',
         \/ TeamsGrid \/ TeamDrawer \/ BulkBar \/ ReminderDialog \/ WhatsappDialog \/ RejectionDialog
         \/ WindowClosedDialog \/ TeamMessageDialog \/ ImportDialog \/ DeleteDialog
  PROVE  DrawerInv'
<1>1. \/ \E kind, ids, to : Send(kind, ids, to)
      \/ \E kind, target : Dialog(kind, target)
      \/ \E ids : Tick(ids)
      \/ \E i : ShowTeam(i)
  BY DEF TeamsGrid, TeamDrawer, ToggleAllTeams, ToggleTeam, TeamStatus, BulkBar, ReminderDialog,
    WhatsappDialog, RejectionDialog, WindowClosedDialog, TeamMessageDialog, ImportDialog,
    DeleteDialog, BulkUpdate, RequestDeposit, SendMailing, SendTeamMessage, ImportCsv,
    ConfirmDelete, Cancel
<1> QED  BY <1>1, SamePlaceKeeps DEF Send, Dialog, Tick, ShowTeam

(* An answer to what is loading keeps the place, another list than before    *)
(* loses it, and so does a table with other rows in the list.                *)
LEMMA AnswersKeepPlace ==
  ASSUME DrawerInv, SelectionInv',
         Fetched \/ FetchFails \/ \E q \in requests, ok \in BOOLEAN : Answered(q, ok)
  PROVE  DrawerInv'
<1>1. CASE Fetched
  <2>1. /\ result' = Fresh(query) /\ UNCHANGED <<table, query, drawer>>
        /\ aim' = IF result.loading \/ Fresh(query) = result THEN aim ELSE 0
    BY <1>1 DEF Fetched, Show
  <2>2. Listing(query)' = Listing(query) /\ TeamRows(query)' = TeamRows(query)
    BY <2>1 DEF Listing, Matches, TeamRows, LiveMembers
  <2>3. Fresh(query)' = Fresh(query)  BY <2>1, <2>2 DEF Fresh, PageOf
  <2>4. ~result'.loading  BY <2>1 DEF Fresh, Loading
  <2>5. KeepsItsPlace'
    <3> SUFFICES ASSUME aim' # 0 PROVE KeepsItsPlace'  BY DEF KeepsItsPlace
    <3>1. aim' = aim  BY <2>1
    <3>2. CASE result' = result
      BY <2>1, <2>2, <2>3, <3>1, <3>2 DEF DrawerInv, KeepsItsPlace, rows, Skipped
    <3>3. CASE result.loading
      <4>1. drawer.kind # "at"  BY <3>1, <3>3 DEF DrawerInv, KeepsItsPlace
      <4> QED  BY <2>1, <2>2, <2>3, <3>1, <4>1 DEF DrawerInv, KeepsItsPlace, Skipped
    <3> QED  BY <2>1, <3>2, <3>3
  <2> QED  BY <2>1, <2>4, <2>5 DEF DrawerInv
<1>2. CASE FetchFails
  <2>1. aim' = 0 /\ query' = query /\ ~result'.loading  BY <1>2 DEF FetchFails, Loading
  <2> QED  BY <2>1, LostPlaceKeeps DEF DrawerInv
<1>3. ASSUME NEW q, NEW ok, Answered(q, ok)  PROVE DrawerInv'
  <2>1. /\ UNCHANGED <<query, result, drawer>>
        /\ aim' = IF Listing(query)' = Listing(query) THEN aim ELSE 0
    BY <1>3 DEF Answered
  <2>2. KeepsItsPlace'
    <3> SUFFICES ASSUME aim' # 0 PROVE KeepsItsPlace'  BY DEF KeepsItsPlace
    <3>1. aim' = aim /\ Listing(query)' = Listing(query)  BY <2>1
    <3>2. query.view = "people"  BY <3>1 DEF DrawerInv, KeepsItsPlace
    <3>3. Fresh(query)' = Fresh(query)  BY <2>1, <3>1, <3>2 DEF Fresh, PageOf
    <3> QED  BY <2>1, <3>1, <3>3 DEF DrawerInv, KeepsItsPlace, rows, Skipped
  <2> QED  BY <2>1, <2>2 DEF DrawerInv
<1> QED  BY <1>1, <1>2, <1>3

LEMMA DrawerStart == ViewerInit => DrawerInv
<1> SUFFICES ASSUME ViewerInit PROVE DrawerInv  OBVIOUS
<1>1. aim = 0 /\ query.page = 1 /\ ~result.loading  BY DEF ViewerInit, Fresh, Loading
<1> QED  BY <1>1, SelectionStart DEF DrawerInv, KeepsItsPlace

LEMMA DrawerStep == DrawerInv /\ [ViewerNext]_viewerVars => DrawerInv'
<1> SUFFICES ASSUME DrawerInv, [ViewerNext]_viewerVars PROVE DrawerInv'  OBVIOUS
<1>1. SelectionInv'  BY SelectionStep DEF DrawerInv
<1>2. CASE UNCHANGED viewerVars  BY <1>1, <1>2, SamePlaceKeeps DEF viewerVars
<1>3. CASE ViewerNext
  BY <1>1, <1>3, HeadKeepsPlace, TableKeepsPlace, DrawerKeepsPlace, OthersKeepPlace, AnswersKeepPlace
    DEF ViewerNext
<1> QED  BY <1>2, <1>3

(* However often the organiser steps on or back, over the ends of pages of    *)
(* any length, with the next page kept or still loading, the drawer is at the *)
(* neighbour they asked for, as long as the list stays as it is.              *)
THEOREM DrawerStepsToNeighbour ==
  ViewerInit /\ [][ViewerNext]_viewerVars => []StepsToNeighbour
<1>1. DrawerInv => StepsToNeighbour
  <2> SUFFICES ASSUME DrawerInv, aim # 0, detailShown PROVE Position = aim
    BY DEF StepsToNeighbour
  <2>1. openIndex # 0  BY DEF detailShown
  <2>2. openIndex \in 1..Len(rows) /\ aim = openIndex + Skipped(query)  BY <2>1, AtItsPlace
  <2> QED  BY <2>2 DEF Position, Skipped
<1> QED  BY <1>1, DrawerStart, DrawerStep, PTL

-----------------------------------------------------------------------------
(* The Registrations page: its state is well typed. *)

RowCount == Cardinality(Rows)

(* A number of a set is in order where as many precede it as are before it:  *)
(* each place is somebody's, since no two have the same.                     *)
LEMMA InOrderWithin ==
  ASSUME NEW S, IsFiniteSet(S), S \subseteq Nat, NEW ascending
  PROVE  ToSet(InOrder(S, ascending)) \subseteq S
<1> DEFINE before(x) == {y \in S : IF ascending THEN y < x ELSE x < y}
           n == Cardinality(S)
           place == [x \in S |-> Cardinality(before(x)) + 1]
           at(i) == CHOOSE x \in S : Cardinality(before(x)) + 1 = i
<1>1. n \in Nat  BY FS_CardinalityType
<1>2. ASSUME NEW x \in S
      PROVE  IsFiniteSet(before(x)) /\ Cardinality(before(x)) \in Nat /\ Cardinality(before(x)) < n
  <2>1. before(x) \in SUBSET S /\ x \notin before(x)  OBVIOUS
  <2> HIDE DEF before
  <2>2. IsFiniteSet(before(x)) /\ Cardinality(before(x)) <= n /\ Cardinality(before(x)) # n
    BY <2>1, FS_Subset
  <2>3. Cardinality(before(x)) \in Nat  BY <2>2, FS_CardinalityType
  <2> QED  BY <1>1, <2>2, <2>3
<1>3. ASSUME NEW x \in S, NEW y \in before(x)
      PROVE  Cardinality(before(y)) < Cardinality(before(x))
  <2>1. y \in S /\ y \notin before(y) /\ before(y) \in SUBSET before(x)
    <3>1. y \in S /\ x \in Nat /\ y \in Nat /\ y \notin before(y)  BY <1>3
    <3>2. ASSUME NEW z \in before(y)  PROVE z \in before(x)
      <4>1. z \in S /\ z \in Nat  OBVIOUS
      <4>2. IF ascending THEN z < y /\ y < x ELSE y < z /\ x < y  BY <1>3, <3>2
      <4>3. IF ascending THEN z < x ELSE x < z  BY <3>1, <4>1, <4>2
      <4> QED  BY <4>1, <4>3
    <3> QED  BY <3>1, <3>2
  <2>2. before(y) # before(x)  BY <1>3, <2>1
  <2>3. /\ IsFiniteSet(before(x)) /\ Cardinality(before(x)) \in Nat
        /\ Cardinality(before(y)) \in Nat
    BY <1>2, <2>1
  <2> HIDE DEF before
  <2>4. Cardinality(before(y)) <= Cardinality(before(x)) /\ Cardinality(before(y)) # Cardinality(before(x))
    BY <2>1, <2>2, <2>3, FS_Subset
  <2> QED  BY <2>3, <2>4
<1>4. ASSUME NEW x \in S, NEW y \in S, x # y  PROVE x \in before(y) \/ y \in before(x)
  <2>1. x \in Nat /\ y \in Nat  OBVIOUS
  <2>2. x < y \/ y < x  BY <1>4, <2>1
  <2> QED  BY <2>2
<1> HIDE DEF before, n
<1>5. place \in [S -> 1..n]
  <2>1. \A x \in S : Cardinality(before(x)) + 1 \in 1..n  BY <1>1, <1>2
  <2> QED  BY <2>1
<1>6. \A x, y \in S : place[x] = place[y] => x = y
  <2> SUFFICES ASSUME NEW x \in S, NEW y \in S, x # y PROVE place[x] # place[y]  OBVIOUS
  <2>1. Cardinality(before(x)) \in Nat /\ Cardinality(before(y)) \in Nat  BY <1>2
  <2>2. Cardinality(before(x)) # Cardinality(before(y))  BY <1>3, <1>4, <2>1
  <2> QED  BY <2>1, <2>2
<1>7. place \in Surjection(S, 1..n)
  <2>1. place \in Injection(S, 1..n)
    <3>1. \A x, y \in DOMAIN place : place[x] = place[y] => x = y  BY <1>6
    <3> HIDE DEF place
    <3> QED  BY <1>5, <3>1 DEF Injection, IsInjective
  <2>2. IsFiniteSet(1..n) /\ Cardinality(1..n) = n  BY <1>1, FS_Interval
  <2> HIDE DEF place
  <2> QED  BY <2>1, <2>2, FS_Injection DEF n
<1>8. ASSUME NEW i \in 1..n PROVE at(i) \in S
  <2>1. PICK x \in S : place[x] = i
    <3> HIDE DEF place
    <3> QED  BY <1>7 DEF Surjection
  <2>2. Cardinality(before(x)) + 1 = i  BY <2>1
  <2> QED  BY <2>2
<1>9. InOrder(S, ascending) = [i \in 1..n |-> at(i)]  BY DEF InOrder, before, n
<1> HIDE DEF at
<1> QED  BY <1>8, <1>9 DEF ToSet

LEMMA ListingWithin ==
  ASSUME NEW q
  PROVE  /\ RowCount \in Nat
         /\ Len(Listing(q)) <= RowCount /\ ToSet(Listing(q)) \subseteq Rows
<1> DEFINE listed == {r \in Rows : EventOfRow[r] = q.event /\ Matches(q.filter, r)}
<1>1. listed \in SUBSET Rows /\ listed \subseteq Nat  BY ViewerAssumption
<1>2. Listing(q) = InOrder(listed, q.newestFirst)  BY DEF Listing
<1> HIDE DEF listed
<1>3. IsFiniteSet(listed) /\ Cardinality(listed) <= RowCount
  BY <1>1, ViewerAssumption, FS_Subset DEF RowCount
<1>4. RowCount \in Nat  BY ViewerAssumption, FS_CardinalityType DEF RowCount
<1>5. Len(Listing(q)) = Cardinality(listed) /\ ToSet(Listing(q)) \subseteq listed
  BY <1>1, <1>2, <1>3, InOrderIsList, InOrderWithin
<1> QED  BY <1>1, <1>3, <1>4, <1>5

LEMMA TeamsWithin ==
  ASSUME NEW q
  PROVE  /\ Len(TeamRows(q)) <= RowCount
         /\ \A t \in ToSet(TeamRows(q)) : t \subseteq Rows
<1> DEFINE here == {x \in Rows : EventOfRow[x] = q.event}
           numbers == {TeamOfRow[r] : r \in here}
           listed == {t \in numbers :
             /\ q.filter = "pending" => \E r \in Rows : TeamOfRow[r] = t /\ table[r].status = "pending"
             /\ q.filter # "with_deleted" => LiveMembers(t) # {}}
           order == InOrder(listed, TRUE)
<1>0. RowCount \in Nat  BY ViewerAssumption, FS_CardinalityType DEF RowCount
<1>1. IsFiniteSet(numbers) /\ Cardinality(numbers) <= RowCount
  <2>1. IsFiniteSet(here) /\ Cardinality(here) <= RowCount
    BY ViewerAssumption, FS_Subset DEF RowCount
  <2> DEFINE f == [r \in here |-> TeamOfRow[r]]
  <2>2. f \in Surjection(here, numbers)  BY DEF Surjection
  <2> HIDE DEF here, f, numbers
  <2>3. IsFiniteSet(numbers) /\ Cardinality(numbers) <= Cardinality(here)
    BY <2>1, <2>2, FS_Surjection
  <2>4. Cardinality(numbers) \in Nat /\ Cardinality(here) \in Nat  BY <2>1, <2>3, FS_CardinalityType
  <2> QED  BY <1>0, <2>1, <2>3, <2>4
<1>2. TeamRows(q) = [i \in 1..Len(order) |-> LiveMembers(order[i])]  BY DEF TeamRows
<1>3. listed \in SUBSET numbers  OBVIOUS
<1> HIDE DEF numbers, listed
<1>4. IsFiniteSet(listed) /\ Cardinality(listed) <= Cardinality(numbers)  BY <1>1, <1>3, FS_Subset
<1>5. Cardinality(listed) \in Nat /\ Cardinality(numbers) \in Nat  BY <1>1, <1>4, FS_CardinalityType
<1>6. Len(order) = Cardinality(listed)  BY <1>4, InOrderIsList
<1> HIDE DEF order
<1>7. Len(order) \in Nat /\ Len(order) <= RowCount  BY <1>0, <1>1, <1>4, <1>5, <1>6
<1>8. Len(TeamRows(q)) = Len(order)
  <2>1. TeamRows(q) = [i \in 1..Len(order) |-> TeamRows(q)[i]]  BY <1>2
  <2> QED  BY <1>7, <2>1, ListOfLength
<1>9. \A t \in ToSet(TeamRows(q)) : \E i \in 1..Len(order) : t = LiveMembers(order[i])
  BY <1>2 DEF ToSet
<1> QED  BY <1>7, <1>8, <1>9 DEF LiveMembers

(* A row of a page is a row of the list, further on by the pages before it.  *)
LEMMA PageWithin ==
  ASSUME NEW q, q.page \in Nat \ {0}
  PROVE  /\ Len(PageOf(q)) \in Nat /\ Len(PageOf(q)) <= RowCount
         /\ ToSet(PageOf(q)) \subseteq Rows
         /\ \A i \in 1..Len(PageOf(q)) : i + Skipped(q) <= RowCount
<1> DEFINE list0 == Listing(q)
           skip == (q.page - 1) * PageLength
           last == IF q.page * PageLength < Len(list0) THEN q.page * PageLength ELSE Len(list0)
<1>1. /\ list0 \in Seq(ToSet(list0)) /\ Len(list0) \in Nat /\ RowCount \in Nat
      /\ Len(list0) <= RowCount /\ ToSet(list0) \subseteq Rows
      /\ skip \in Nat /\ q.page * PageLength = skip + PageLength
  BY ListingIsList, ListingWithin, PageTimesLength
<1>2. CASE q.all
  <2>1. PageOf(q) = list0 /\ Skipped(q) = 0  BY <1>2 DEF PageOf, Skipped
  <2> QED  BY <1>1, <2>1
<1>3. CASE ~q.all
  <2>1. PageOf(q) = SubSeq(list0, skip + 1, last) /\ Skipped(q) = skip  BY <1>3 DEF PageOf, Skipped
  <2>2. last = IF skip + PageLength < Len(list0) THEN skip + PageLength ELSE Len(list0)  BY <1>1
  <2> HIDE DEF skip, last, list0
  <2>3. last \in Nat /\ last <= Len(list0)  BY <1>1, <2>2, ViewerAssumption
  <2>4. Len(PageOf(q)) = IF skip + 1 <= last THEN last - skip ELSE 0  BY <1>1, <2>1, <2>3
  <2>5. ToSet(PageOf(q)) \subseteq ToSet(list0)
    <3>1. PageOf(q) \in Seq(ToSet(list0))  BY <1>1, <2>1, <2>3
    <3> QED  BY <3>1 DEF ToSet
  <2> QED  BY <1>1, <2>1, <2>3, <2>4, <2>5
<1> QED  BY <1>2, <1>3

(* What is shown are rows of the table, and teams of them, no more than there *)
(* are.                                                                      *)
Within(res) ==
  /\ DOMAIN res = DOMAIN Loading /\ res.total \in 0..RowCount
  /\ res.rows \in Seq(Rows) /\ Len(res.rows) <= RowCount
  /\ res.teams \in Seq(SUBSET Rows) /\ Len(res.teams) <= RowCount

PagedQueries ==
  [event : Events \cup {""}, filter : Filters, newestFirst : BOOLEAN, page : {1} \cup 1..RowCount,
   all : BOOLEAN, view : {"people", "teams"}]
Drawers == [kind : {"none", "at", "first", "last"}, at : 0..RowCount]
Targets == [kind : Dialogs \cup {"none"}, target : Rows \cup {0}]

RequestsFit ==
  /\ \A q \in requests : DOMAIN q = {"kind", "ids", "to"} /\ q.kind \in Kinds /\ q.ids \subseteq Rows
                         /\ q.to \in RowStatus
  /\ \A q, p \in requests : q.kind = p.kind => q = p

DialogFits == dialog \in Targets /\ (dialog.kind = "delete" => dialog.target \in Rows)

ViewerTypes ==
  /\ table \in [Rows -> RowStates] /\ query \in PagedQueries /\ Within(result)
  /\ selected \subseteq Rows /\ seen \subseteq Rows
  /\ drawer \in Drawers /\ openTeam \in 0..RowCount /\ aim \in 0..RowCount
  /\ DialogFits /\ RequestsFit

LEMMA CountOfRows == RowCount \in Nat
BY ViewerAssumption, FS_CardinalityType DEF RowCount

LEMMA ListWithin ==
  ASSUME NEW s, s \in Seq(ToSet(s)), NEW S, ToSet(s) \subseteq S
  PROVE  s \in Seq(S)
OBVIOUS

LEMMA LoadingWithin == Within(Loading) /\ Within([Loading EXCEPT !.loading = FALSE])
<1>1. <<>> \in Seq(Rows) /\ <<>> \in Seq(SUBSET Rows) /\ Len(<<>>) = 0  OBVIOUS
<1>2. 0 \in 0..RowCount  BY CountOfRows
<1> QED  BY <1>1, <1>2, CountOfRows DEF Within, Loading

LEMMA FreshWithin ==
  ASSUME NEW q, q.page \in Nat \ {0}, NEW kept
  PROVE  Within(Fresh(q)) /\ Within(Shows(q, kept))
<1>1. CASE q.event = ""
  BY <1>1, LoadingWithin DEF Fresh, Shows
<1>2. CASE q.event # ""
  <2>1. Fresh(q) = [loading |-> FALSE, rows |-> PageOf(q), total |-> Len(Listing(q)),
                    teams |-> IF q.view = "teams" THEN TeamRows(q) ELSE <<>>]
    BY <1>2 DEF Fresh
  <2>2. DOMAIN Fresh(q) = DOMAIN Loading  BY <2>1 DEF Loading
  <2>3. Len(Listing(q)) \in 0..RowCount  BY ListingIsList, ListingWithin
  <2>4. PageOf(q) \in Seq(Rows) /\ Len(PageOf(q)) <= RowCount  BY PageOfIsList, PageWithin, ListWithin
  <2>5. TeamRows(q) \in Seq(SUBSET Rows) /\ Len(TeamRows(q)) <= RowCount
    <3>1. ToSet(TeamRows(q)) \subseteq SUBSET Rows  BY TeamsWithin
    <3> QED  BY <3>1, TeamRowsIsList, TeamsWithin, ListWithin
  <2>6. <<>> \in Seq(SUBSET Rows) /\ Len(<<>>) <= RowCount  BY CountOfRows
  <2> HIDE DEF Fresh, PageOf, TeamRows, Listing
  <2>7. Within(Fresh(q))  BY <2>1, <2>2, <2>3, <2>4, <2>5, <2>6 DEF Within
  <2> QED  BY <2>7, LoadingWithin DEF Shows
<1> QED  BY <1>1, <1>2

LEMMA ShownWithin ==
  ASSUME NEW res, Within(res), NEW q
  PROVE  ShownIn(q, res) \subseteq Rows
<1>1. ToSet(res.rows) \subseteq Rows /\ UNION ToSet(res.teams) \subseteq Rows  BY DEF Within, ToSet
<1> QED  BY <1>1 DEF ShownIn

(* Something else is looked at. *)
LEMMA LookKeeps ==
  ASSUME ViewerTypes, NEW q \in PagedQueries, NEW res, Within(res), query' = q, result' = res,
         selected' \subseteq selected, seen' \subseteq seen \cup ShownIn(q, res),
         drawer' \in Drawers, aim' \in 0..RowCount, openTeam' \in {0, openTeam},
         UNCHANGED <<table, dialog, requests>>
  PROVE  ViewerTypes'
<1>1. ShownIn(q, res) \subseteq Rows  BY ShownWithin
<1>2. openTeam' \in 0..RowCount  BY CountOfRows DEF ViewerTypes
<1>3. Within(result)'  BY DEF Within, Loading
<1>4. RequestsFit' /\ DialogFits'  BY DEF ViewerTypes, RequestsFit, DialogFits
<1>5. table' \in [Rows -> RowStates] /\ selected' \subseteq Rows /\ seen' \subseteq Rows
  BY <1>1 DEF ViewerTypes
<1> QED  BY <1>2, <1>3, <1>4, <1>5 DEF ViewerTypes

(* Something is ticked, sent or asked in a dialog. *)
LEMMA ActKeeps ==
  ASSUME ViewerTypes, UNCHANGED <<table, query, result, drawer, aim, seen>>,
         selected' \subseteq Rows, openTeam' \in 0..RowCount, DialogFits', RequestsFit'
  PROVE  ViewerTypes'
<1>1. Within(result)'  BY DEF ViewerTypes, Within
<1> QED  BY <1>1 DEF ViewerTypes

LEMMA TickKeeps ==
  ASSUME ViewerTypes, NEW ids, ids \subseteq Rows, Tick(ids)
  PROVE  ViewerTypes'
BY ActKeeps DEF Tick, ViewerTypes, DialogFits, RequestsFit

LEMMA DialogTyped ==
  ASSUME ViewerTypes, NEW kind \in Dialogs \cup {"none"}, NEW target \in Rows \cup {0},
         kind = "delete" => target \in Rows, Dialog(kind, target)
  PROVE  ViewerTypes'
<1>1. DialogFits'  BY DEF Dialog, DialogFits, Targets
<1>2. UNCHANGED <<table, query, result, drawer, aim, seen, selected, openTeam, requests>>  BY DEF Dialog
<1>3. RequestsFit'  BY <1>2 DEF ViewerTypes, RequestsFit
<1> QED  BY <1>1, <1>2, <1>3, ActKeeps DEF ViewerTypes

LEMMA SendTyped ==
  ASSUME ViewerTypes, NEW kind \in Kinds, NEW ids, ids \subseteq Rows, NEW to \in RowStatus,
         Send(kind, ids, to)
  PROVE  ViewerTypes'
<1> DEFINE sent == [kind |-> kind, ids |-> ids, to |-> to]
<1>1. UNCHANGED <<table, query, result, drawer, aim, seen, selected, openTeam, dialog>>  BY DEF Send
<1>2. requests' = requests \cup {sent} /\ \A q \in requests : q.kind # kind  BY DEF Send, Pending
<1>3. /\ DOMAIN sent = {"kind", "ids", "to"} /\ sent.kind = kind /\ sent.ids = ids /\ sent.to = to
  OBVIOUS
<1> HIDE DEF sent
<1>4. RequestsFit'
  <2>1. \A q \in requests' : q \in requests \/ q = sent  BY <1>2
  <2> QED  BY <1>2, <1>3, <2>1 DEF ViewerTypes, RequestsFit
<1>5. DialogFits'  BY <1>1 DEF ViewerTypes, DialogFits
<1> QED  BY <1>1, <1>4, <1>5, ActKeeps DEF ViewerTypes

LEMMA ShowTeamTyped ==
  ASSUME ViewerTypes, NEW i \in 0..RowCount, ShowTeam(i)
  PROVE  ViewerTypes'
BY ActKeeps DEF ShowTeam, ViewerTypes, DialogFits, RequestsFit

LEMMA FirstPage ==
  ASSUME NEW q \in PagedQueries
  PROVE  [q EXCEPT !.page = 1] \in PagedQueries /\ q.page \in Nat \ {0}
<1>1. 1 \in {1} \cup 1..RowCount /\ \A p \in {1} \cup 1..RowCount : p \in Nat \ {0}
  BY CountOfRows
<1> QED  BY <1>1 DEF PagedQueries

LEMMA ClosedDrawer == Closed \in Drawers /\ 0 \in 0..RowCount
<1>1. 0 \in 0..RowCount  BY CountOfRows
<1> QED  BY <1>1 DEF Closed, Drawers

LEMMA AskAnewTyped ==
  ASSUME ViewerTypes, NEW q \in PagedQueries, NEW kept, AskAnew(q, kept)
  PROVE  ViewerTypes'
<1> DEFINE first == [q EXCEPT !.page = 1]
<1>1. first \in PagedQueries  BY FirstPage
<1>2. /\ query' = first /\ result' = Shows(first, kept) /\ selected' = {}
      /\ seen' = ShownIn(query', result') /\ drawer' = Closed /\ aim' = 0
      /\ UNCHANGED <<table, openTeam, dialog, requests>>
  BY DEF AskAnew, Ask
<1> HIDE DEF first
<1>3. Within(Shows(first, kept))  BY <1>1, FirstPage, FreshWithin
<1> QED  BY <1>1, <1>2, <1>3, ClosedDrawer, LookKeeps

LEMMA HeadTyped ==
  ASSUME ViewerTypes, NEW kept, PageHead(kept) \/ FilterPanel(kept) \/ ListBar(kept)
  PROVE  ViewerTypes'
<1>0. query \in PagedQueries  BY DEF ViewerTypes
<1>1. ASSUME NEW e \in Events \cup {""}, SelectEvent(e, kept)  PROVE ViewerTypes'
  <2> DEFINE q == [query EXCEPT !.event = e]
  <2>1. q \in PagedQueries  BY <1>0 DEF PagedQueries
  <2>2. AskAnew(q, kept)  BY <1>1 DEF SelectEvent
  <2> HIDE DEF q
  <2> QED  BY <2>1, <2>2, AskAnewTyped
<1>2. CASE Dialog("import", 0)
  BY <1>2, DialogTyped DEF Dialogs
<1>3. ASSUME NEW f \in Filters, ApplyFilters(f, kept)  PROVE ViewerTypes'
  <2> DEFINE q == [query EXCEPT !.filter = f]
  <2>1. q \in PagedQueries  BY <1>0 DEF PagedQueries
  <2>2. AskAnew(q, kept)  BY <1>3 DEF ApplyFilters
  <2> HIDE DEF q
  <2> QED  BY <2>1, <2>2, AskAnewTyped
<1>4. CASE ChangeLimit(kept)
  <2> DEFINE q == [query EXCEPT !.all = ~query.all]
  <2>1. q \in PagedQueries  BY <1>0 DEF PagedQueries
  <2>2. AskAnew(q, kept)  BY <1>4 DEF ChangeLimit
  <2> HIDE DEF q
  <2> QED  BY <2>1, <2>2, AskAnewTyped
<1>5. CASE SwitchView(kept)
  <2> DEFINE q == [query EXCEPT !.view = IF query.view = "people" THEN "teams" ELSE "people"]
  <2>1. q \in PagedQueries  BY <1>0 DEF PagedQueries
  <2>2. /\ query' = q /\ result' = Shows(q, kept) /\ selected' = {}
        /\ seen' = ShownIn(query', result') /\ drawer' = Closed /\ aim' = 0 /\ openTeam' = 0
        /\ UNCHANGED <<table, dialog, requests>>
    BY <1>5 DEF SwitchView
  <2> HIDE DEF q
  <2>3. Within(Shows(q, kept))  BY <2>1, FirstPage, FreshWithin
  <2> QED  BY <2>1, <2>2, <2>3, ClosedDrawer, LookKeeps
<1> QED  BY <1>1, <1>2, <1>3, <1>4, <1>5 DEF PageHead, FilterPanel, ListBar

LEMMA RowsAreThere ==
  ASSUME ViewerTypes
  PROVE  /\ Len(rows) \in Nat /\ Len(rows) <= RowCount /\ DOMAIN rows = 1..Len(rows)
         /\ \A i \in DOMAIN rows : rows[i] \in Rows /\ i \in 0..RowCount
         /\ ToSet(rows) \subseteq Rows
BY CountOfRows DEF ViewerTypes, Within, rows, ToSet

LEMMA TotalIsCounted ==
  ASSUME ViewerTypes
  PROVE  totalPages \in Int
<1>1. \A a \in Int, b \in Nat \ {0} : a \div b \in Int  OBVIOUS
<1>2. result.total \in Nat  BY CountOfRows DEF ViewerTypes, Within
<1>3. result.total + PageLength - 1 \in Int  BY <1>2, ViewerAssumption
<1> QED  BY <1>1, <1>3, ViewerAssumption DEF totalPages

(* The page asked for is one of those there are rows for. *)
LEMMA PageIsThere ==
  ASSUME ViewerTypes, NEW p \in Nat, p < totalPages
  PROVE  p + 1 \in {1} \cup 1..RowCount
<1>1. CASE query.all \/ result.total = 0  BY <1>1 DEF totalPages
<1>2. CASE ~(query.all \/ result.total = 0)
  <2>1. result.total \in Nat /\ result.total <= RowCount  BY CountOfRows DEF ViewerTypes, Within
  <2>2. p < (result.total + PageLength - 1) \div PageLength  BY <1>2 DEF totalPages
  <2>3. p * PageLength < result.total  BY <2>1, <2>2, MorePages
  <2>4. p <= p * PageLength /\ p * PageLength \in Nat
    <3>1. \A n, k \in Nat : n <= n * (k + 1) /\ n * (k + 1) \in Nat
      <4>1. \A n, k \in Nat : n * (k + 1) = n * k + n /\ n * k \in Nat  OBVIOUS
      <4> QED  BY <4>1
    <3>2. PageLength - 1 \in Nat /\ (PageLength - 1) + 1 = PageLength  BY ViewerAssumption
    <3> QED  BY <3>1, <3>2
  <2> QED  BY <2>1, <2>3, <2>4, CountOfRows
<1> QED  BY <1>1, <1>2

LEMMA SteerTyped ==
  ASSUME ViewerTypes, NEW d \in Drawers, NEW q \in PagedQueries, NEW res, Within(res),
         NEW to \in 0..RowCount, Steer(d, q, res, to)
  PROVE  ViewerTypes'
BY LookKeeps DEF Steer

LEMMA OpenDetailTyped ==
  ASSUME ViewerTypes, NEW i \in DOMAIN rows, OpenDetail(i)
  PROVE  ViewerTypes'
<1> DEFINE to == IF result # Fresh(query) THEN 0
                 ELSE i + IF query.all THEN 0 ELSE (query.page - 1) * PageLength
<1>1. Steer(At(i), query, result, to)  BY DEF OpenDetail
<1>2. At(i) \in Drawers  BY RowsAreThere DEF At, Drawers
<1>3. query \in PagedQueries /\ Within(result)  BY DEF ViewerTypes
<1>4. to \in 0..RowCount
  <2>1. CASE result # Fresh(query)  BY <2>1, CountOfRows
  <2>2. CASE result = Fresh(query)
    <3>1. query.page \in Nat \ {0}  BY <1>3, FirstPage
    <3>2. CASE query.event = ""
      <4>1. rows = <<>>  BY <2>2, <3>2 DEF Fresh, Loading, rows
      <4> QED  BY <4>1
    <3>3. CASE query.event # ""
      <4>1. rows = PageOf(query)  BY <2>2, <3>3 DEF Fresh, rows
      <4>2. i \in 1..Len(PageOf(query))  BY <4>1, RowsAreThere
      <4>3. i + Skipped(query) <= RowCount  BY <3>1, <4>2, PageWithin
      <4>4. Skipped(query) \in Nat  BY <3>1, PageTimesLength DEF Skipped
      <4>5. to = i + Skipped(query)  BY <2>2 DEF Skipped
      <4> HIDE DEF to
      <4> QED  BY <4>2, <4>3, <4>4, <4>5, CountOfRows
    <3> QED  BY <3>2, <3>3
  <2> QED  BY <2>1, <2>2
<1> HIDE DEF to
<1> QED  BY <1>1, <1>2, <1>3, <1>4, SteerTyped

LEMMA TableTyped ==
  ASSUME ViewerTypes, NEW kept, PeopleTable(kept) \/ Pagination(kept)
  PROVE  ViewerTypes'
<1>0. query \in PagedQueries /\ query.page \in Nat \ {0}  BY FirstPage DEF ViewerTypes
<1>1. CASE ToggleSelectAll
  <2>1. PICK ids \in {{}, ToSet(rows)} : Tick(ids)  BY <1>1 DEF ToggleSelectAll
  <2> QED  BY <2>1, RowsAreThere, TickKeeps
<1>2. CASE ToggleSort(kept)
  <2> DEFINE q == [query EXCEPT !.newestFirst = ~query.newestFirst, !.page = 1]
  <2>1. q \in PagedQueries
    <3>1. [query EXCEPT !.newestFirst = ~query.newestFirst] \in PagedQueries  BY <1>0 DEF PagedQueries
    <3> QED  BY <3>1, FirstPage
  <2>2. /\ query' = q /\ result' = Shows(q, kept) /\ drawer' = Closed /\ aim' = 0
        /\ seen' = seen \cup ShownIn(query', result')
        /\ UNCHANGED <<selected, table, openTeam, dialog, requests>>
    BY <1>2 DEF ToggleSort, Ask
  <2> HIDE DEF q
  <2>3. Within(Shows(q, kept))  BY <2>1, FirstPage, FreshWithin
  <2> QED  BY <2>1, <2>2, <2>3, ClosedDrawer, LookKeeps
<1>3. ASSUME NEW i \in DOMAIN rows, ToggleOne(rows[i])  PROVE ViewerTypes'
  <2>1. PICK ids \in {selected \ {rows[i]}, selected \cup {rows[i]}} : Tick(ids)
    BY <1>3 DEF ToggleOne
  <2> QED  BY <2>1, RowsAreThere, TickKeeps DEF ViewerTypes
<1>4. ASSUME NEW i \in DOMAIN rows, Dialog("delete", rows[i])  PROVE ViewerTypes'
  BY <1>4, RowsAreThere, DialogTyped DEF Dialogs
<1>5. ASSUME NEW i \in DOMAIN rows, Restore(rows[i])  PROVE ViewerTypes'
  BY <1>5, RowsAreThere, SendTyped DEF Restore, Kinds, RowStatus
<1>6. ASSUME NEW p \in 1..totalPages, Paginate(p, kept), p = query.page + 1 \/ p + 1 = query.page
      PROVE  ViewerTypes'
  <2> DEFINE q == [query EXCEPT !.page = p]
  <2>1. p \in {1} \cup 1..RowCount
    <3>1. CASE p = query.page + 1
      <4>1. query.page \in Nat /\ p \in Int /\ p <= totalPages  BY <1>0, <1>6
      <4>2. query.page < totalPages
        <5>1. totalPages \in Int  BY TotalIsCounted
        <5> QED  BY <3>1, <4>1, <5>1
      <4> QED  BY <3>1, <4>1, <4>2, PageIsThere
    <3>2. CASE p + 1 = query.page
      <4>1. query.page \in {1} \cup 1..RowCount  BY <1>0 DEF PagedQueries
      <4> QED  BY <1>6, <3>2, <4>1, CountOfRows
    <3> QED  BY <1>6, <3>1, <3>2
  <2>2. q \in PagedQueries  BY <1>0, <2>1 DEF PagedQueries
  <2>3. /\ query' = q /\ result' = Shows(q, kept) /\ drawer' = drawer /\ aim' = 0
        /\ seen' = seen \cup ShownIn(query', result')
        /\ UNCHANGED <<selected, table, openTeam, dialog, requests>>
    BY <1>6 DEF Paginate, Ask
  <2> HIDE DEF q
  <2>4. Within(Shows(q, kept))  BY <2>2, FirstPage, FreshWithin
  <2> QED  BY <2>2, <2>3, <2>4, ClosedDrawer, LookKeeps DEF ViewerTypes
<1>7. CASE PeopleTable(kept)
  BY <1>1, <1>2, <1>3, <1>4, <1>5, <1>7, OpenDetailTyped DEF PeopleTable
<1>8. CASE Pagination(kept)  BY <1>6, <1>8 DEF Pagination
<1> QED  BY <1>7, <1>8

LEMMA OpenIndexCounted ==
  ASSUME ViewerTypes
  PROVE  openIndex \in 0..RowCount
<1>1. drawer.at \in 0..RowCount  BY DEF ViewerTypes, Drawers
<1>2. 0 \in 0..RowCount  BY CountOfRows
<1>3. Len(rows) \in 0..RowCount  BY RowsAreThere, CountOfRows
<1>4. rows # <<>> => 1 \in 0..RowCount
  <2>1. rows \in Seq(Rows)  BY DEF ViewerTypes, Within, rows
  <2>2. rows # <<>> => Len(rows) # 0  BY <2>1
  <2> QED  BY <2>2, RowsAreThere, CountOfRows
<1>5. CASE drawer.kind = "at"  BY <1>1, <1>5 DEF openIndex
<1>6. CASE drawer.kind = "first"  BY <1>2, <1>4, <1>6 DEF openIndex
<1>7. CASE drawer.kind = "last"  BY <1>3, <1>7 DEF openIndex
<1>8. CASE drawer.kind \notin {"at", "first", "last"}  BY <1>2, <1>8 DEF openIndex
<1> QED  BY <1>5, <1>6, <1>7, <1>8

(* The drawer is steered to a row that the list has. *)
LEMMA NextTyped ==
  ASSUME DrawerInv, ViewerTypes, NEW kept, GoNextRecord(kept)
  PROVE  ViewerTypes'
<1>0. query \in PagedQueries /\ query.page \in Nat \ {0} /\ Within(result) /\ aim \in Nat
  <2>1. aim \in 0..RowCount  BY DEF ViewerTypes
  <2>2. aim \in Nat  BY <2>1, CountOfRows
  <2> QED  BY <2>2, FirstPage DEF ViewerTypes
<1>1. openIndex \in 0..RowCount /\ openIndex # 0  BY OpenIndexCounted DEF GoNextRecord
<1>2. CASE openIndex < Len(rows) /\ Steer(At(openIndex + 1), query, result, Steered(aim + 1))
  <2>1. openIndex + 1 \in 0..RowCount  BY <1>1, <1>2, RowsAreThere, CountOfRows
  <2>2. At(openIndex + 1) \in Drawers  BY <2>1 DEF At, Drawers
  <2>3. Steered(aim + 1) \in 0..RowCount
    <3>1. CASE aim = 0  BY <3>1, CountOfRows DEF Steered
    <3>2. CASE aim # 0
      <4>1. rows = PageOf(query) /\ aim = openIndex + Skipped(query)  BY <1>1, <3>2, AtItsPlace
      <4>2. openIndex + 1 \in 1..Len(PageOf(query))  BY <1>1, <1>2, <4>1, RowsAreThere
      <4>3. (openIndex + 1) + Skipped(query) <= RowCount  BY <1>0, <4>2, PageWithin
      <4>4. Skipped(query) \in Nat  BY <1>0, PageTimesLength DEF Skipped
      <4>5. aim + 1 \in 0..RowCount  BY <1>1, <4>1, <4>3, <4>4, CountOfRows
      <4> QED  BY <3>2, <4>5 DEF Steered
    <3> QED  BY <3>1, <3>2
  <2> QED  BY <1>0, <1>2, <2>2, <2>3, SteerTyped
<1>3. CASE /\ openIndex >= Len(rows) /\ ~query.all /\ query.page < totalPages
           /\ Steer([kind |-> "first", at |-> 0], [query EXCEPT !.page = query.page + 1],
                    Shows([query EXCEPT !.page = query.page + 1], kept), Steered(aim + 1))
  <2> DEFINE q == [query EXCEPT !.page = query.page + 1]
  <2>1. query.page + 1 \in {1} \cup 1..RowCount  BY <1>0, <1>3, PageIsThere
  <2>2. q \in PagedQueries  BY <1>0, <2>1 DEF PagedQueries
  <2>3. Steer([kind |-> "first", at |-> 0], q, Shows(q, kept), Steered(aim + 1))  BY <1>3
  <2> HIDE DEF q
  <2>4. Within(Shows(q, kept))  BY <2>2, FirstPage, FreshWithin
  <2>5. [kind |-> "first", at |-> 0] \in Drawers  BY ClosedDrawer DEF Drawers
  <2>6. Steered(aim + 1) \in 0..RowCount
    <3>1. CASE aim = 0  BY <3>1, CountOfRows DEF Steered
    <3>2. CASE aim # 0
      <4>1. /\ openIndex \in 1..Len(rows) /\ aim = openIndex + Skipped(query)
            /\ rows = PageOf(query) /\ result.total = Len(Listing(query))
        BY <1>1, <3>2, AtItsPlace
      <4>2. Len(Listing(query)) \in Nat /\ Len(Listing(query)) <= RowCount
        BY ListingIsList, ListingWithin
      <4>3. query.page * PageLength < Len(Listing(query))
        <5>1. result.total # 0  BY <1>0, <1>3 DEF totalPages
        <5>2. query.page < (result.total + PageLength - 1) \div PageLength
          BY <1>3, <5>1 DEF totalPages
        <5> QED  BY <1>0, <4>1, <4>2, <5>2, MorePages
      <4>4. /\ query.page * PageLength \in Nat /\ (query.page - 1) * PageLength \in Nat
            /\ query.page * PageLength = (query.page - 1) * PageLength + PageLength
        BY <1>0, PageTimesLength
      <4>5. Len(rows) = PageLength  BY <1>0, <1>3, <4>1, <4>2, <4>3, <4>4, RowsOfAPage
      <4>6. aim <= query.page * PageLength
        BY <1>3, <4>1, <4>4, <4>5, ViewerAssumption DEF Skipped
      <4>7. aim + 1 \in 0..RowCount  BY <1>0, <4>2, <4>3, <4>4, <4>6, CountOfRows
      <4> QED  BY <3>2, <4>7 DEF Steered
    <3> QED  BY <3>1, <3>2
  <2> QED  BY <2>2, <2>3, <2>4, <2>5, <2>6, SteerTyped
<1> QED  BY <1>2, <1>3 DEF GoNextRecord

LEMMA PrevTyped ==
  ASSUME ViewerTypes, NEW kept, GoPrevRecord(kept)
  PROVE  ViewerTypes'
<1>0. query \in PagedQueries /\ query.page \in Nat \ {0} /\ Within(result)
  BY FirstPage DEF ViewerTypes
<1>1. openIndex \in 0..RowCount  BY OpenIndexCounted
<1>2. Steered(aim - 1) \in 0..RowCount
  <2>1. aim \in 0..RowCount  BY DEF ViewerTypes
  <2> QED  BY <2>1, CountOfRows DEF Steered
<1>3. CASE openIndex > 1 /\ Steer(At(openIndex - 1), query, result, Steered(aim - 1))
  <2>1. openIndex - 1 \in 0..RowCount  BY <1>1, <1>3, CountOfRows
  <2>2. At(openIndex - 1) \in Drawers  BY <2>1 DEF At, Drawers
  <2> QED  BY <1>0, <1>2, <1>3, <2>2, SteerTyped
<1>4. CASE /\ openIndex = 1 /\ query.page > 1
           /\ Steer([kind |-> "last", at |-> 0], [query EXCEPT !.page = query.page - 1],
                    Shows([query EXCEPT !.page = query.page - 1], kept), Steered(aim - 1))
  <2> DEFINE q == [query EXCEPT !.page = query.page - 1]
  <2>1. query.page - 1 \in {1} \cup 1..RowCount
    <3>1. query.page \in {1} \cup 1..RowCount  BY <1>0 DEF PagedQueries
    <3> QED  BY <1>4, <3>1, CountOfRows
  <2>2. q \in PagedQueries  BY <1>0, <2>1 DEF PagedQueries
  <2>3. Steer([kind |-> "last", at |-> 0], q, Shows(q, kept), Steered(aim - 1))  BY <1>4
  <2> HIDE DEF q
  <2>4. Within(Shows(q, kept))  BY <2>2, FirstPage, FreshWithin
  <2>5. [kind |-> "last", at |-> 0] \in Drawers  BY ClosedDrawer DEF Drawers
  <2> QED  BY <1>2, <2>2, <2>3, <2>4, <2>5, SteerTyped
<1> QED  BY <1>3, <1>4 DEF GoPrevRecord

LEMMA StatusesSent == Statuses \subseteq RowStatus /\ Rejected \in RowStatus
BY ViewerAssumption DEF RowStatus, Rejected

LEMMA PersonDrawerTyped ==
  ASSUME DrawerInv, ViewerTypes, NEW kept, PersonDrawer(kept)
  PROVE  ViewerTypes'
<1>1. CASE CloseDetail
  <2>1. query \in PagedQueries /\ Within(result)  BY DEF ViewerTypes
  <2> QED  BY <1>1, <2>1, ClosedDrawer, SteerTyped DEF CloseDetail
<1>2. detailShown => rows[openIndex] \in Rows  BY RowsAreThere DEF detailShown
<1>3. CASE detailShown /\ ToggleOne(rows[openIndex])
  <2>1. PICK ids \in {selected \ {rows[openIndex]}, selected \cup {rows[openIndex]}} : Tick(ids)
    BY <1>3 DEF ToggleOne
  <2> QED  BY <1>2, <1>3, <2>1, TickKeeps DEF ViewerTypes
<1>4. ASSUME NEW to \in Statuses, detailShown, SetStatusOf(rows[openIndex], to)  PROVE ViewerTypes'
  <2>1. {rows[openIndex]} \subseteq Rows /\ to \in RowStatus  BY <1>2, <1>4, StatusesSent
  <2>2. Send("status", {rows[openIndex]}, to) /\ "status" \in Kinds  BY <1>4 DEF SetStatusOf, Kinds
  <2> QED  BY <2>1, <2>2, SendTyped
<1> QED  BY <1>1, <1>3, <1>4, NextTyped, PrevTyped DEF PersonDrawer

LEMMA TeamsTyped ==
  ASSUME ViewerTypes, TeamsGrid \/ TeamDrawer
  PROVE  ViewerTypes'
<1>1. /\ result.teams \in Seq(SUBSET Rows) /\ Len(result.teams) \in Nat
      /\ Len(result.teams) <= RowCount
  BY DEF ViewerTypes, Within
<1>2. \A i \in DOMAIN result.teams : i \in 0..RowCount /\ result.teams[i] \subseteq Rows
  BY <1>1, CountOfRows
<1>3. UNION ToSet(result.teams) \subseteq Rows  BY <1>1 DEF ToSet
<1>4. selected \subseteq Rows  BY DEF ViewerTypes
<1>5. CASE ToggleAllTeams
  <2>1. PICK ids \in {{}, selected \cup UNION ToSet(result.teams)} : Tick(ids)
    BY <1>5 DEF ToggleAllTeams
  <2> QED  BY <1>3, <1>4, <2>1, TickKeeps
<1>6. ASSUME NEW i \in DOMAIN result.teams, ToggleTeam(result.teams[i])  PROVE ViewerTypes'
  <2>1. PICK ids \in {selected \ result.teams[i], selected \cup result.teams[i]} : Tick(ids)
    BY <1>6 DEF ToggleTeam
  <2> QED  BY <1>2, <1>4, <2>1, TickKeeps
<1>7. ASSUME NEW i \in {0} \cup DOMAIN result.teams, ShowTeam(i)  PROVE ViewerTypes'
  <2>1. i \in 0..RowCount  BY <1>2, CountOfRows
  <2> QED  BY <1>7, <2>1, ShowTeamTyped
<1>8. CASE TeamsGrid  BY <1>5, <1>6, <1>7, <1>8 DEF TeamsGrid
<1>9. CASE TeamDrawer
  <2>1. openTeam \in DOMAIN result.teams  BY <1>1, <1>9 DEF TeamDrawer, teamOpen
  <2>2. ASSUME NEW to \in Statuses, TeamStatus(result.teams[openTeam], to)  PROVE ViewerTypes'
    <3>1. Send("team", result.teams[openTeam], to)  BY <2>2 DEF TeamStatus
    <3>2. "team" \in Kinds /\ to \in RowStatus /\ result.teams[openTeam] \subseteq Rows
      BY <1>2, <2>1, <2>2, StatusesSent DEF Kinds
    <3> QED  BY <3>1, <3>2, SendTyped
  <2> QED  BY <1>6, <1>7, <1>9, <2>1, <2>2 DEF TeamDrawer
<1> QED  BY <1>8, <1>9

LEMMA DialogsTyped ==
  ASSUME ViewerTypes,
         \/ BulkBar \/ ReminderDialog \/ WhatsappDialog \/ RejectionDialog \/ WindowClosedDialog
         \/ TeamMessageDialog \/ ImportDialog \/ DeleteDialog
  PROVE  ViewerTypes'
<1>1. selected \subseteq Rows /\ {} \subseteq Rows  BY DEF ViewerTypes
<1>2. "pending" \in RowStatus  BY DEF RowStatus
<1>3. ASSUME NEW to \in Statuses, BulkUpdate(to)  PROVE ViewerTypes'
  <2>1. Send("bulk", selected, to) /\ "bulk" \in Kinds  BY <1>3 DEF BulkUpdate, Kinds
  <2> QED  BY <1>1, <1>3, <2>1, StatusesSent, SendTyped
<1>4. CASE RequestDeposit
  <2>1. Send("deposit", {}, "pending") /\ "deposit" \in Kinds  BY <1>4 DEF RequestDeposit, Kinds
  <2> QED  BY <1>1, <1>2, <2>1, SendTyped
<1>5. ASSUME NEW kind \in Mailings \cup {"teams", "none"}, Dialog(kind, 0)  PROVE ViewerTypes'
  <2>1. kind \in Dialogs \cup {"none"} /\ kind # "delete"  BY DEF Dialogs, Mailings
  <2> QED  BY <1>5, <2>1, DialogTyped
<1>6. CASE Tick({})  BY <1>1, <1>6, TickKeeps
<1>7. CASE BulkBar  BY <1>3, <1>4, <1>5, <1>6, <1>7 DEF BulkBar
<1>8. CASE Cancel  BY <1>5, <1>8 DEF Cancel
<1>9. ASSUME NEW alsoReject, SendMailing(alsoReject), dialog.kind \in Mailings  PROVE ViewerTypes'
  <2>1. PICK ids \in {{}, selected} : Send(dialog.kind, ids, Rejected)  BY <1>9 DEF SendMailing
  <2>2. dialog.kind \in Kinds  BY <1>9 DEF Kinds, Dialogs
  <2> QED  BY <1>1, <2>1, <2>2, StatusesSent, SendTyped
<1>10. CASE ReminderDialog \/ WhatsappDialog \/ RejectionDialog \/ WindowClosedDialog
  BY <1>8, <1>9, <1>10 DEF ReminderDialog, WhatsappDialog, RejectionDialog, WindowClosedDialog, Mailings
<1>11. CASE TeamMessageDialog
  <2>1. CASE SendTeamMessage
    <3>1. Send("teams", {}, "pending") /\ "teams" \in Kinds
      BY <2>1 DEF SendTeamMessage, Kinds, Dialogs
    <3> QED  BY <1>1, <1>2, <3>1, SendTyped
  <2> QED  BY <1>8, <1>11, <2>1 DEF TeamMessageDialog
<1>12. CASE ImportDialog
  <2>1. ASSUME NEW ids \in SUBSET Rows, NEW to \in Statuses, ImportCsv(ids, to)  PROVE ViewerTypes'
    <3>1. Send("import", ids, to) /\ "import" \in Kinds  BY <2>1 DEF ImportCsv, Kinds, Dialogs
    <3> QED  BY <3>1, StatusesSent, SendTyped
  <2> QED  BY <1>8, <1>12, <2>1 DEF ImportDialog
<1>13. CASE DeleteDialog
  <2>1. CASE ConfirmDelete
    <3>1. {dialog.target} \subseteq Rows  BY <1>13 DEF DeleteDialog, ViewerTypes, DialogFits
    <3>2. Send("delete", {dialog.target}, "pending") /\ "delete" \in Kinds
      BY <2>1 DEF ConfirmDelete, Kinds, Dialogs
    <3> QED  BY <1>2, <3>1, <3>2, SendTyped
  <2> QED  BY <1>8, <1>13, <2>1 DEF DeleteDialog
<1> QED  BY <1>7, <1>10, <1>11, <1>12, <1>13

LEMMA AnswersTyped ==
  ASSUME ViewerTypes, Fetched \/ FetchFails \/ \E q \in requests, ok \in BOOLEAN : Answered(q, ok)
  PROVE  ViewerTypes'
<1>0. /\ query \in PagedQueries /\ query.page \in Nat \ {0} /\ drawer \in Drawers
      /\ aim \in 0..RowCount /\ 0 \in 0..RowCount
  <2>1. query \in PagedQueries /\ drawer \in Drawers /\ aim \in 0..RowCount  BY DEF ViewerTypes
  <2>2. 0 \in 0..RowCount  BY CountOfRows
  <2>3. query.page \in Nat \ {0}  BY <2>1, FirstPage
  <2> QED  BY <2>1, <2>2, <2>3
<1>1. ASSUME NEW res, Within(res), Show(res)  PROVE ViewerTypes'
  <2>1. /\ query' = query /\ result' = res /\ selected' = selected /\ drawer' = drawer
        /\ seen' = seen \cup ShownIn(query, res) /\ aim' \in {0, aim}
        /\ UNCHANGED <<table, openTeam, dialog, requests>>
    BY <1>1 DEF Show
  <2> QED  BY <1>0, <1>1, <2>1, LookKeeps
<1>2. CASE Fetched  BY <1>0, <1>1, <1>2, FreshWithin DEF Fetched
<1>3. CASE FetchFails
  <2> DEFINE none == [Loading EXCEPT !.loading = FALSE]
  <2>1. /\ result' = none /\ query' = query /\ selected' = selected /\ drawer' = drawer
        /\ seen' = seen /\ aim' = 0 /\ UNCHANGED <<table, openTeam, dialog, requests>>
    BY <1>3 DEF FetchFails
  <2>2. Within(none)  BY LoadingWithin
  <2> HIDE DEF none
  <2> QED  BY <1>0, <2>1, <2>2, LookKeeps
<1>4. ASSUME NEW q \in requests, NEW ok \in BOOLEAN, Answered(q, ok)  PROVE ViewerTypes'
  <2>1. q.to \in RowStatus  BY DEF ViewerTypes, RequestsFit
  <2>2. table' \in [Rows -> RowStates]
    <3>1. \A r \in Rows : table[r].status \in RowStatus  BY DEF ViewerTypes, RowStates
    <3>2. Stored(q) \in [Rows -> RowStates]
      BY <2>1, <3>1 DEF Stored, ViewerTypes, RowStates
    <3> QED  BY <1>4, <3>2 DEF Answered, ViewerTypes
  <2>3. selected' \subseteq Rows
    <3>1. selected' \subseteq selected  BY <1>4 DEF Answered
    <3> QED  BY <3>1 DEF ViewerTypes
  <2>4. DialogFits'
    <3>1. dialog' \in {NoDialog, dialog}  BY <1>4 DEF Answered
    <3>2. NoDialog \in Targets /\ NoDialog.kind # "delete"  BY DEF NoDialog, Targets
    <3> QED  BY <3>1, <3>2 DEF DialogFits, ViewerTypes
  <2>5. requests' \subseteq requests  BY <1>4 DEF Answered
  <2>6. RequestsFit'  BY <2>5 DEF RequestsFit, ViewerTypes
  <2>7. UNCHANGED <<query, result, drawer, openTeam, seen>> /\ aim' \in {0, aim}
    BY <1>4 DEF Answered
  <2>8. Within(result)'  BY <2>7 DEF ViewerTypes, Within
  <2> QED  BY <1>0, <2>2, <2>3, <2>4, <2>6, <2>7, <2>8 DEF ViewerTypes
<1> QED  BY <1>2, <1>3, <1>4

LEMMA ViewerStart == ViewerInit => ViewerTypes
<1> SUFFICES ASSUME ViewerInit PROVE ViewerTypes  OBVIOUS
<1>1. table \in [Rows -> RowStates]  BY DEF ViewerInit, RowStates, RowStatus
<1>2. query \in PagedQueries  BY ViewerAssumption DEF ViewerInit, PagedQueries
<1>3. Within(result)
  <2>1. query.page \in Nat \ {0}  BY <1>2, FirstPage
  <2> QED  BY <2>1, FreshWithin DEF ViewerInit
<1>4. DialogFits /\ RequestsFit
  BY DEF ViewerInit, NoDialog, DialogFits, RequestsFit, Targets
<1> QED  BY <1>1, <1>2, <1>3, <1>4, ClosedDrawer DEF ViewerInit, ViewerTypes

LEMMA ViewerStep == DrawerInv /\ ViewerTypes /\ [ViewerNext]_viewerVars => ViewerTypes'
<1> SUFFICES ASSUME DrawerInv, ViewerTypes, [ViewerNext]_viewerVars PROVE ViewerTypes'  OBVIOUS
<1>1. CASE UNCHANGED viewerVars
  BY <1>1, ActKeeps DEF viewerVars, ViewerTypes, DialogFits, RequestsFit
<1>2. CASE ViewerNext
  BY <1>2, HeadTyped, TableTyped, PersonDrawerTyped, TeamsTyped, DialogsTyped, AnswersTyped
    DEF ViewerNext
<1> QED  BY <1>1, <1>2

(* The state of the Registrations page is well typed for tables and pages of *)
(* any size: what is shown, ticked and sent are rows of the table, the page  *)
(* is one there are rows for, and the drawer and what it is steered to stay  *)
(* within them.                                                             *)
THEOREM ViewerTyped ==
  ViewerInit /\ [][ViewerNext]_viewerVars => []ViewerTypeOK
<1>1. ViewerTypes => ViewerTypeOK
  <2> SUFFICES ASSUME ViewerTypes PROVE ViewerTypeOK  OBVIOUS
  <2>1. DOMAIN result = DOMAIN Loading /\ result.total <= Cardinality(Rows)
    <3>1. result.total \in 0..RowCount  BY DEF ViewerTypes, Within
    <3>2. result.total <= RowCount  BY <3>1, CountOfRows
    <3> QED  BY <3>2 DEF ViewerTypes, Within, RowCount
  <2> QED
    BY <2>1 DEF ViewerTypes, ViewerTypeOK, PagedQueries, Drawers, DialogFits, Targets, RequestsFit, RowCount
<1> QED  BY <1>1, ViewerStart, ViewerStep, DrawerStart, DrawerStep, PTL

-----------------------------------------------------------------------------
(* The public forms. *)

(* What the rules look at in a card. *)
CardIsWhole(c) ==
  /\ DOMAIN c = DOMAIN EmptyCard(0)
  /\ c.email \in {"", "odd"} \cup Emails /\ c.cnic \in {"", "half", "ok"} /\ c.text \in Lengths

TeamAnswers == [hasIdea : {"", "yes", "no"}, idea : Lengths]

(* There is no issue but of a card, and each is where its card is. *)
Matched(ms, es) ==
  /\ ms \in Seq(ToSet(ms)) /\ es \in Seq(ToSet(es)) /\ Len(es) <= Len(ms)
  /\ \A i \in DOMAIN ms : CardIsWhole(ms[i])
  /\ \A i \in DOMAIN es : i \in DOMAIN ms => es[i] \in {0, ms[i].key}

FormInv == CardIsWhole(form) /\ team \in TeamAnswers /\ Matched(members, errors)

LEMMA NewForm ==
  ASSUME NEW c, CardIsWhole(c), NEW t \in TeamAnswers, NEW ms, NEW es, Matched(ms, es),
         form' = c, team' = t, members' = ms, errors' = es
  PROVE  FormInv'
<1>1. CardIsWhole(form)'  BY DEF CardIsWhole
<1>2. Matched(members, errors)'  BY DEF Matched, CardIsWhole
<1> QED  BY <1>1, <1>2 DEF FormInv, TeamAnswers, Lengths

LEMMA EmptyIsWhole == \A key : CardIsWhole(EmptyCard(key))
BY DEF CardIsWhole, EmptyCard, Lengths

LEMMA NothingAsked == EmptyTeam \in TeamAnswers /\ Matched(<<>>, <<>>)
<1>1. ToSet(<<>>) = {} /\ <<>> \in Seq({}) /\ Len(<<>>) = 0 /\ DOMAIN <<>> = {}  BY DEF ToSet
<1> QED  BY <1>1 DEF EmptyTeam, TeamAnswers, Lengths, Matched

LEMMA NewMembers == Matched([i \in 1..MinSize |-> EmptyCard(i)], <<>>)
<1> DEFINE ms == [i \in 1..MinSize |-> EmptyCard(i)]
<1>1. MinSize \in Nat  BY FormsAssumption
<1>2. /\ DOMAIN ms = 1..MinSize /\ \A i \in DOMAIN ms : CardIsWhole(ms[i])
      /\ ms = [i \in 1..MinSize |-> ms[i]]
  BY EmptyIsWhole
<1> HIDE DEF ms
<1>3. ms \in Seq(ToSet(ms)) /\ Len(ms) = MinSize  BY <1>1, <1>2, ListOfLength
<1>4. ToSet(<<>>) = {} /\ <<>> \in Seq({}) /\ Len(<<>>) = 0 /\ DOMAIN <<>> = {}  BY DEF ToSet
<1>5. Matched(ms, <<>>)  BY <1>1, <1>2, <1>3, <1>4 DEF Matched
<1> QED  BY <1>5 DEF ms

LEMMA WholeExcept ==
  ASSUME NEW c, CardIsWhole(c), NEW x
  PROVE  /\ \A e \in {"", "odd"} \cup Emails : CardIsWhole([c EXCEPT !.email = e])
         /\ \A n \in {"", "half", "ok"} : CardIsWhole([c EXCEPT !.cnic = n])
         /\ \A l \in Lengths : CardIsWhole([c EXCEPT !.text = l])
         /\ CardIsWhole([c EXCEPT !.choice = x]) /\ CardIsWhole([c EXCEPT !.primary = x])
         /\ \A y : CardIsWhole([c EXCEPT !.skills = y, !.primary = x])
         /\ CardIsWhole([c EXCEPT !.key = x]) /\ [c EXCEPT !.key = x].key = x
BY DEF CardIsWhole, EmptyCard

(* A render shows the form of a team anew, hides it or leaves it as it is.   *)
LEMMA RenderKeeps ==
  ASSUME FormInv, NEW e, NEW m, Render(e, m), form' = form
  PROVE  FormInv'
<1> USE DEF FormInv
<1>1. CASE UNCHANGED <<members, team, errors>>  BY <1>1, NewForm
<1>2. CASE members' = <<>> /\ errors' = <<>> /\ team' = EmptyTeam
  BY <1>2, NothingAsked, NewForm
<1>3. CASE members' = [i \in 1..MinSize |-> EmptyCard(i)] /\ errors' = <<>> /\ team' = EmptyTeam
  BY <1>3, NothingAsked, NewMembers, NewForm
<1> QED  BY <1>1, <1>2, <1>3 DEF Render

LEMMA FillKeeps ==
  ASSUME FormInv, NEW c, CardIsWhole(c), Fill(c)
  PROVE  FormInv'
BY NewForm DEF FormInv, Fill

LEMMA SameAnswersKeep ==
  ASSUME FormInv, UNCHANGED <<form, members, team, errors>>
  PROVE  FormInv'
BY NewForm DEF FormInv

LEMMA RegisteredKeeps ==
  ASSUME FormInv,
         \/ form' = EmptyCard(0) /\ members' = <<>> /\ team' = EmptyTeam /\ errors' = <<>>
         \/ UNCHANGED formVars
  PROVE  FormInv'
<1>1. CASE form' = EmptyCard(0) /\ members' = <<>> /\ team' = EmptyTeam /\ errors' = <<>>
  BY <1>1, EmptyIsWhole, NothingAsked, NewForm
<1>2. CASE UNCHANGED formVars  BY <1>2, SameAnswersKeep DEF formVars
<1> QED  BY <1>1, <1>2

LEMMA ToggleSkillWhole ==
  ASSUME NEW c, CardIsWhole(c), NEW s
  PROVE  CardIsWhole(ToggleSkill(c, s))
<1>1. PICK x, y : ToggleSkill(c, s) \in {c, [c EXCEPT !.skills = y, !.primary = x]}
  BY DEF ToggleSkill
<1>2. CardIsWhole([c EXCEPT !.skills = y, !.primary = x])  BY WholeExcept
<1> QED  BY <1>1, <1>2

LEMMA PersonFormKeeps ==
  ASSUME FormInv, Form
  PROVE  FormInv'
<1>1. CardIsWhole(form)  BY DEF FormInv
<1>2. CASE ChooseMode("")  BY <1>2, RenderKeeps DEF ChooseMode
<1>3. CASE AttendeeFields  BY <1>1, <1>3, WholeExcept, FillKeeps DEF AttendeeFields
<1>4. CASE ChoiceFields  BY <1>1, <1>4, WholeExcept, FillKeeps DEF ChoiceFields
<1>5. CASE MotivationField  BY <1>1, <1>5, WholeExcept, FillKeeps DEF MotivationField
<1>6. CASE ExperienceFields
  BY <1>1, <1>6, WholeExcept, ToggleSkillWhole, FillKeeps DEF ExperienceFields
<1>7. CASE SubmitForm
  BY <1>7, RegisteredKeeps, SameAnswersKeep DEF SubmitForm, Registered
<1> QED  BY <1>2, <1>3, <1>4, <1>5, <1>6, <1>7 DEF Form

LEMMA RemoveAtShifts ==
  ASSUME NEW s, s \in Seq(ToSet(s)), NEW i \in 1..Len(s)
  PROVE  /\ RemoveAt(s, i) \in Seq(ToSet(RemoveAt(s, i)))
         /\ Len(RemoveAt(s, i)) = Len(s) - 1
         /\ \A j \in 1..Len(s) - 1 : RemoveAt(s, i)[j] = IF j < i THEN s[j] ELSE s[j + 1]
<1> DEFINE front == SubSeq(s, 1, i - 1)
           back == SubSeq(s, i + 1, Len(s))
<1>1. Len(s) \in Nat /\ Len(s) - 1 \in Nat  OBVIOUS
<1>2. front \in Seq(ToSet(s)) /\ Len(front) = i - 1 /\ \A j \in 1..i - 1 : front[j] = s[j]
  OBVIOUS
<1>3. /\ back \in Seq(ToSet(s)) /\ Len(back) = Len(s) - i
      /\ \A j \in 1..Len(s) - i : back[j] = s[j + i]
  OBVIOUS
<1>4. RemoveAt(s, i) = front \o back  BY DEF RemoveAt
<1> HIDE DEF front, back
<1>5. Len(RemoveAt(s, i)) = Len(s) - 1 /\ RemoveAt(s, i) \in Seq(ToSet(s))
  BY <1>1, <1>2, <1>3, <1>4
<1>6. ASSUME NEW j \in 1..Len(s) - 1
      PROVE  RemoveAt(s, i)[j] = IF j < i THEN s[j] ELSE s[j + 1]
  <2>1. CASE j < i  BY <1>2, <1>3, <1>4, <2>1
  <2>2. CASE i <= j
    <3>1. (front \o back)[j] = back[j - (i - 1)]  BY <1>1, <1>2, <1>3, <2>2
    <3>2. j - (i - 1) \in 1..Len(s) - i /\ j - (i - 1) + i = j + 1  BY <1>1, <2>2
    <3> QED  BY <1>3, <1>4, <2>2, <3>1, <3>2
  <2> QED  BY <2>1, <2>2
<1>7. RemoveAt(s, i) = [j \in 1..Len(s) - 1 |-> RemoveAt(s, i)[j]]  BY <1>1, <1>5
<1> QED  BY <1>1, <1>5, <1>6, <1>7, ListOfLength

(* A card is removed, and with it the issue at its place. *)
LEMMA RemovedTogether ==
  ASSUME NEW ms, NEW es, Matched(ms, es), NEW i \in DOMAIN ms
  PROVE  Matched(RemoveAt(ms, i), IF i \in DOMAIN es THEN RemoveAt(es, i) ELSE es)
<1>1. /\ ms \in Seq(ToSet(ms)) /\ es \in Seq(ToSet(es)) /\ Len(es) <= Len(ms)
      /\ i \in 1..Len(ms) /\ Len(ms) \in Nat /\ Len(es) \in Nat
      /\ DOMAIN ms = 1..Len(ms) /\ DOMAIN es = 1..Len(es)
      /\ \A j \in 1..Len(ms) : CardIsWhole(ms[j])
      /\ \A j \in 1..Len(es) : es[j] \in {0, ms[j].key}
  <2>1. /\ ms \in Seq(ToSet(ms)) /\ es \in Seq(ToSet(es)) /\ Len(es) <= Len(ms)
        /\ \A j \in DOMAIN ms : CardIsWhole(ms[j])
        /\ \A j \in DOMAIN es : j \in DOMAIN ms => es[j] \in {0, ms[j].key}
    BY DEF Matched
  <2>2. DOMAIN ms = 1..Len(ms) /\ DOMAIN es = 1..Len(es) /\ Len(ms) \in Nat /\ Len(es) \in Nat
    BY <2>1
  <2> QED  BY <2>1, <2>2
<1> DEFINE m == RemoveAt(ms, i)
           e == IF i \in DOMAIN es THEN RemoveAt(es, i) ELSE es
<1>2. /\ m \in Seq(ToSet(m)) /\ Len(m) = Len(ms) - 1
      /\ \A j \in 1..Len(ms) - 1 : m[j] = IF j < i THEN ms[j] ELSE ms[j + 1]
  BY <1>1, RemoveAtShifts
<1>3. PICK n \in Nat :
        /\ e \in Seq(ToSet(e)) /\ Len(e) = n /\ n < Len(ms)
        /\ \A j \in 1..n : (j < i => j \in 1..Len(es) /\ e[j] = es[j])
                         /\ (i <= j => j + 1 \in 1..Len(es) /\ e[j] = es[j + 1])
  <2>1. CASE i \in DOMAIN es
    <3>1. e = RemoveAt(es, i) /\ i \in 1..Len(es) /\ Len(es) - 1 \in Nat  BY <1>1, <2>1
    <3> HIDE DEF e
    <3>2. /\ e \in Seq(ToSet(e)) /\ Len(e) = Len(es) - 1
          /\ \A j \in 1..Len(es) - 1 : e[j] = IF j < i THEN es[j] ELSE es[j + 1]
      BY <1>1, <3>1, RemoveAtShifts
    <3>3. Len(es) - 1 < Len(ms)  BY <1>1
    <3>4. ASSUME NEW j \in 1..Len(es) - 1
          PROVE  /\ j < i => j \in 1..Len(es) /\ e[j] = es[j]
                 /\ i <= j => j + 1 \in 1..Len(es) /\ e[j] = es[j + 1]
      <4>1. j \in Nat /\ i \in Nat /\ j \in 1..Len(es) /\ j + 1 \in 1..Len(es)  BY <1>1
      <4>2. e[j] = IF j < i THEN es[j] ELSE es[j + 1]  BY <3>2
      <4>3. i <= j => ~(j < i)  BY <4>1
      <4> QED  BY <4>1, <4>2, <4>3
    <3> QED  BY <3>1, <3>2, <3>3, <3>4
  <2>2. CASE i \notin DOMAIN es
    <3>1. e = es /\ Len(es) < i  BY <1>1, <2>2
    <3>2. Len(es) < Len(ms) /\ \A j \in 1..Len(es) : j < i /\ ~(i <= j)  BY <1>1, <3>1
    <3> HIDE DEF e
    <3>3. Len(e) = Len(es) /\ e \in Seq(ToSet(e))  BY <1>1, <3>1
    <3> QED  BY <1>1, <3>1, <3>2, <3>3
  <2> QED  BY <2>1, <2>2
<1> HIDE DEF m, e
<1>4. DOMAIN m = 1..Len(ms) - 1 /\ DOMAIN e = 1..n /\ n <= Len(m)  BY <1>1, <1>2, <1>3
<1>5. \A j \in DOMAIN m : CardIsWhole(m[j])
  <2> TAKE j \in DOMAIN m
  <2>1. j \in 1..Len(ms) /\ j + 1 \in 1..Len(ms) /\ j \in 1..Len(ms) - 1  BY <1>1, <1>4
  <2> QED  BY <1>1, <1>2, <2>1
<1>6. \A j \in DOMAIN e : e[j] \in {0, m[j].key}
  <2> TAKE j \in DOMAIN e
  <2>1. j \in 1..n /\ j \in 1..Len(ms) - 1 /\ j \in Int /\ i \in Int  BY <1>1, <1>2, <1>3, <1>4
  <2>2. CASE j < i
    <3>1. j \in 1..Len(es) /\ e[j] = es[j] /\ m[j] = ms[j]  BY <1>2, <1>3, <2>1, <2>2
    <3> QED  BY <1>1, <3>1
  <2>3. CASE i <= j
    <3>1. j + 1 \in 1..Len(es) /\ e[j] = es[j + 1] /\ m[j] = ms[j + 1]  BY <1>2, <1>3, <2>1, <2>3
    <3> QED  BY <1>1, <3>1
  <2> QED  BY <2>1, <2>2, <2>3
<1>7. Matched(m, e)  BY <1>2, <1>3, <1>4, <1>5, <1>6 DEF Matched
<1> QED  BY <1>7 DEF m, e

(* A card is added behind the others; whatever key it gets. *)
LEMMA AddedBehind ==
  ASSUME NEW ms, NEW es, Matched(ms, es), NEW key
  PROVE  Matched(Append(ms, EmptyCard(key)), es)
<1> DEFINE m == Append(ms, EmptyCard(key))
<1>1. /\ ms \in Seq(ToSet(ms)) /\ es \in Seq(ToSet(es)) /\ Len(es) <= Len(ms)
      /\ \A i \in DOMAIN ms : CardIsWhole(ms[i])
      /\ \A i \in DOMAIN es : i \in DOMAIN ms => es[i] \in {0, ms[i].key}
  BY DEF Matched
<1>2. /\ Len(ms) \in Nat /\ Len(m) = Len(ms) + 1 /\ DOMAIN m = 1..Len(ms) + 1
      /\ m = [i \in 1..Len(ms) + 1 |-> m[i]]
      /\ \A i \in 1..Len(ms) + 1 : m[i] = IF i <= Len(ms) THEN ms[i] ELSE EmptyCard(key)
  <2> DEFINE all == ToSet(ms) \cup {EmptyCard(key)}
             added == EmptyCard(key)
  <2>1. \A i \in 1..Len(ms) : ms[i] \in all  BY <1>1 DEF ToSet
  <2>2. ms \in Seq(all) /\ added \in all
    <3>1. ms = [i \in 1..Len(ms) |-> ms[i]] /\ Len(ms) \in Nat  BY <1>1
    <3> HIDE DEF all
    <3>2. ms \in Seq(all)  BY <2>1, <3>1
    <3> QED  BY <3>2 DEF all
  <2> HIDE DEF all, added
  <2>3. /\ Append(ms, added) \in Seq(all) /\ Len(Append(ms, added)) = Len(ms) + 1
        /\ \A i \in 1..Len(ms) + 1 : Append(ms, added)[i] = IF i <= Len(ms) THEN ms[i] ELSE added
    BY <2>2
  <2>4. Len(ms) \in Nat  BY <2>2
  <2>5. m = Append(ms, added)  BY DEF added
  <2> HIDE DEF m
  <2>6. m \in Seq(all) /\ Len(m) = Len(ms) + 1 /\ Len(ms) + 1 \in Nat  BY <2>3, <2>4, <2>5
  <2>7. DOMAIN m = 1..Len(ms) + 1 /\ m = [i \in 1..Len(ms) + 1 |-> m[i]]  BY <2>6
  <2> QED  BY <2>3, <2>4, <2>5, <2>6, <2>7 DEF added
<1> HIDE DEF m
<1>3. m \in Seq(ToSet(m))  BY <1>2, ListOfLength
<1>4. \A i \in DOMAIN m : CardIsWhole(m[i])  BY <1>1, <1>2, EmptyIsWhole
<1>5. \A i \in DOMAIN es : i \in DOMAIN ms /\ m[i] = ms[i]  BY <1>1, <1>2
<1>6. Matched(m, es)  BY <1>1, <1>2, <1>3, <1>4, <1>5 DEF Matched
<1> QED  BY <1>6 DEF m

(* A card is typed into; it keeps its key. *)
LEMMA TypedInPlace ==
  ASSUME NEW ms, NEW es, Matched(ms, es), NEW i \in DOMAIN ms, NEW c \in TypedCards
  PROVE  Matched([ms EXCEPT ![i] = [c EXCEPT !.key = ms[i].key]], es)
<1> DEFINE typed == [c EXCEPT !.key = ms[i].key]
           m == [ms EXCEPT ![i] = typed]
<1>1. CardIsWhole(c)  BY FormsAssumption DEF CardTypeOK, CardIsWhole
<1>2. CardIsWhole(typed) /\ typed.key = ms[i].key  BY <1>1, WholeExcept
<1>3. /\ ms \in Seq(ToSet(ms)) /\ es \in Seq(ToSet(es)) /\ Len(es) <= Len(ms)
      /\ \A j \in DOMAIN ms : CardIsWhole(ms[j])
      /\ \A j \in DOMAIN es : j \in DOMAIN ms => es[j] \in {0, ms[j].key}
  BY DEF Matched
<1> HIDE DEF typed
<1>4. /\ Len(ms) \in Nat /\ Len(m) = Len(ms) /\ DOMAIN m = DOMAIN ms
      /\ m = [j \in 1..Len(ms) |-> m[j]]
      /\ \A j \in DOMAIN ms : m[j] = IF j = i THEN typed ELSE ms[j]
  BY <1>3
<1> HIDE DEF m
<1>5. m \in Seq(ToSet(m))  BY <1>4, ListOfLength
<1>6. Matched(m, es)  BY <1>2, <1>3, <1>4, <1>5 DEF Matched
<1> QED  BY <1>6 DEF m, typed

LEMMA RetypeKeeps ==
  ASSUME FormInv, NEW ms, NEW es, Matched(ms, es), Retype(ms, es)
  PROVE  FormInv'
BY NewForm DEF FormInv, Retype

(* The issues that a submission finds are those of the cards there are. *)
LEMMA FlagsMatch ==
  ASSUME NEW ms, NEW es, Matched(ms, es), NEW flags, DOMAIN flags = DOMAIN ms,
         flags = [i \in DOMAIN flags |-> flags[i]],
         \A i \in DOMAIN ms : flags[i] \in {0, ms[i].key}
  PROVE  Matched(ms, flags)
<1>1. /\ ms \in Seq(ToSet(ms)) /\ \A i \in DOMAIN ms : CardIsWhole(ms[i])
  BY DEF Matched
<1>2. Len(ms) \in Nat /\ DOMAIN ms = 1..Len(ms)  BY <1>1
<1>3. flags \in Seq(ToSet(flags)) /\ Len(flags) = Len(ms)  BY <1>2, ListOfLength
<1> QED  BY <1>1, <1>2, <1>3 DEF Matched

LEMMA SubmitTeamKeeps ==
  ASSUME FormInv, SubmitTeam
  PROVE  FormInv'
<1> DEFINE flags == [i \in DOMAIN members |-> IF Flagged(i) THEN members[i].key ELSE 0]
<1>1. Matched(members, errors)  BY DEF FormInv
<1>2. Matched(members, flags)
  <2>1. /\ DOMAIN flags = DOMAIN members /\ flags = [i \in DOMAIN flags |-> flags[i]]
        /\ \A i \in DOMAIN members : flags[i] \in {0, members[i].key}
    OBVIOUS
  <2> HIDE DEF flags
  <2> QED  BY <1>1, <2>1, FlagsMatch
<1>3. \/ form' = EmptyCard(0) /\ members' = <<>> /\ team' = EmptyTeam /\ errors' = <<>>
      \/ UNCHANGED formVars
      \/ Retype(members, flags)
  BY DEF SubmitTeam, Registered
<1> HIDE DEF flags
<1> QED  BY <1>2, <1>3, RetypeKeeps, RegisteredKeeps

LEMMA TeamFormKeeps ==
  ASSUME FormInv, TeamForm
  PROVE  FormInv'
<1>1. Matched(members, errors) /\ CardIsWhole(form) /\ team \in TeamAnswers  BY DEF FormInv
<1>2. CASE ChooseMode("")  BY <1>2, RenderKeeps DEF ChooseMode
<1>3. CASE TeamDetails
  <2>1. team' \in TeamAnswers  BY <1>1, <1>3 DEF TeamDetails, TeamAnswers
  <2> QED  BY <1>1, <1>3, <2>1, NewForm DEF TeamDetails
<1>4. CASE AddMember
  <2>1. Retype(Append(members, EmptyCard(FreshKey)), errors)  BY <1>4 DEF AddMember
  <2> QED  BY <1>1, <2>1, AddedBehind, RetypeKeeps
<1>5. ASSUME NEW i \in DOMAIN members, MemberCard(i)  PROVE FormInv'
  <2>1. PICK c \in TypedCards : Retype([members EXCEPT ![i] = [c EXCEPT !.key = members[i].key]], errors)
    BY <1>5 DEF MemberCard
  <2> QED  BY <1>1, <2>1, TypedInPlace, RetypeKeeps
<1>6. ASSUME NEW i \in DOMAIN members, RemoveMember(i)  PROVE FormInv'
  <2>1. Retype(RemoveAt(members, i), IF i \in DOMAIN errors THEN RemoveAt(errors, i) ELSE errors)
    BY <1>6 DEF RemoveMember
  <2> QED  BY <1>1, <2>1, RemovedTogether, RetypeKeeps
<1> QED  BY <1>2, <1>3, <1>4, <1>5, <1>6, SubmitTeamKeeps DEF TeamForm

LEMMA FormStart == FormInit => FormInv
BY EmptyIsWhole, NothingAsked DEF FormInit, FormInv

LEMMA FormStep == FormInv /\ [FormsNext]_formVars => FormInv'
<1> SUFFICES ASSUME FormInv, [FormsNext]_formVars PROVE FormInv'  OBVIOUS
<1>1. CASE UNCHANGED formVars  BY <1>1, SameAnswersKeep DEF formVars
<1>2. ASSUME NEW e, EditEvent(e)  PROVE FormInv'  BY <1>2, SameAnswersKeep DEF EditEvent
<1>3. CASE RefetchEvent  BY <1>3, RenderKeeps DEF RefetchEvent
<1>4. ASSUME NEW m, ChooseMode(m)  PROVE FormInv'  BY <1>4, RenderKeeps DEF ChooseMode
<1> QED  BY <1>1, <1>2, <1>3, <1>4, PersonFormKeeps, TeamFormKeeps DEF FormsNext

(* An issue is at the card it was found on, in teams of any sizes, whatever   *)
(* cards are added, removed and typed into since.                           *)
THEOREM IssuesStayAtTheirCards ==
  FormInit /\ [][FormsNext]_formVars => []ErrorsAtTheirMember
<1>1. FormInv => ErrorsAtTheirMember  BY DEF FormInv, Matched, ErrorsAtTheirMember
<1> QED  BY <1>1, FormStart, FormStep, PTL

(* The form of somebody alone: the rules of the page and of the backend.     *)
LEMMA PersonIsTaken ==
  ASSUME FormInv, page = event, FormShown, ValidateForm(form, page),
         form.email # "odd", form.text # "padded", ~(page.online /\ form.cnic = "half"),
         ~(page.kind = "community-lounge" /\ page.tracks = {})
  PROVE  RegisterTakes(form)
<1>1. /\ form.email \in {"", "odd"} \cup Emails /\ form.cnic \in {"", "half", "ok"}
      /\ form.text \in Lengths
  BY DEF FormInv, CardIsWhole
<1>2. form.email # "" /\ (event.online \/ form.cnic = "ok")  BY DEF ValidateForm
<1>3. ValidDto(form) /\ event.open /\ (event.online \/ form.cnic = "ok")
  BY <1>1, <1>2 DEF ValidDto, FormShown
<1>4. CASE event.kind = "hackathon"
  <2>1. form.choice = "set" /\ ValidSkills(form) /\ ValidPrimary(form) /\ ValidText(form)
    BY <1>4 DEF ValidateForm
  <2>2. SkillsTaken(form)  BY <2>1 DEF SkillsTaken, ValidSkills, ValidPrimary
  <2>3. AnswersTaken(form)  BY <1>1, <2>1 DEF AnswersTaken, ValidText, Lengths
  <2> QED  BY <1>3, <1>4, <2>2, <2>3 DEF RegisterTakes
<1>5. CASE event.kind = "community-lounge"
  BY <1>3, <1>5 DEF RegisterTakes, ValidateForm
<1>6. CASE event.kind \notin {"hackathon", "community-lounge"}
  <2>1. form.choice = "set" /\ ValidText(form)  BY <1>6 DEF ValidateForm
  <2> QED  BY <1>3, <1>6, <2>1 DEF RegisterTakes, ValidText
<1> QED  BY <1>4, <1>5, <1>6

(* The captain's form: the texts are sent without the blanks around them.    *)
LEMMA TeamIsTaken ==
  ASSUME FormInv, page = event, TeamShown(page, mode), ValidateTeam, page.max # 0,
         \A i \in DOMAIN members : ~Flagged(i), \A i \in DOMAIN members : members[i].email # "odd"
  PROVE  RegisterTeamTakes(TeamPayload)
<1> DEFINE sent == [i \in DOMAIN members |-> MemberPayload(members[i])]
           asked == [team EXCEPT !.idea = IF team.hasIdea = "yes" THEN Trimmed(team.idea) ELSE ""]
<1>1. /\ members \in Seq(ToSet(members)) /\ \A i \in DOMAIN members : CardIsWhole(members[i])
      /\ team \in TeamAnswers
  BY DEF FormInv, Matched
<1>2. event.kind = "hackathon" /\ event.open /\ event.teams  BY DEF TeamShown, AllowsTeams
<1>3. Len(members) \in Nat /\ DOMAIN members = 1..Len(members)  BY <1>1
<1>4. ASSUME NEW i \in DOMAIN members
      PROVE  /\ sent[i].email = members[i].email /\ ValidDto(sent[i]) /\ sent[i].cnic = "ok"
             /\ SkillsTaken(sent[i])
             /\ i = 1 => AnswersTaken(sent[i])
  <2> DEFINE c == members[i]
             p == MemberPayload(c)
  <2>1. CardIsWhole(c) /\ ValidateMember(c, i = 1) /\ c.email # "odd"  BY <1>1 DEF Flagged
  <2>2. sent[i] = p  OBVIOUS
  <2> HIDE DEF c
  <2>3. /\ p.email = c.email /\ p.cnic = c.cnic /\ p.skills = c.skills /\ p.primary = c.primary
        /\ p.choice = c.choice /\ p.text = Trimmed(c.text)
    BY <2>1 DEF MemberPayload, CardIsWhole, EmptyCard
  <2> HIDE DEF p, sent
  <2>4. c.email # "" /\ c.cnic = "ok" /\ ValidSkills(c) /\ ValidPrimary(c)
    BY <2>1 DEF ValidateMember
  <2>5. ValidDto(p)  BY <2>1, <2>3, <2>4 DEF ValidDto, CardIsWhole
  <2>6. SkillsTaken(p)  BY <2>3, <2>4 DEF SkillsTaken, ValidSkills, ValidPrimary
  <2>7. i = 1 => AnswersTaken(p)
    BY <2>1, <2>3 DEF ValidateMember, AnswersTaken, ValidText, CardIsWhole, Lengths, Trimmed
  <2> QED  BY <2>2, <2>3, <2>4, <2>5, <2>6, <2>7 DEF c
<1>5. TeamPayload.members = sent /\ TeamPayload.team = asked  BY DEF TeamPayload
<1>6. asked.hasIdea = "yes" => asked.idea = "ok"
  BY <1>1 DEF TeamAnswers, ValidateTeam, Lengths, Trimmed
<1>7. DOMAIN sent = DOMAIN members /\ Len(sent) = Len(members)
  <2>1. DOMAIN sent = DOMAIN members /\ sent = [i \in 1..Len(members) |-> sent[i]]  BY <1>3
  <2> HIDE DEF sent
  <2> QED  BY <1>3, <2>1, ListOfLength
<1>8. \A i, j \in DOMAIN members : members[i].email = members[j].email => i = j
  <2> SUFFICES ASSUME NEW i \in DOMAIN members, NEW j \in DOMAIN members, i < j
               PROVE  members[i].email # members[j].email
    BY <1>3
  <2>1. members[j].email # ""  BY DEF Flagged, ValidateMember
  <2>2. i \in 1..j - 1  BY <1>3
  <2> QED  BY <2>1, <2>2 DEF Flagged
<1>9. Len(members) \in MinSize..event.max /\ 1 \in DOMAIN members
  <2>1. Len(members) \in MinSize..event.max
    <3>1. MinSize <= Len(members) /\ Len(members) <= event.max  BY <1>3, FormsAssumption DEF ValidateTeam
    <3> QED  BY <1>3, <3>1, FormsAssumption
  <2> QED  BY <1>3, <2>1, FormsAssumption
<1> HIDE DEF sent, asked
<1> QED  BY <1>2, <1>4, <1>5, <1>6, <1>7, <1>8, <1>9 DEF RegisterTeamTakes

(* For any event, answers and sizes of teams: what the page lets through the *)
(* backend takes, but for the five disagreements that the property names.    *)
THEOREM BothSetsOfRulesAgree ==
  FormInit /\ [][FormsNext]_formVars => []LetThroughIsTaken
<1>1. FormInv => LetThroughIsTaken
  BY PersonIsTaken, TeamIsTaken DEF LetThroughIsTaken
<1> QED  BY <1>1, FormStart, FormStep, PTL
-----------------------------------------------------------------------------
(* The public forms: their state is well typed. *)

CardsTyped(ms, es) ==
  /\ Len(ms) <= MaxCards
  /\ \A i \in DOMAIN ms : CardTypeOK(ms[i]) /\ ms[i].key \in Keys
  /\ \A i \in DOMAIN es : es[i] \in {0} \cup Keys

(* There is a largest team among what is offered. *)
LEMMA LargestTeam ==
  /\ MaxCards \in Nat /\ MinSize \in Nat \ {0} /\ MinSize <= MaxCards
  /\ \A o \in Offers : SizeShown(o) \in Nat /\ SizeShown(o) <= MaxCards
<1>1. \A o \in Offers : SizeShown(o) \in Nat /\ MinSize <= SizeShown(o)
  BY FormsAssumption DEF FormEvent, SizeShown
<1>2. /\ MaxCards \in {SizeShown(o) : o \in Offers}
      /\ \A o \in Offers : SizeShown(o) <= MaxCards
  <2>1. PICK o \in Offers : \A p \in Offers : SizeShown(p) <= SizeShown(o)  BY FormsAssumption
  <2>2. SizeShown(o) \in {SizeShown(q) : q \in Offers}  OBVIOUS
  <2>3. \E n \in {SizeShown(q) : q \in Offers} : \A p \in Offers : SizeShown(p) <= n
    BY <2>1, <2>2
  <2> QED  BY <2>3 DEF MaxCards
<1>3. MaxCards \in Nat /\ MinSize <= MaxCards  BY <1>1, <1>2
<1> QED  BY <1>1, <1>2, <1>3, FormsAssumption

LEMMA EmptyTyped == \A key : CardTypeOK(EmptyCard(key)) /\ EmptyCard(key).key = key
<1>1. /\ <<>> \in Seq(Skills) /\ IsInjective(<<>>) /\ Len(<<>>) = 0 /\ 0 <= MaxSkills
  BY FormsAssumption DEF IsInjective
<1> QED  BY <1>1 DEF EmptyCard, CardTypeOK, PrimaryTicked, Lengths

LEMMA TypedExcept ==
  ASSUME NEW c, CardIsWhole(c), CardTypeOK(c)
  PROVE  /\ \A e \in {"", "odd"} \cup Emails : CardTypeOK([c EXCEPT !.email = e])
         /\ \A n \in {"", "half", "ok"} : CardTypeOK([c EXCEPT !.cnic = n])
         /\ \A l \in Lengths : CardTypeOK([c EXCEPT !.text = l])
         /\ \A x \in {"", "set"} \cup Tracks : CardTypeOK([c EXCEPT !.choice = x])
         /\ \A s \in {""} \cup ToSet(c.skills) : CardTypeOK([c EXCEPT !.primary = s])
         /\ \A k : CardTypeOK([c EXCEPT !.key = k]) /\ [c EXCEPT !.key = k].key = k
BY DEF CardIsWhole, EmptyCard, CardTypeOK, PrimaryTicked

(* A skill that is ticked once is not ticked when its place is taken away. *)
LEMMA UntickedTyped ==
  ASSUME NEW tags, tags \in Seq(Skills), IsInjective(tags), NEW s \in ToSet(tags)
  PROVE  /\ Unticked(tags, s) \in Seq(Skills) /\ IsInjective(Unticked(tags, s))
         /\ Len(Unticked(tags, s)) < Len(tags)
<1> DEFINE i == CHOOSE j \in DOMAIN tags : tags[j] = s
           rest == RemoveAt(tags, i)
<1>1. i \in 1..Len(tags) /\ Len(tags) \in Nat
  <2>1. \E j \in DOMAIN tags : tags[j] = s  BY DEF ToSet
  <2>2. i \in DOMAIN tags  BY <2>1
  <2> QED  BY <2>2
<1> HIDE DEF i
<1>2. tags \in Seq(ToSet(tags))  BY ListOfLength
<1>3. /\ rest \in Seq(ToSet(rest)) /\ Len(rest) = Len(tags) - 1
      /\ \A j \in 1..Len(tags) - 1 : rest[j] = IF j < i THEN tags[j] ELSE tags[j + 1]
  BY <1>1, <1>2, RemoveAtShifts
<1> HIDE DEF rest
<1>4. DOMAIN rest = 1..Len(tags) - 1 /\ Len(tags) - 1 \in Nat  BY <1>1, <1>3
<1>5. \A j \in 1..Len(tags) - 1 : rest[j] \in Skills
  <2> TAKE j \in 1..Len(tags) - 1
  <2>1. j \in 1..Len(tags) /\ j + 1 \in 1..Len(tags)  BY <1>1
  <2>2. tags[j] \in Skills /\ tags[j + 1] \in Skills  BY <2>1
  <2> QED  BY <1>3, <2>2
<1>6. rest \in Seq(Skills)
  <2>1. rest = [j \in 1..Len(tags) - 1 |-> rest[j]]  BY <1>3, <1>4
  <2>2. rest \in [1..Len(tags) - 1 -> Skills]  BY <1>5, <2>1
  <2> QED  BY <1>4, <2>2
<1>7. IsInjective(rest)
  <2> SUFFICES ASSUME NEW j \in 1..Len(tags) - 1, NEW k \in 1..Len(tags) - 1, rest[j] = rest[k]
               PROVE  j = k
    BY <1>4 DEF IsInjective
  <2> DEFINE at(n) == IF n < i THEN n ELSE n + 1
  <2>1. at(j) \in 1..Len(tags) /\ at(k) \in 1..Len(tags)  BY <1>1
  <2>2. rest[j] = tags[at(j)] /\ rest[k] = tags[at(k)]  BY <1>3
  <2>3. DOMAIN tags = 1..Len(tags)  OBVIOUS
  <2>4. at(j) = at(k)  BY <2>1, <2>2, <2>3 DEF IsInjective
  <2> QED  BY <1>1, <2>4
<1>8. Len(rest) < Len(tags)  BY <1>1, <1>3
<1> QED  BY <1>6, <1>7, <1>8 DEF rest, i, Unticked

LEMMA TickedTyped ==
  ASSUME NEW tags, tags \in Seq(Skills), IsInjective(tags), NEW s \in Skills, s \notin ToSet(tags)
  PROVE  /\ Append(tags, s) \in Seq(Skills) /\ IsInjective(Append(tags, s))
         /\ Len(Append(tags, s)) = Len(tags) + 1
<1>1. /\ Append(tags, s) \in Seq(Skills) /\ Len(Append(tags, s)) = Len(tags) + 1
      /\ Len(tags) \in Nat /\ DOMAIN tags = 1..Len(tags)
      /\ DOMAIN Append(tags, s) = 1..Len(tags) + 1
      /\ \A i \in 1..Len(tags) + 1 : Append(tags, s)[i] = IF i <= Len(tags) THEN tags[i] ELSE s
  OBVIOUS
<1>2. \A i \in 1..Len(tags) : tags[i] # s  BY <1>1 DEF ToSet
<1>3. IsInjective(Append(tags, s))
  <2> SUFFICES ASSUME NEW i \in 1..Len(tags) + 1, NEW j \in 1..Len(tags) + 1,
                      Append(tags, s)[i] = Append(tags, s)[j]
               PROVE  i = j
    BY <1>1 DEF IsInjective
  <2>1. CASE i <= Len(tags) /\ j <= Len(tags)
    <3>1. i \in 1..Len(tags) /\ j \in 1..Len(tags) /\ tags[i] = tags[j]  BY <1>1, <2>1
    <3> QED  BY <1>1, <3>1 DEF IsInjective
  <2>2. CASE ~(i <= Len(tags)) \/ ~(j <= Len(tags))
    <3>1. ~(i <= Len(tags)) /\ ~(j <= Len(tags))  BY <1>1, <1>2, <2>2
    <3> QED  BY <1>1, <3>1
  <2> QED  BY <2>1, <2>2
<1> QED  BY <1>1, <1>3

LEMMA ToggleSkillTyped ==
  ASSUME NEW c, CardIsWhole(c), CardTypeOK(c), NEW s \in Skills
  PROVE  CardTypeOK(ToggleSkill(c, s))
<1> DEFINE next == IF s \in ToSet(c.skills) THEN Unticked(c.skills, s) ELSE Append(c.skills, s)
           first == CASE c.primary \in ToSet(next) -> c.primary
                      [] next = <<>> -> ""
                      [] OTHER -> Head(next)
<1>1. CASE ToggleSkill(c, s) = c  BY <1>1
<1>2. CASE /\ ToggleSkill(c, s) = [c EXCEPT !.skills = next, !.primary = first]
           /\ s \in ToSet(c.skills) \/ ~(Len(c.skills) >= MaxSkills)
  <2>1. c.skills \in Seq(Skills) /\ IsInjective(c.skills) /\ Len(c.skills) <= MaxSkills
    BY DEF CardTypeOK
  <2>2. Len(c.skills) \in Nat /\ MaxSkills \in Nat  BY <2>1, FormsAssumption
  <2>3. next \in Seq(Skills) /\ IsInjective(next) /\ Len(next) <= MaxSkills
    <3>1. CASE s \in ToSet(c.skills)
      <4>1. next = Unticked(c.skills, s)  BY <3>1
      <4> HIDE DEF next
      <4>2. next \in Seq(Skills) /\ IsInjective(next) /\ Len(next) < Len(c.skills)
        BY <2>1, <3>1, <4>1, UntickedTyped
      <4>3. Len(next) \in Nat  BY <4>2
      <4> QED  BY <2>1, <2>2, <4>2, <4>3
    <3>2. CASE s \notin ToSet(c.skills)
      <4>1. next = Append(c.skills, s)  BY <3>2
      <4> HIDE DEF next
      <4>2. next \in Seq(Skills) /\ IsInjective(next) /\ Len(next) = Len(c.skills) + 1
        BY <2>1, <3>2, <4>1, TickedTyped
      <4> QED  BY <1>2, <2>1, <2>2, <3>2, <4>2
    <3> QED  BY <3>1, <3>2
  <2> HIDE DEF next
  <2>4. first = "" \/ first \in ToSet(next)
    <3>1. CASE next = <<>>  BY <3>1
    <3>2. CASE next # <<>>
      <4>1. 1 \in DOMAIN next /\ Head(next) = next[1]  BY <2>3, <3>2
      <4>2. Head(next) \in ToSet(next)  BY <4>1 DEF ToSet
      <4> QED  BY <3>2, <4>2
    <3> QED  BY <3>1, <3>2
  <2> HIDE DEF first
  <2> DEFINE d == [c EXCEPT !.skills = next, !.primary = first]
  <2>5. /\ d.skills = next /\ d.primary = first /\ d.email = c.email /\ d.cnic = c.cnic
        /\ d.choice = c.choice /\ d.text = c.text
    BY DEF CardIsWhole, EmptyCard
  <2> HIDE DEF d
  <2>6. CardTypeOK(d)  BY <2>3, <2>4, <2>5 DEF CardTypeOK, PrimaryTicked
  <2> QED  BY <1>2, <2>6 DEF d
<1> QED  BY <1>1, <1>2 DEF ToggleSkill
LEMMA ElementsOfList ==
  ASSUME NEW s, s \in Seq(ToSet(s))
  PROVE  IsFiniteSet(ToSet(s)) /\ Cardinality(ToSet(s)) <= Len(s)
<1>1. Len(s) \in Nat /\ DOMAIN s = 1..Len(s)  OBVIOUS
<1>2. s \in [1..Len(s) -> ToSet(s)]  BY <1>1
<1>3. \A x \in ToSet(s) : \E i \in 1..Len(s) : s[i] = x  BY <1>1 DEF ToSet
<1>4. s \in Surjection(1..Len(s), ToSet(s))  BY <1>2, <1>3 DEF Surjection
<1>5. IsFiniteSet(1..Len(s)) /\ Cardinality(1..Len(s)) = Len(s)  BY <1>1, FS_Interval
<1> QED  BY <1>4, <1>5, FS_Surjection

(* There are twice as many keys as cards: one for a new card is not that of  *)
(* another, nor of an issue.                                                *)
LEMMA FreshKeyIsKey ==
  ASSUME Matched(members, errors), Len(members) < MaxCards
  PROVE  FreshKey \in Keys
<1> DEFINE shown == {members[i].key : i \in DOMAIN members}
           found == ToSet(errors)
<1>1. /\ members \in Seq(ToSet(members)) /\ errors \in Seq(ToSet(errors))
      /\ Len(errors) <= Len(members)
  BY DEF Matched
<1>2. Len(members) \in Nat /\ Len(errors) \in Nat /\ MaxCards \in Nat  BY <1>1, LargestTeam
<1>3. IsFiniteSet(found) /\ Cardinality(found) <= Len(errors) /\ Cardinality(found) \in Nat
  BY <1>1, ElementsOfList, FS_CardinalityType
<1>4. IsFiniteSet(shown) /\ Cardinality(shown) <= Len(members) /\ Cardinality(shown) \in Nat
  <2> DEFINE key == [i \in 1..Len(members) |-> members[i].key]
  <2>1. DOMAIN members = 1..Len(members)  BY <1>1
  <2>2. shown = ToSet(key)  BY <2>1 DEF ToSet
  <2>3. key = [i \in 1..Len(members) |-> key[i]]  OBVIOUS
  <2> HIDE DEF key, shown
  <2>4. key \in Seq(ToSet(key)) /\ Len(key) = Len(members)  BY <1>2, <2>3, ListOfLength
  <2> QED  BY <2>2, <2>4, ElementsOfList, FS_CardinalityType
<1> HIDE DEF shown, found
<1>5. IsFiniteSet(shown \cup found) /\ Cardinality(shown \cup found) < 2 * MaxCards
  <2>1. /\ IsFiniteSet(shown \cup found) /\ IsFiniteSet(shown \cap found)
        /\ Cardinality(shown \cup found)
             = Cardinality(shown) + Cardinality(found) - Cardinality(shown \cap found)
    BY <1>3, <1>4, FS_Union, FS_Intersection
  <2>2. Cardinality(shown \cap found) \in Nat  BY <2>1, FS_CardinalityType
  <2> QED  BY <1>1, <1>2, <1>3, <1>4, <2>1, <2>2
<1>6. \E k \in Keys : k \notin shown \cup found
  <2> SUFFICES ASSUME Keys \subseteq shown \cup found PROVE FALSE  OBVIOUS
  <2>1. Cardinality(Keys) = 2 * MaxCards
    <3>1. 2 * MaxCards \in Int /\ 1 \in Int /\ 2 * MaxCards >= 0  BY <1>2
    <3>2. Cardinality(1..2 * MaxCards) = IF 1 > 2 * MaxCards THEN 0 ELSE 2 * MaxCards - 1 + 1
      BY <3>1, FS_Interval
    <3> QED  BY <1>2, <3>2 DEF Keys
  <2>2. Cardinality(Keys) <= Cardinality(shown \cup found)  BY <1>5, FS_Subset
  <2>3. Cardinality(shown \cup found) \in Nat  BY <1>5, FS_CardinalityType
  <2> QED  BY <1>2, <1>5, <2>1, <2>2, <2>3
<1>7. FreshKey = CHOOSE k \in Keys : k \notin shown \cup found  BY DEF FreshKey, shown, found
<1> QED  BY <1>6, <1>7

FormTypes == FormInv /\ FormTypeOK

LEMMA NewTypes ==
  ASSUME NEW c, CardTypeOK(c), NEW ms, NEW es, CardsTyped(ms, es), team' \in TeamAnswers,
         form' = c, members' = ms, errors' = es,
         event' \in Offers, page' \in Offers, mode' \in {"", "individual", "team", "sent"},
         already' \in BOOLEAN
  PROVE  FormTypeOK'
<1>1. CardTypeOK(form)'  BY DEF CardTypeOK, PrimaryTicked
<1>2. CardsTyped(members, errors)'  BY DEF CardsTyped, CardTypeOK, PrimaryTicked
<1> QED  BY <1>1, <1>2 DEF FormTypeOK, CardsTyped, TeamAnswers, Lengths, Keys

LEMMA TypesNow ==
  ASSUME FormTypes
  PROVE  /\ event \in Offers /\ page \in Offers /\ mode \in {"", "individual", "team", "sent"}
         /\ already \in BOOLEAN /\ CardTypeOK(form) /\ CardIsWhole(form)
         /\ CardsTyped(members, errors) /\ Matched(members, errors) /\ team \in TeamAnswers
BY DEF FormTypes, FormInv, FormTypeOK, CardsTyped

LEMMA NoCardsTyped ==
  /\ CardsTyped(<<>>, <<>>) /\ CardsTyped([i \in 1..MinSize |-> EmptyCard(i)], <<>>)
  /\ EmptyTeam \in TeamAnswers /\ CardTypeOK(EmptyCard(0))
<1> DEFINE ms == [i \in 1..MinSize |-> EmptyCard(i)]
<1>1. DOMAIN <<>> = {} /\ Len(<<>>) = 0  OBVIOUS
<1>2. DOMAIN ms = 1..MinSize /\ \A i \in DOMAIN ms : ms[i] = EmptyCard(i)  OBVIOUS
<1>3. MinSize \in Nat /\ MaxCards \in Nat /\ MinSize <= MaxCards  BY LargestTeam
<1>4. Len(ms) = MinSize
  <2>1. ms = [i \in 1..MinSize |-> ms[i]]  OBVIOUS
  <2> HIDE DEF ms
  <2> QED  BY <1>3, <2>1, ListOfLength
<1> HIDE DEF ms
<1>5. \A i \in 1..MinSize : i \in Keys  BY <1>3 DEF Keys
<1>6. \A i \in DOMAIN ms : CardTypeOK(ms[i]) /\ ms[i].key \in Keys
  BY <1>2, <1>5, EmptyTyped
<1>7. CardsTyped(ms, <<>>)  BY <1>1, <1>3, <1>4, <1>6 DEF CardsTyped
<1>8. CardsTyped(<<>>, <<>>)  BY <1>1, <1>3 DEF CardsTyped
<1> QED  BY <1>7, <1>8, EmptyTyped, NothingAsked DEF ms

LEMMA RenderTyped ==
  ASSUME FormTypes, NEW e \in Offers, NEW m \in {"", "individual", "team", "sent"},
         Render(e, m), UNCHANGED <<event, already, form>>
  PROVE  FormTypeOK'
<1>1. page' \in Offers /\ mode' \in {"", "individual", "team", "sent"}  BY DEF Render
<1>2. \/ UNCHANGED <<members, team, errors>>
      \/ members' = <<>> /\ team' = EmptyTeam /\ errors' = <<>>
      \/ members' = [i \in 1..MinSize |-> EmptyCard(i)] /\ team' = EmptyTeam /\ errors' = <<>>
  BY DEF Render
<1>3. CASE UNCHANGED <<members, team, errors>>  BY <1>1, <1>3, TypesNow, NewTypes
<1>4. CASE members' = <<>> /\ team' = EmptyTeam /\ errors' = <<>>
  BY <1>1, <1>4, TypesNow, NoCardsTyped, NewTypes
<1>5. CASE /\ members' = [i \in 1..MinSize |-> EmptyCard(i)]
           /\ team' = EmptyTeam /\ errors' = <<>>
  BY <1>1, <1>5, TypesNow, NoCardsTyped, NewTypes
<1> QED  BY <1>2, <1>3, <1>4, <1>5

LEMMA FillTyped ==
  ASSUME FormTypes, NEW c, CardTypeOK(c), Fill(c)
  PROVE  FormTypeOK'
BY TypesNow, NewTypes DEF Fill

LEMMA RetypeTyped ==
  ASSUME FormTypes, NEW ms, NEW es, CardsTyped(ms, es), Retype(ms, es)
  PROVE  FormTypeOK'
BY TypesNow, NewTypes DEF Retype

LEMMA RegisteredTyped ==
  ASSUME FormTypes, NEW taken, Registered(taken)
  PROVE  FormTypeOK'
<1>1. CASE UNCHANGED formVars  BY <1>1, TypesNow, NewTypes DEF formVars
<1>2. CASE /\ mode' = "sent" /\ form' = EmptyCard(0) /\ members' = <<>> /\ team' = EmptyTeam
           /\ errors' = <<>> /\ UNCHANGED <<event, page, already>>
  BY <1>2, TypesNow, NoCardsTyped, NewTypes
<1> QED  BY <1>1, <1>2 DEF Registered

LEMMA PersonFormTyped ==
  ASSUME FormTypes, Form
  PROVE  FormTypeOK'
<1>1. CardIsWhole(form) /\ CardTypeOK(form) /\ page \in Offers  BY TypesNow
<1>2. CASE ChooseMode("")  BY <1>1, <1>2, RenderTyped DEF ChooseMode
<1>3. CASE AttendeeFields  BY <1>1, <1>3, TypedExcept, FillTyped DEF AttendeeFields
<1>4. CASE ChoiceFields
  <2>1. page.tracks \subseteq Tracks  BY <1>1 DEF Tracks
  <2>2. PICK choice \in {"", "set"} \cup Tracks : Fill([form EXCEPT !.choice = choice])
    BY <1>4, <2>1 DEF ChoiceFields
  <2> QED  BY <1>1, <2>2, TypedExcept, FillTyped
<1>5. CASE MotivationField  BY <1>1, <1>5, TypedExcept, FillTyped DEF MotivationField
<1>6. CASE ExperienceFields
  <2>1. ASSUME NEW s \in Skills, Fill(ToggleSkill(form, s))  PROVE FormTypeOK'
    BY <1>1, <2>1, ToggleSkillTyped, FillTyped
  <2>2. ASSUME NEW s \in {""} \cup ToSet(form.skills), Fill([form EXCEPT !.primary = s])
        PROVE  FormTypeOK'
    BY <1>1, <2>2, TypedExcept, FillTyped
  <2> QED  BY <1>6, <2>1, <2>2 DEF ExperienceFields
<1>7. CASE SubmitForm
  <2>1. CASE Registered(RegisterTakes(form))  BY <2>1, RegisteredTyped
  <2>2. CASE already' = TRUE /\ UNCHANGED <<event, page, mode, form, members, team, errors>>
    BY <2>2, TypesNow, NewTypes
  <2> QED  BY <1>7, <2>1, <2>2 DEF SubmitForm
<1> QED  BY <1>2, <1>3, <1>4, <1>5, <1>6, <1>7 DEF Form
LEMMA AddedTyped ==
  ASSUME FormTypes, Len(members) < MaxCards
  PROVE  CardsTyped(Append(members, EmptyCard(FreshKey)), errors)
<1> DEFINE new == EmptyCard(FreshKey)
           m == Append(members, new)
<1>1. CardTypeOK(new) /\ new.key \in Keys  BY TypesNow, FreshKeyIsKey, EmptyTyped
<1>2. members \in Seq(ToSet(members)) /\ CardsTyped(members, errors)  BY TypesNow DEF Matched
<1> HIDE DEF new
<1>3. /\ Len(members) \in Nat /\ DOMAIN members = 1..Len(members)
      /\ Len(m) = Len(members) + 1 /\ DOMAIN m = 1..Len(members) + 1
      /\ \A i \in DOMAIN m : m[i] = new \/ (i \in DOMAIN members /\ m[i] = members[i])
  <2> DEFINE all == ToSet(members) \cup {new}
  <2>1. members = [i \in 1..Len(members) |-> members[i]] /\ Len(members) \in Nat  BY <1>2
  <2>2. \A i \in 1..Len(members) : members[i] \in all  BY <1>2 DEF ToSet
  <2>3. new \in all  OBVIOUS
  <2> HIDE DEF all
  <2>4. members \in Seq(all)  BY <2>1, <2>2
  <2>5. /\ m \in Seq(all) /\ Len(m) = Len(members) + 1
        /\ \A i \in 1..Len(members) + 1 : m[i] = IF i <= Len(members) THEN members[i] ELSE new
    BY <2>3, <2>4
  <2>6. DOMAIN members = 1..Len(members) /\ DOMAIN m = 1..Len(m)  BY <2>4, <2>5
  <2> HIDE DEF m
  <2>7. \A i \in DOMAIN m : m[i] = new \/ (i \in DOMAIN members /\ m[i] = members[i])
    BY <2>1, <2>5, <2>6
  <2> QED  BY <2>1, <2>5, <2>6, <2>7
<1> HIDE DEF m
<1>4. \A i \in DOMAIN m : CardTypeOK(m[i]) /\ m[i].key \in Keys
  BY <1>1, <1>2, <1>3 DEF CardsTyped
<1>5. Len(m) <= MaxCards  BY <1>3, LargestTeam
<1>6. CardsTyped(m, errors)  BY <1>2, <1>4, <1>5 DEF CardsTyped
<1> QED  BY <1>6 DEF m, new

LEMMA CardTyped ==
  ASSUME FormTypes, NEW i \in DOMAIN members, NEW c \in TypedCards
  PROVE  CardsTyped([members EXCEPT ![i] = [c EXCEPT !.key = members[i].key]], errors)
<1> DEFINE new == [c EXCEPT !.key = members[i].key]
           m == [members EXCEPT ![i] = new]
<1>1. members \in Seq(ToSet(members)) /\ CardsTyped(members, errors)  BY TypesNow DEF Matched
<1>2. CardIsWhole(c) /\ CardTypeOK(c)  BY FormsAssumption DEF CardTypeOK, CardIsWhole
<1>3. CardTypeOK(new) /\ new.key \in Keys  BY <1>1, <1>2, TypedExcept DEF CardsTyped
<1> HIDE DEF new
<1>4. /\ Len(m) = Len(members) /\ DOMAIN m = DOMAIN members
      /\ \A j \in DOMAIN m : m[j] = new \/ m[j] = members[j]
  BY <1>1
<1> HIDE DEF m
<1>5. CardsTyped(m, errors)  BY <1>1, <1>3, <1>4 DEF CardsTyped
<1> QED  BY <1>5 DEF m, new

LEMMA RemovedTyped ==
  ASSUME FormTypes, NEW i \in DOMAIN members
  PROVE  CardsTyped(RemoveAt(members, i), IF i \in DOMAIN errors THEN RemoveAt(errors, i) ELSE errors)
<1> DEFINE m == RemoveAt(members, i)
           e == RemoveAt(errors, i)
<1>1. /\ members \in Seq(ToSet(members)) /\ errors \in Seq(ToSet(errors))
      /\ CardsTyped(members, errors)
  BY TypesNow DEF Matched
<1>2. /\ Len(members) \in Nat /\ DOMAIN members = 1..Len(members)
      /\ Len(errors) \in Nat /\ DOMAIN errors = 1..Len(errors)
  BY <1>1
<1>3. Len(m) <= MaxCards /\ \A j \in DOMAIN m : CardTypeOK(m[j]) /\ m[j].key \in Keys
  <2>1. /\ m \in Seq(ToSet(m)) /\ Len(m) = Len(members) - 1
        /\ \A j \in 1..Len(members) - 1 : m[j] = IF j < i THEN members[j] ELSE members[j + 1]
    BY <1>1, <1>2, RemoveAtShifts
  <2> HIDE DEF m
  <2>2. DOMAIN m = 1..Len(members) - 1  BY <1>2, <2>1
  <2>3. \A j \in DOMAIN m : \E k \in DOMAIN members : m[j] = members[k]
    <3> TAKE j \in DOMAIN m
    <3>1. j \in 1..Len(members) /\ j + 1 \in 1..Len(members)  BY <1>2, <2>2
    <3> QED  BY <1>2, <2>1, <2>2, <3>1
  <2>4. Len(m) <= MaxCards  BY <1>1, <1>2, <2>1, LargestTeam DEF CardsTyped
  <2> QED  BY <1>1, <2>3, <2>4 DEF CardsTyped
<1>4. ASSUME i \in DOMAIN errors  PROVE \A j \in DOMAIN e : e[j] \in {0} \cup Keys
  <2>1. /\ e \in Seq(ToSet(e)) /\ Len(e) = Len(errors) - 1
        /\ \A j \in 1..Len(errors) - 1 : e[j] = IF j < i THEN errors[j] ELSE errors[j + 1]
    BY <1>1, <1>2, <1>4, RemoveAtShifts
  <2> HIDE DEF e
  <2>2. DOMAIN e = 1..Len(errors) - 1  BY <1>2, <2>1
  <2>3. \A j \in DOMAIN e : \E k \in DOMAIN errors : e[j] = errors[k]
    <3> TAKE j \in DOMAIN e
    <3>1. j \in 1..Len(errors) /\ j + 1 \in 1..Len(errors)  BY <1>2, <2>2
    <3> QED  BY <1>2, <2>1, <2>2, <3>1
  <2> QED  BY <1>1, <2>3 DEF CardsTyped
<1> HIDE DEF m, e
<1>5. CASE i \in DOMAIN errors
  <2>1. CardsTyped(m, e)  BY <1>3, <1>4, <1>5 DEF CardsTyped
  <2> QED  BY <1>5, <2>1 DEF m, e
<1>6. CASE i \notin DOMAIN errors
  <2>1. CardsTyped(m, errors)  BY <1>1, <1>3 DEF CardsTyped
  <2> QED  BY <1>6, <2>1 DEF m
<1> QED  BY <1>5, <1>6

LEMMA SubmitTeamTyped ==
  ASSUME FormTypes, SubmitTeam
  PROVE  FormTypeOK'
<1> DEFINE flags == [i \in DOMAIN members |-> IF Flagged(i) THEN members[i].key ELSE 0]
<1>1. CardsTyped(members, errors)  BY TypesNow
<1>2. CardsTyped(members, flags)  BY <1>1 DEF CardsTyped
<1>3. Registered(RegisterTeamTakes(TeamPayload)) \/ Retype(members, flags)  BY DEF SubmitTeam
<1> HIDE DEF flags
<1> QED  BY <1>2, <1>3, RegisteredTyped, RetypeTyped

LEMMA TeamFormTyped ==
  ASSUME FormTypes, TeamForm
  PROVE  FormTypeOK'
<1>1. CASE ChooseMode("")  BY <1>1, TypesNow, RenderTyped DEF ChooseMode
<1>2. CASE TeamDetails
  <2>1. team' \in TeamAnswers  BY <1>2, TypesNow DEF TeamDetails, TeamAnswers
  <2> QED  BY <1>2, <2>1, TypesNow, NewTypes DEF TeamDetails
<1>3. CASE AddMember
  <2>1. Len(members) < SizeShown(page) /\ Retype(Append(members, EmptyCard(FreshKey)), errors)
    BY <1>3 DEF AddMember
  <2>2. /\ SizeShown(page) \in Nat /\ SizeShown(page) <= MaxCards /\ MaxCards \in Nat
    BY TypesNow, LargestTeam
  <2>3. Len(members) \in Nat
    <3>1. members \in Seq(ToSet(members))  BY TypesNow DEF Matched
    <3> QED  BY <3>1
  <2>4. Len(members) < MaxCards  BY <2>1, <2>2, <2>3
  <2> QED  BY <2>1, <2>4, AddedTyped, RetypeTyped
<1>4. ASSUME NEW i \in DOMAIN members, MemberCard(i)  PROVE FormTypeOK'
  <2>1. PICK c \in TypedCards : Retype([members EXCEPT ![i] = [c EXCEPT !.key = members[i].key]], errors)
    BY <1>4 DEF MemberCard
  <2> QED  BY <2>1, CardTyped, RetypeTyped
<1>5. ASSUME NEW i \in DOMAIN members, RemoveMember(i)  PROVE FormTypeOK'
  <2>1. Retype(RemoveAt(members, i), IF i \in DOMAIN errors THEN RemoveAt(errors, i) ELSE errors)
    BY <1>5 DEF RemoveMember
  <2> QED  BY <2>1, RemovedTyped, RetypeTyped
<1> QED  BY <1>1, <1>2, <1>3, <1>4, <1>5, SubmitTeamTyped DEF TeamForm

LEMMA FormTypesStart == FormInit => FormTypeOK
<1> SUFFICES ASSUME FormInit PROVE FormTypeOK  OBVIOUS
<1>1. CardTypeOK(form) /\ CardsTyped(members, errors) /\ team \in TeamAnswers
  BY NoCardsTyped DEF FormInit
<1> QED  BY <1>1 DEF FormInit, FormTypeOK, CardsTyped, TeamAnswers

LEMMA FormTypesStep == FormTypes /\ [FormsNext]_formVars => FormTypeOK'
<1> SUFFICES ASSUME FormTypes, [FormsNext]_formVars PROVE FormTypeOK'  OBVIOUS
<1>1. CASE UNCHANGED formVars  BY <1>1, TypesNow, NewTypes DEF formVars
<1>2. ASSUME NEW e \in Offers, EditEvent(e)  PROVE FormTypeOK'
  BY <1>2, TypesNow, NewTypes DEF EditEvent
<1>3. CASE RefetchEvent  BY <1>3, TypesNow, RenderTyped DEF RefetchEvent
<1>4. ASSUME NEW m \in {"individual", "team"}, ChooseMode(m)  PROVE FormTypeOK'
  BY <1>4, TypesNow, RenderTyped DEF ChooseMode
<1> QED  BY <1>1, <1>2, <1>3, <1>4, PersonFormTyped, TeamFormTyped DEF FormsNext

(* The state of the public forms is well typed for events with teams of any   *)
(* sizes: a card never has more skills than are allowed, one of them twice or *)
(* a primary one that is not ticked, and there is a key for every new card.   *)
THEOREM FormTyped ==
  FormInit /\ [][FormsNext]_formVars => []FormTypeOK
<1>1. FormInit => FormTypes  BY FormStart, FormTypesStart DEF FormTypes
<1>2. FormTypes /\ [FormsNext]_formVars => FormTypes'  BY FormStep, FormTypesStep DEF FormTypes
<1>3. FormTypes => FormTypeOK  BY DEF FormTypes
<1> QED  BY <1>1, <1>2, <1>3, PTL
-----------------------------------------------------------------------------
(* The pages and handlers together. *)

(* Whichever of the seven components moves, the state of all of them is well  *)
(* typed, for any accounts, servers, guests, registrations and events.       *)
THEOREM ConsoleTypeCorrect == Spec => []TypeOK
<1>1. [Next]_consoleVars =>
        /\ [UsersNext]_usersVars /\ [TemplatesNext]_templatesVars
        /\ [OnlineNext]_onlineVars /\ [MailingsNext]_mailingVars
        /\ [ViewerNext]_viewerVars /\ [DeskNext]_deskVars /\ [FormsNext]_formVars
  <2> SUFFICES ASSUME [Next]_consoleVars
               PROVE  /\ [UsersNext]_usersVars /\ [TemplatesNext]_templatesVars
                      /\ [OnlineNext]_onlineVars /\ [MailingsNext]_mailingVars
                      /\ [ViewerNext]_viewerVars /\ [DeskNext]_deskVars /\ [FormsNext]_formVars
    OBVIOUS
  <2>1. CASE UNCHANGED consoleVars  BY <2>1 DEF consoleVars
  <2>2. CASE Next
    BY <2>2 DEF Next, KeepUsers, KeepTemplates, KeepOnline, KeepMailings, KeepViewer, KeepDesk,
                KeepForms
  <2> QED  BY <2>1, <2>2
<1>2. Spec => []UsersTypeOK
  <2>1. Init => UsersInit  BY DEF Init
  <2>2. [Next]_consoleVars => [UsersNext]_usersVars  BY <1>1
  <2> QED  BY <2>1, <2>2, LastSuperAdmin, PTL DEF Spec
<1>3. Spec => []TemplatesTypeOK
  <2>1. Init => TemplatesInit  BY DEF Init
  <2>2. [Next]_consoleVars => [TemplatesNext]_templatesVars  BY <1>1
  <2> QED  BY <2>1, <2>2, EditsShow, PTL DEF Spec
<1>4. Spec => []OnlineTypeOK
  <2>1. Init => OnlineInit  BY DEF Init
  <2>2. [Next]_consoleVars => [OnlineNext]_onlineVars  BY <1>1
  <2> QED  BY <2>1, <2>2, ReminderClaimed, PTL DEF Spec
<1>5. Spec => []MailingsTypeOK
  <2>1. Init => MailingsInit  BY DEF Init
  <2>2. [Next]_consoleVars => [MailingsNext]_mailingVars  BY <1>1
  <2> QED  BY <2>1, <2>2, ExpiredCanBeMailed, PTL DEF Spec
<1>6. Spec => []ViewerTypeOK
  <2>1. Init => ViewerInit  BY DEF Init
  <2>2. [Next]_consoleVars => [ViewerNext]_viewerVars  BY <1>1
  <2> QED  BY <2>1, <2>2, ViewerTyped, PTL DEF Spec
<1>7. Spec => []DeskTypeOK
  <2>1. Init => DeskInit  BY DEF Init
  <2>2. [Next]_consoleVars => [DeskNext]_deskVars  BY <1>1
  <2> QED  BY <2>1, <2>2, DeskTyped, PTL DEF Spec
<1>8. Spec => []FormTypeOK
  <2>1. Init => FormInit  BY DEF Init
  <2>2. [Next]_consoleVars => [FormsNext]_formVars  BY <1>1
  <2> QED  BY <2>1, <2>2, FormTyped, PTL DEF Spec
<1> QED  BY <1>2, <1>3, <1>4, <1>5, <1>6, <1>7, <1>8, PTL DEF TypeOK
=============================================================================
