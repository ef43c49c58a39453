--------------------------- MODULE SeatsRaceProofs ---------------------------
(* Proofs about RegistrationSeats under concurrent requests: what the races  *)
(* of register(), approve() and restoreRegistration() can and cannot do to   *)
(* the rows of an event, for any number of requests in flight.               *)
EXTENDS SeatsProofs, SeatRaces, WellFoundedInduction, NaturalsInduction

SetsCapacity(c) == SaveEvent(c) \/ \E n \in Settable : SetCapacity(c, n)
Checks(c) == \E p \in People : CheckOnce(c, p)

(* A step of one handler. *)
Step(c) == \/ RegisterStep(c) \/ DeletionStep(c) \/ ExceptionStep(c)
           \/ EventStep(c) \/ Abort(c)

LEMMA NextIsStep ==
  ASSUME Next PROVE (\E c \in Clients : Step(c)) \/ (\E e \in Events : SetStatus(e))
  BY DEF Next, Step

LEMMA OthersWait ==
  ASSUME TypeOK, NEW c \in Clients, Step(c)
  PROVE  \A d \in Clients \ {c} : req'[d] = req[d]
  <1> USE DEF TypeOK
  <1>1. CASE RegisterStep(c)
    BY <1>1 DEF RegisterStep, StartRegister, StartTeam, LockEvent, CountSeats, FindAttendees,
                CheckOnce, Checks, SaveAttendee, InsertSolo, CommitTeam, Start, Goto, Done
  <1>2. CASE DeletionStep(c)
    BY <1>2 DEF DeletionStep, StartDelete, StartRestore, SaveDeleted, ReadEvent, SaveRestored,
                Start, Done
  <1>3. CASE ExceptionStep(c)
    BY <1>3 DEF ExceptionStep, StartSubmit, StartDecision, InsertException, SaveDecision,
                InsertApproved, Start, Goto, Done
  <1>4. CASE EventStep(c) \/ Abort(c)
    BY <1>4 DEF EventStep, StartCapacity, SetCapacity, StartAckLock, SaveEvent, Abort, Start,
                Done
  <1>5. QED BY <1>1, <1>2, <1>3, <1>4 DEF Step

(* A row keeps its person, its event and where it came from. *)
RowKept(r) ==
  /\ reg'[r].who = reg[r].who /\ reg'[r].event = reg[r].event
  /\ reg'[r].via = reg[r].via

(* Three kinds of step write registrations: the rows a form or an approval   *)
(* inserts, a deletion and a restore.                                        *)
Inserting(c) == InsertSolo(c) \/ InsertApproved(c) \/ (CommitTeam(c) /\ ~EmailTaken(c))
Source(c) == IF req[c].op = "approve" THEN req[c].row ELSE Form

LEMMA InsertingAdds ==
  ASSUME Inv, NEW c \in Clients, Inserting(c)
  PROVE  /\ req[c] \in ActiveRequest /\ req[c] # NoReq /\ RequestOK(c)
         /\ InsertRegistrations(req[c].who, req[c].event, Source(c))
         /\ Source(c) \in Excs \cup {Form}
         /\ req'[c] = NoReq
  <1>1. req[c] \in ActiveRequest /\ req[c] # NoReq /\ RequestOK(c)
    BY Active DEF Inserting, InsertSolo, InsertApproved, CommitTeam, Inv
  <1>2. req'[c] = NoReq
    BY DEF Inserting, InsertSolo, InsertApproved, CommitTeam, Done, Inv, TypeOK
  <1>3. CASE InsertApproved(c)
    <2>1. req[c].op = "approve"
      BY <1>1, <1>3 DEF InsertApproved, RequestOK, Phases, ActiveRequest, AllOps
    <2>2. req[c].row \in Excs
      BY <1>1, <2>1 DEF RequestOK
    <2>3. QED BY <1>1, <1>2, <1>3, <2>1, <2>2 DEF InsertApproved, Source
  <1>4. CASE InsertSolo(c)
    <2>1. req[c].op = "register"
      BY <1>1, <1>4 DEF InsertSolo, RequestOK, Phases, ActiveRequest, AllOps
    <2>2. QED BY <1>1, <1>2, <1>4, <2>1 DEF InsertSolo, Source
  <1>5. CASE CommitTeam(c) /\ ~EmailTaken(c)
    BY <1>1, <1>2, <1>5 DEF CommitTeam, Source
  <1>6. QED BY <1>3, <1>4, <1>5 DEF Inserting

(* A deletion or a restore writes the mark of one row. *)
LEMMA Marking ==
  ASSUME Inv, NEW c \in Clients, SaveDeleted(c) \/ SaveRestored(c)
  PROVE  /\ req[c] \in ActiveRequest /\ req[c] # NoReq /\ RequestOK(c)
         /\ req[c].row \in Rows
         /\ req[c].op = IF SaveDeleted(c) THEN "delete" ELSE "restore"
         /\ Rows' = Rows /\ \A r \in Rows : RowKept(r)
         /\ \A r \in Rows \ {req[c].row} : reg'[r] = reg[r]
         /\ SaveDeleted(c) => reg'[req[c].row].deleted = TRUE
         /\ SaveRestored(c) => reg'[req[c].row].deleted = FALSE
         /\ req'[c] = NoReq
  <1>1. req[c] \in ActiveRequest /\ req[c] # NoReq /\ RequestOK(c)
    BY Active DEF SaveDeleted, SaveRestored, Inv
  <1>2. req[c].op = IF SaveDeleted(c) THEN "delete" ELSE "restore"
    BY <1>1 DEF SaveDeleted, SaveRestored, RequestOK, Phases, ActiveRequest, AllOps
  <1>3. req'[c] = NoReq
    BY DEF SaveDeleted, SaveRestored, Done, Inv, TypeOK
  <1>4. PICK r \in Regs : r = req[c].row /\ reg[r] \in Registration
    BY <1>1, <1>2 DEF RequestOK
  <1>5. PICK b \in BOOLEAN : /\ reg' = [reg EXCEPT ![r] = [reg[r] EXCEPT !.deleted = b]]
                             /\ b = IF SaveDeleted(c) THEN TRUE ELSE FALSE
    BY <1>4 DEF SaveDeleted, SaveRestored, Inv, TypeOK
  <1>6. /\ reg'[r] \in Registration /\ reg[r] # NoRow /\ reg'[r] # NoRow
        /\ reg'[r].deleted = b /\ RowKept(r)
        /\ \A s \in Regs \ {r} : reg'[s] = reg[s]
    <2> DEFINE row == [reg[r] EXCEPT !.deleted = b]
    <2>1. /\ row \in Registration /\ row.deleted = b /\ row.who = reg[r].who
          /\ row.event = reg[r].event /\ row.via = reg[r].via
      BY <1>4 DEF Registration
    <2>2. NoRow \notin Registration
      BY DEF NoRow, Registration
    <2>3. reg'[r] = row /\ \A s \in Regs \ {r} : reg'[s] = reg[s]
      BY <1>5 DEF Inv, TypeOK
    <2> HIDE DEF row
    <2>4. QED BY <1>4, <2>1, <2>2, <2>3 DEF RowKept
  <1>7. Rows' = Rows /\ r \in Rows
    BY <1>6 DEF Rows
  <1>8. \A s \in Rows \ {r} : reg'[s] = reg[s]
    BY <1>6 DEF Rows
  <1>9. SaveRestored(c) => ~SaveDeleted(c)
    BY DEF SaveDeleted, SaveRestored
  <1>10. QED BY <1>1, <1>2, <1>3, <1>4, <1>5, <1>6, <1>7, <1>8, <1>9 DEF RowKept

(* No other step writes them. *)
LEMMA OtherStepsKeepRows ==
  ASSUME NEW c \in Clients, Step(c), ~Inserting(c), ~SaveDeleted(c), ~SaveRestored(c)
  PROVE  UNCHANGED reg
  <1> USE DEF tables
  <1>1. CASE RegisterStep(c)
    BY <1>1 DEF RegisterStep, StartRegister, StartTeam, LockEvent, CountSeats, FindAttendees,
                CheckOnce, Checks, SaveAttendee, CommitTeam, Inserting
  <1>2. CASE DeletionStep(c)
    BY <1>2 DEF DeletionStep, StartDelete, StartRestore, ReadEvent
  <1>3. CASE ExceptionStep(c)
    BY <1>3 DEF ExceptionStep, StartSubmit, StartDecision, InsertException, SaveDecision,
                Inserting
  <1>4. CASE EventStep(c) \/ Abort(c)
    BY <1>4 DEF EventStep, StartCapacity, SetCapacity, StartAckLock, SaveEvent, Abort
  <1>5. QED BY <1>1, <1>2, <1>3, <1>4 DEF Step

-----------------------------------------------------------------------------
(* What a request relies on, unless another one overtook it. *)

(* The seats it read are still there, and what it counted leaves room. *)
PastCount == {"find", "once", "save", "insert", "capacity"}
SeatsRead(c) ==
  req[c].event \in Room(c) \ overtaken[c].events =>
    /\ req[c].pc # "capacity" => req[c].seats <= capacity[req[c].event]
    /\ req[c].pc \in PastCount =>
         Cardinality(Live(req[c].event)) + Cardinality(req[c].who) <= req[c].seats

(* The people it checked, or did not find, may be registered.  Those it did  *)
(* not find have no row at all when it saves them.                          *)
PeopleRead(c) ==
  /\ req[c].op \in {"submit", "approve", "reject"} => req[c].who \subseteq attendees
  /\ req[c].op \in {"register", "team"} =>
       /\ req[c].found \subseteq req[c].who
       /\ req[c].pc = "save" => req[c].ask = {}
       /\ req[c].pc \in {"once", "save"} =>
            \A p \in (req[c].found \ req[c].ask) \ overtaken[c].people :
              ~Blocked(p, req[c].event)
       /\ req[c].pc = "insert" =>
            /\ req[c].who \subseteq attendees
            /\ \A p \in req[c].who \ overtaken[c].people : ~Blocked(p, req[c].event)

(* The row to be restored is the one it read. *)
RowRead(c) ==
  req[c].op = "restore" =>
    /\ req[c].who = {reg[req[c].row].who}
    /\ req[c].event = reg[req[c].row].event

(* The exception request it approves has registered nobody. *)
ExceptionRead(c) ==
  req[c].op = "approve" =>
    /\ req[c].pc = "approved" => exc[req[c].row].status # "pending"
    /\ \E p \in People : req[c].who = {p}
    /\ req[c].row \notin overtaken[c].excs => Via(req[c].row) = {}

Reads(c) ==
  req[c] # NoReq => SeatsRead(c) /\ PeopleRead(c) /\ RowRead(c) /\ ExceptionRead(c)

(* Whoever is registered or asked for an exception has an attendee row; a    *)
(* registration that came from an exception shows that it was decided.       *)
ExceptionsAreAttendees == \A x \in Excs : exc[x] # NoRow => exc[x].who \in attendees
ViaDecided ==
  \A x \in Excs : Via(x) # {} => exc[x] # NoRow /\ exc[x].status # "pending"

FollowInv ==
  /\ Inv
  /\ RegisteredAreAttendees /\ ExceptionsAreAttendees /\ ViaDecided
  /\ \A c \in Clients : Reads(c)

LEMMA FollowInit == FollowedInit => FollowInv
  <1> SUFFICES ASSUME FollowedInit PROVE FollowInv
    OBVIOUS
  <1>1. Inv /\ Rows = {}
    BY InitInv DEF FollowedInit, Init, Rows
  <1>2. QED
    BY <1>1 DEF FollowInv, RegisteredAreAttendees, ExceptionsAreAttendees, ViaDecided, Via,
                Reads, FollowedInit, Init

(* What every step keeps: attendees and rows stay, and so do decisions. *)
DecidedStay ==
  \A x \in Excs : exc[x] # NoRow /\ exc[x].status # "pending" =>
                    exc'[x] # NoRow /\ exc'[x].status # "pending"
Keeping ==
  /\ attendees \subseteq attendees'
  /\ \A r \in Rows : r \in Rows' /\ RowKept(r)
  /\ DecidedStay

(* A request that takes no part in a step still has what it relies on:       *)
(* either it has been overtaken, or the step took nothing it read.           *)
LEMMA OthersRead ==
  ASSUME FollowInv, Inv', Follow, Keeping, NEW d \in Clients, req'[d] = req[d]
  PROVE  Reads(d)'
  <1> SUFFICES ASSUME req[d] # NoReq
               PROVE  SeatsRead(d)' /\ PeopleRead(d)' /\ RowRead(d)' /\ ExceptionRead(d)'
    BY DEF Reads
  <1>1. /\ req[d] \in ActiveRequest /\ RequestOK(d)
        /\ SeatsRead(d) /\ PeopleRead(d) /\ RowRead(d) /\ ExceptionRead(d)
    BY DEF FollowInv, Inv, TypeOK, Reads
  <1>2. /\ overtaken'[d].events = overtaken[d].events \cup {e \in Room(d) : Tightens(e)}
        /\ overtaken'[d].people = overtaken[d].people \cup {p \in Alone(d) : GivesSeat(p)}
        /\ overtaken'[d].excs = overtaken[d].excs \cup {x \in Loaded(d) : Grants(x)}
    BY DEF Follow, Moves
  <1>3. PICK f \in Events, P \in SUBSET People : f = req[d].event /\ P = req[d].who
    BY <1>1 DEF ActiveRequest
  <1>4. ASSUME f \in Room(d) \ overtaken'[d].events
        PROVE  /\ f \notin overtaken[d].events /\ Live(f)' \subseteq Live(f)
               /\ capacity[f] <= capacity'[f] /\ Cardinality(Live(f)') <= Cardinality(Live(f))
               /\ Cardinality(Live(f)') \in Nat /\ Cardinality(Live(f)) \in Nat
               /\ capacity[f] \in Nat /\ capacity'[f] \in Nat
    <2>1. ~Tightens(f) /\ f \notin overtaken[d].events
      BY <1>2, <1>4
    <2>2. capacity[f] \in Nat /\ capacity'[f] \in Nat
      BY DEF FollowInv, Inv, TypeOK
    <2>3. Live(f)' \subseteq Live(f)
      BY <2>1 DEF Tightens
    <2>4. Cardinality(Live(f)') <= Cardinality(Live(f)) /\ Cardinality(Live(f)') \in Nat
      BY <2>3, LiveFinite, FS_Subset, FS_CardinalityType
    <2>5. QED BY <2>1, <2>2, <2>3, <2>4, LiveFinite DEF Tightens
  <1>5. Cardinality(P) \in Nat /\ req[d].seats \in Nat
    BY <1>1, SeatsAssumption, FS_Subset, FS_CardinalityType DEF ActiveRequest
  <1>6. SeatsRead(d)'
    <2>1. Room(d)' = Room(d)
      BY DEF Room
    <2>2. QED BY <1>1, <1>3, <1>4, <1>5, <2>1 DEF SeatsRead
  <1>7. ASSUME NEW p \in Alone(d), p \notin overtaken'[d].people, Blocked(p, f)'
        PROVE  p \notin overtaken[d].people /\ Blocked(p, f)
    <2>1. ~GivesSeat(p) /\ p \notin overtaken[d].people
      BY <1>2, <1>7
    <2>2. \A e \in Events : Seats(p, e)' \subseteq Seats(p, e)
      BY <2>1 DEF GivesSeat
    <2>3. QED BY <1>7, <2>1, <2>2 DEF Blocked
  <1>8. PeopleRead(d)'
    BY <1>1, <1>3, <1>7 DEF PeopleRead, Keeping, Alone
  <1>9. RowRead(d)'
    <2>1. ASSUME req[d].op = "restore" PROVE RowKept(req[d].row)
      <3>1. req[d].row \in Rows
        BY <1>1, <2>1 DEF RequestOK, Rows, Registration, NoRow
      <3>2. QED BY <3>1 DEF Keeping
    <2>2. QED BY <1>1, <2>1 DEF RowRead, RowKept
  <1>10. ExceptionRead(d)'
    <2>1. CASE req[d].op = "approve"
      <3>1. PICK x \in Excs : x = req[d].row /\ exc[x] # NoRow
        BY <1>1, <2>1 DEF RequestOK, Exception, NoRow
      <3>2. ASSUME x \notin overtaken'[d].excs PROVE x \notin overtaken[d].excs /\ Via(x)' = {}
        <4>1. ~Grants(x) /\ x \notin overtaken[d].excs
          BY <1>2, <2>1, <3>1, <3>2 DEF Loaded
        <4>2. QED BY <1>1, <2>1, <3>1, <4>1 DEF ExceptionRead, Grants
      <3>3. QED BY <1>1, <2>1, <3>1, <3>2 DEF ExceptionRead, Keeping, DecidedStay
    <2>2. QED BY <2>1 DEF ExceptionRead
  <1>11. QED BY <1>6, <1>8, <1>9, <1>10

(* The handler's own steps.  Until it writes, it is overtaken no less than   *)
(* before, and the tables are as they were.                                 *)
LEMMA OwnOvertaken ==
  ASSUME Follow, NEW c \in Clients, req[c] # NoReq, req'[c] # NoReq
  PROVE  /\ overtaken[c].events \subseteq overtaken'[c].events
         /\ overtaken[c].people \subseteq overtaken'[c].people
         /\ overtaken[c].excs \subseteq overtaken'[c].excs
  BY DEF Follow

LEMMA SameTables ==
  ASSUME reg' = reg
  PROVE  /\ Rows' = Rows
         /\ \A e : Live(e)' = Live(e) /\ \A p : Seats(p, e)' = Seats(p, e)
         /\ \A p, e : Blocked(p, e)' <=> Blocked(p, e)
         /\ \A x : Via(x)' = Via(x)
         /\ \A r \in Rows : r \in Rows' /\ RowKept(r)
  <1>1. Rows' = Rows
    BY DEF Rows
  <1>2. \A e : Live(e)' = Live(e) /\ \A p : Seats(p, e)' = Seats(p, e)
    BY <1>1 DEF Live, Seats
  <1>3. \A p, e : Blocked(p, e)' <=> Blocked(p, e)
    BY <1>2 DEF Blocked
  <1>4. QED BY <1>1, <1>2, <1>3 DEF Via, RowKept

(* register() and registerTeam() up to their INSERTs, and a restore's count. *)
LEMMA OwnRegister ==
  ASSUME FollowInv, Inv', Follow, NEW c \in Clients, RegisterStep(c), ~Inserting(c)
  PROVE  Reads(c)' /\ UNCHANGED <<reg, exc, capacity>> /\ attendees \subseteq attendees'
  <1> USE DEF tables
  <1>1. UNCHANGED <<reg, exc, capacity>> /\ attendees \subseteq attendees'
    BY DEF RegisterStep, StartRegister, StartTeam, LockEvent, CountSeats, FindAttendees,
           CheckOnce, Checks, SaveAttendee, Inserting, CommitTeam
  <1>2. /\ \A e : Live(e)' = Live(e)
        /\ \A p, e : Blocked(p, e)' <=> Blocked(p, e)
    BY <1>1, SameTables
  <1>3. ASSUME NEW p \in People, NEW e \in Events, StartRegister(c, p, e)
        PROVE  Reads(c)'
    <2>1. req'[c] = [pc |-> "count", op |-> "register", who |-> {p}, event |-> e,
                     seats |-> capacity[e], found |-> {}, ask |-> {}, row |-> Form]
      BY <1>3 DEF StartRegister, Start, SeatsAt, FollowInv, Inv, TypeOK
    <2>2. capacity[e] \in Nat
      BY DEF FollowInv, Inv, TypeOK
    <2>3. QED
      BY <1>1, <2>1, <2>2
        DEF Reads, SeatsRead, PeopleRead, RowRead, ExceptionRead, PastCount
  <1>4. ASSUME NEW P \in SUBSET People, NEW e \in Events, StartTeam(c, P, e)
        PROVE  Reads(c)'
    <2>1. req'[c] = [pc |-> "lock", op |-> "team", who |-> P, event |-> e,
                     seats |-> capacity[e], found |-> {}, ask |-> {}, row |-> Form]
      BY <1>4 DEF StartTeam, Start, SeatsAt, FollowInv, Inv, TypeOK
    <2>2. capacity[e] \in Nat
      BY DEF FollowInv, Inv, TypeOK
    <2>3. QED
      BY <1>1, <2>1, <2>2
        DEF Reads, SeatsRead, PeopleRead, RowRead, ExceptionRead, PastCount
  <1>5. ASSUME req'[c] = NoReq PROVE Reads(c)'
    BY <1>5 DEF Reads
  <1>6. ASSUME req'[c] # NoReq,
               LockEvent(c) \/ CountSeats(c) \/ FindAttendees(c) \/ Checks(c)
                 \/ SaveAttendee(c)
        PROVE  Reads(c)'
    <2>1. /\ req[c] \in ActiveRequest /\ req[c] # NoReq /\ RequestOK(c)
          /\ SeatsRead(c) /\ PeopleRead(c) /\ RowRead(c) /\ ExceptionRead(c)
      BY <1>6, Active
        DEF FollowInv, Inv, Reads, LockEvent, CountSeats, FindAttendees, CheckOnce, Checks,
            SaveAttendee
    <2>2. /\ overtaken[c].events \subseteq overtaken'[c].events
          /\ overtaken[c].people \subseteq overtaken'[c].people
      BY <1>6, <2>1, OwnOvertaken
    <2>3. PICK f \in Events, P \in SUBSET People : f = req[c].event /\ P = req[c].who
      BY <2>1 DEF ActiveRequest
    <2>4. ~Done(c)
      BY <1>6 DEF Done, FollowInv, Inv, TypeOK
    <2>5. /\ req'[c].op = req[c].op /\ req'[c].seats = req[c].seats /\ req'[c].event = f
          /\ req'[c].who = P /\ req'[c].row = req[c].row
          /\ req'[c].pc \in {"count", "find", "once", "save", "insert"}
      <3> USE DEF FollowInv, Inv, TypeOK, ActiveRequest, Asking
      <3>1. CASE FindAttendees(c)
        BY <2>1, <2>3, <3>1 DEF FindAttendees
      <3>2. CASE Checks(c)
        BY <2>1, <2>3, <2>4, <3>2 DEF CheckOnce, Checks
      <3>3. CASE LockEvent(c) \/ CountSeats(c) \/ SaveAttendee(c)
        BY <2>1, <2>3, <2>4, <3>3 DEF LockEvent, CountSeats, SaveAttendee, Goto
      <3>4. QED BY <1>6, <3>1, <3>2, <3>3
    <2>6. req[c].op \in {"register", "team", "restore"}
      BY <1>6, <2>1
        DEF LockEvent, CountSeats, FindAttendees, CheckOnce, Checks, SaveAttendee, RequestOK,
            Phases, ActiveRequest, AllOps
    <2>7. SeatsRead(c)'
      <3>1. req[c].pc \in PastCount \/ req'[c].pc = "count"
              \/ Cardinality(Live(f)) + Cardinality(P) <= req[c].seats
        <4>1. CASE LockEvent(c)
          BY <2>1, <4>1 DEF LockEvent, Goto, FollowInv, Inv, TypeOK, ActiveRequest
        <4>2. CASE CountSeats(c)
          BY <2>3, <2>4, <4>2 DEF CountSeats, Fits
        <4>3. CASE FindAttendees(c) \/ Checks(c) \/ SaveAttendee(c)
          BY <4>3 DEF FindAttendees, CheckOnce, Checks, SaveAttendee, PastCount
        <4>4. QED BY <1>6, <4>1, <4>2, <4>3
      <3>2. req[c].pc # "capacity"
        BY <1>6 DEF LockEvent, CountSeats, FindAttendees, CheckOnce, Checks, SaveAttendee
      <3>3. QED
        BY <1>1, <1>2, <2>1, <2>2, <2>3, <2>5, <3>1, <3>2 DEF SeatsRead, PastCount, Room
    <2>8. RowRead(c)' /\ ExceptionRead(c)'
      BY <1>1, <2>1, <2>3, <2>5, <2>6 DEF RowRead, ExceptionRead
    <2>9. PeopleRead(c)'
      <3>1. CASE req[c].op = "restore"
        BY <2>5, <3>1 DEF PeopleRead
      <3>2. CASE req[c].op # "restore" /\ (LockEvent(c) \/ CountSeats(c))
        <4>1. req'[c].found = req[c].found /\ req'[c].pc \in {"count", "find"}
          BY <2>1, <2>4, <3>2
            DEF LockEvent, CountSeats, Goto, FollowInv, Inv, TypeOK, ActiveRequest
        <4>2. QED BY <2>1, <2>3, <2>5, <2>6, <3>2, <4>1 DEF PeopleRead
      <3>3. CASE req[c].op # "restore" /\ FindAttendees(c)
        <4>1. /\ req'[c].found \subseteq P /\ req'[c].ask = req'[c].found
              /\ req'[c].pc = Asking(req'[c].ask)
          BY <2>1, <2>3, <3>3 DEF FindAttendees, FollowInv, Inv, TypeOK, ActiveRequest
        <4>2. QED BY <2>5, <2>6, <3>3, <4>1 DEF PeopleRead, Asking
      <3>4. CASE req[c].op # "restore" /\ Checks(c)
        <4>1. PICK p \in People : CheckOnce(c, p)
          BY <3>4 DEF Checks
        <4>2. /\ req'[c].found = req[c].found /\ req'[c].ask = req[c].ask \ {p}
              /\ req'[c].pc = Asking(req'[c].ask) /\ req[c].pc = "once"
              /\ ~Blocked(p, f)
          BY <2>1, <2>3, <2>4, <4>1
            DEF CheckOnce, FollowInv, Inv, TypeOK, ActiveRequest
        <4>3. QED
          BY <1>2, <2>1, <2>2, <2>3, <2>5, <2>6, <3>4, <4>2 DEF PeopleRead, Asking
      <3>5. CASE req[c].op # "restore" /\ SaveAttendee(c)
        <4>1. /\ req[c].pc = "save" /\ req'[c].pc = "insert" /\ req'[c].found = req[c].found
              /\ attendees' = attendees \cup P /\ ~EmailTaken(c)
          BY <2>1, <2>3, <2>4, <3>5
            DEF SaveAttendee, Goto, FollowInv, Inv, TypeOK, ActiveRequest
        <4>2. ASSUME NEW p \in P, p \notin req[c].found PROVE ~Blocked(p, f)
          <5>1. p \notin attendees
            BY <2>3, <4>1, <4>2 DEF EmailTaken, NewPeople
          <5>2. \A e : Seats(p, e) = {}
            BY <5>1 DEF Seats, Live, FollowInv, RegisteredAreAttendees
          <5>3. QED BY <5>2 DEF Blocked
        <4>3. \A p \in P \ overtaken'[c].people : ~Blocked(p, f)
          BY <2>1, <2>2, <2>3, <2>6, <3>5, <4>1, <4>2 DEF PeopleRead
        <4>4. QED BY <1>2, <2>1, <2>3, <2>5, <2>6, <3>5, <4>1, <4>3 DEF PeopleRead
      <3>6. QED BY <1>6, <3>1, <3>2, <3>3, <3>4, <3>5
    <2>10. QED BY <2>7, <2>8, <2>9 DEF Reads
  <1>7. ASSUME CommitTeam(c) PROVE Reads(c)'
    BY <1>5, <1>7 DEF CommitTeam, Done, FollowInv, Inv, TypeOK
  <1>8. Reads(c)'
    BY <1>3, <1>4, <1>5, <1>6, <1>7 DEF RegisterStep, Inserting, Checks
  <1>9. QED BY <1>1, <1>8

(* softDeleteRegistration() and restoreRegistration(). *)
LEMMA OwnDeletion ==
  ASSUME FollowInv, Inv', Follow, NEW c \in Clients, DeletionStep(c)
  PROVE  Reads(c)' /\ UNCHANGED <<exc, attendees, capacity>>
  <1> USE DEF tables
  <1>1. UNCHANGED <<exc, attendees, capacity>>
    BY DEF DeletionStep, StartDelete, StartRestore, SaveDeleted, ReadEvent, SaveRestored
  <1>2. ASSUME NEW r \in Regs, StartDelete(c, r) PROVE Reads(c)'
    <2>1. PICK e \in Events : e = reg[r].event /\ capacity[e] \in Nat
      BY <1>2 DEF StartDelete, Rows, FollowInv, Inv, TypeOK, Registration
    <2>2. req'[c] = [pc |-> "delete", op |-> "delete", who |-> {reg[r].who}, event |-> e,
                     seats |-> 0, found |-> {}, ask |-> {}, row |-> r]
      BY <1>2, <2>1 DEF StartDelete, Start, SeatsAt, FollowInv, Inv, TypeOK
    <2>3. QED
      BY <1>1, <2>1, <2>2
        DEF Reads, SeatsRead, PeopleRead, RowRead, ExceptionRead, PastCount
  <1>3. ASSUME NEW r \in Regs, StartRestore(c, r) PROVE Reads(c)'
    <2>1. PICK e \in Events : e = reg[r].event /\ capacity[e] \in Nat
      BY <1>3 DEF StartRestore, Rows, FollowInv, Inv, TypeOK, Registration
    <2>2. /\ req'[c] = [pc |-> "event", op |-> "restore", who |-> {reg[r].who}, event |-> e,
                        seats |-> 0, found |-> {}, ask |-> {}, row |-> r]
          /\ reg' = reg
      BY <1>3, <2>1 DEF StartRestore, Start, SeatsAt, FollowInv, Inv, TypeOK
    <2>3. QED
      BY <1>1, <2>1, <2>2
        DEF Reads, SeatsRead, PeopleRead, RowRead, ExceptionRead, PastCount
  <1>4. CASE ReadEvent(c)
    <2>1. /\ req[c] \in ActiveRequest /\ req[c] # NoReq /\ RequestOK(c)
          /\ RowRead(c)
      BY <1>4, Active DEF FollowInv, Inv, Reads, ReadEvent
    <2>2. req[c].op = "restore"
      BY <1>4, <2>1 DEF ReadEvent, RequestOK, Phases, ActiveRequest, AllOps
    <2>3. PICK e \in Events : e = req[c].event /\ capacity[e] \in Nat
      BY <2>1 DEF FollowInv, Inv, TypeOK, ActiveRequest
    <2>4. /\ req'[c].op = "restore" /\ req'[c].pc = "count" /\ req'[c].seats = capacity[e]
          /\ req'[c].event = e /\ req'[c].who = req[c].who /\ req'[c].row = req[c].row
          /\ reg' = reg
      BY <1>4, <2>1, <2>2, <2>3 DEF ReadEvent, FollowInv, Inv, TypeOK, ActiveRequest
    <2>5. QED
      BY <1>1, <2>1, <2>2, <2>3, <2>4
        DEF Reads, SeatsRead, PeopleRead, RowRead, ExceptionRead, PastCount
  <1>5. CASE SaveDeleted(c) \/ SaveRestored(c)
    BY <1>5 DEF SaveDeleted, SaveRestored, Done, FollowInv, Inv, TypeOK, Reads
  <1>6. QED BY <1>1, <1>2, <1>3, <1>4, <1>5 DEF DeletionStep

(* ExceptionsService. *)
LEMMA OwnException ==
  ASSUME FollowInv, Inv', Follow, NEW c \in Clients, ExceptionStep(c), ~InsertApproved(c)
  PROVE  /\ Reads(c)' /\ UNCHANGED <<reg, attendees, capacity>> /\ DecidedStay
         /\ ExceptionsAreAttendees'
  <1> USE DEF tables
  <1>1. UNCHANGED <<reg, attendees, capacity>>
    BY DEF ExceptionStep, StartSubmit, StartDecision, InsertException, SaveDecision
  <1>2. \A x : Via(x)' = Via(x)
    BY <1>1, SameTables
  <1>3. ASSUME NEW p \in People, NEW e \in Events, StartSubmit(c, p, e)
        PROVE  Reads(c)' /\ exc' = exc
    <2>1. /\ req'[c] = [pc |-> "submit", op |-> "submit", who |-> {p}, event |-> e,
                        seats |-> 0, found |-> {}, ask |-> {}, row |-> Form]
          /\ exc' = exc /\ p \in attendees /\ capacity[e] \in Nat
      BY <1>3 DEF StartSubmit, Start, SeatsAt, FollowInv, Inv, TypeOK
    <2>2. QED
      BY <1>1, <2>1
        DEF Reads, SeatsRead, PeopleRead, RowRead, ExceptionRead, PastCount
  <1>4. ASSUME NEW x \in Excs, NEW op \in {"approve", "reject"}, StartDecision(c, op, x)
        PROVE  Reads(c)' /\ exc' = exc
    <2>1. exc[x] \in Exception /\ exc[x] # NoRow /\ exc[x].status = "pending"
      BY <1>4 DEF StartDecision, Processable, FollowInv, Inv, TypeOK
    <2>2. PICK e \in Events, p \in People :
            e = exc[x].event /\ p = exc[x].who /\ capacity[e] \in Nat
      BY <2>1 DEF Exception, FollowInv, Inv, TypeOK
    <2>3. /\ req'[c] = [pc |-> "decide", op |-> op, who |-> {p}, event |-> e,
                        seats |-> 0, found |-> {}, ask |-> {}, row |-> x]
          /\ exc' = exc
      BY <1>4, <2>2 DEF StartDecision, Start, SeatsAt, FollowInv, Inv, TypeOK
    <2>4. Via(x) = {} /\ p \in attendees
      BY <2>1, <2>2 DEF FollowInv, ViaDecided, ExceptionsAreAttendees
    <2>5. QED
      BY <1>1, <1>2, <2>2, <2>3, <2>4
        DEF Reads, SeatsRead, PeopleRead, RowRead, ExceptionRead, PastCount
  <1>5. ASSUME InsertException(c)
        PROVE  Reads(c)' /\ DecidedStay /\ ExceptionsAreAttendees'
    <2>1. /\ req[c] \in ActiveRequest /\ req[c] # NoReq /\ RequestOK(c) /\ PeopleRead(c)
      BY <1>5, Active DEF InsertException, FollowInv, Inv, Reads
    <2>2. req[c].op = "submit"
      BY <1>5, <2>1 DEF InsertException, RequestOK, Phases, ActiveRequest, AllOps
    <2>3. PICK y \in Excs, p \in req[c].who :
            /\ exc[y] = NoRow
            /\ exc' = [exc EXCEPT ![y] = [who |-> p, event |-> req[c].event,
                                          status |-> "pending"]]
      BY <1>5 DEF InsertException
    <2>4. p \in attendees
      BY <2>1, <2>2 DEF PeopleRead
    <2>5. exc'[y].who = p /\ \A x \in Excs \ {y} : exc'[x] = exc[x]
      BY <2>3 DEF FollowInv, Inv, TypeOK
    <2>6. ExceptionsAreAttendees' /\ DecidedStay
      BY <1>1, <2>3, <2>4, <2>5 DEF FollowInv, ExceptionsAreAttendees, DecidedStay
    <2>7. req'[c] = NoReq
      BY <1>5 DEF InsertException, Done, FollowInv, Inv, TypeOK
    <2>8. QED BY <2>6, <2>7 DEF Reads
  <1>6. ASSUME SaveDecision(c)
        PROVE  Reads(c)' /\ DecidedStay /\ ExceptionsAreAttendees'
    <2>1. /\ req[c] \in ActiveRequest /\ req[c] # NoReq /\ RequestOK(c)
          /\ SeatsRead(c) /\ PeopleRead(c) /\ ExceptionRead(c)
      BY <1>6, Active DEF SaveDecision, FollowInv, Inv, Reads
    <2>2. req[c].op \in {"approve", "reject"}
      BY <1>6, <2>1 DEF SaveDecision, RequestOK, Phases, ActiveRequest, AllOps
    <2>3. PICK x \in Excs : x = req[c].row /\ exc[x] \in Exception
      BY <2>1, <2>2 DEF RequestOK
    <2>4. exc' = [exc EXCEPT ![x] = [exc[x] EXCEPT !.status = DecisionOf(req[c].op)]]
      BY <1>6, <2>3 DEF SaveDecision, FollowInv, Inv, TypeOK
    <2> DEFINE new == [exc[x] EXCEPT !.status = DecisionOf(req[c].op)]
    <2>5. /\ new \in Exception /\ new.status # "pending" /\ new.who = exc[x].who
          /\ NoRow \notin Exception
      BY <2>2, <2>3 DEF Exception, ExcStatus, DecisionOf, NoRow
    <2>6. exc'[x] = new /\ \A y \in Excs \ {x} : exc'[y] = exc[y]
      BY <2>3, <2>4 DEF FollowInv, Inv, TypeOK
    <2> HIDE DEF new
    <2>7. exc[x] # NoRow /\ exc'[x] # NoRow /\ exc'[x].status # "pending"
            /\ exc'[x].who = exc[x].who
      BY <2>3, <2>5, <2>6
    <2>8. DecidedStay /\ ExceptionsAreAttendees'
      BY <1>1, <2>6, <2>7 DEF DecidedStay, FollowInv, ExceptionsAreAttendees
    <2>9. CASE req[c].op = "approve"
      <3>1. /\ req'[c] # NoReq /\ req'[c].pc = "approved" /\ req'[c].op = "approve"
            /\ req'[c].row = x /\ req'[c].who = req[c].who /\ req'[c].event = req[c].event
            /\ req'[c].seats = req[c].seats
        BY <1>6, <2>1, <2>3, <2>9
          DEF SaveDecision, Goto, FollowInv, Inv, TypeOK, ActiveRequest, NoReq
      <3>2. /\ overtaken[c].events \subseteq overtaken'[c].events
            /\ overtaken[c].excs \subseteq overtaken'[c].excs
        BY <2>1, <3>1, OwnOvertaken
      <3>3. ExceptionRead(c)'
        BY <1>2, <2>1, <2>3, <2>7, <2>9, <3>1, <3>2 DEF ExceptionRead
      <3>4. SeatsRead(c)'
        BY <3>1 DEF SeatsRead, Room
      <3>5. PeopleRead(c)' /\ RowRead(c)'
        BY <1>1, <2>1, <2>9, <3>1 DEF PeopleRead, RowRead
      <3>6. QED BY <2>8, <3>3, <3>4, <3>5 DEF Reads
    <2>10. CASE req[c].op # "approve"
      <3>1. req'[c] = NoReq
        BY <1>6, <2>10 DEF SaveDecision, Done, FollowInv, Inv, TypeOK
      <3>2. QED BY <2>8, <3>1 DEF Reads
    <2>11. QED BY <2>9, <2>10
  <1>7. ASSUME exc' = exc PROVE DecidedStay /\ ExceptionsAreAttendees'
    BY <1>1, <1>7 DEF DecidedStay, FollowInv, ExceptionsAreAttendees
  <1>8. QED BY <1>1, <1>3, <1>4, <1>5, <1>6, <1>7 DEF ExceptionStep

(* EventsService.update(), and a request that dies. *)
LEMMA OwnEvent ==
  ASSUME FollowInv, Inv', Follow, NEW c \in Clients, EventStep(c) \/ Abort(c)
  PROVE  Reads(c)' /\ UNCHANGED <<reg, exc, attendees>>
  <1> USE DEF tables
  <1>1. UNCHANGED <<reg, exc, attendees>>
    BY DEF EventStep, StartCapacity, SetCapacity, StartAckLock, SaveEvent, Abort
  <1>2. ASSUME NEW e \in Events, NEW n \in Settable, StartCapacity(c, e, n)
        PROVE  Reads(c)'
    <2>1. /\ req'[c] = [pc |-> "capacity", op |-> "capacity", who |-> {}, event |-> e,
                        seats |-> n, found |-> {}, ask |-> {}, row |-> Form]
          /\ Cardinality(Live(e)) <= n
      BY <1>2 DEF StartCapacity, FollowInv, Inv, TypeOK
    <2>2. Live(e)' = Live(e) /\ Cardinality(Live(e)) \in Nat
      BY <1>1, SameTables, LiveFinite
    <2>3. Cardinality({}) = 0 /\ n \in Nat
      BY FS_EmptySet, SeatsAssumption DEF Settable
    <2>4. QED
      BY <2>1, <2>2, <2>3 DEF Reads, SeatsRead, PeopleRead, RowRead, ExceptionRead
  <1>3. CASE SetsCapacity(c) \/ Abort(c)
    BY <1>3 DEF SetCapacity, SaveEvent, SetsCapacity, Abort, Done, FollowInv, Inv, TypeOK, Reads
  <1>4. ASSUME NEW e \in Events, StartAckLock(c, e) PROVE Reads(c)'
    <2>1. req'[c].op = "ackLock"
      BY <1>4 DEF StartAckLock, Start, FollowInv, Inv, TypeOK
    <2>2. QED
      BY <2>1 DEF Reads, SeatsRead, Room, PeopleRead, RowRead, ExceptionRead
  <1>5. QED BY <1>1, <1>2, <1>3, <1>4 DEF EventStep, SetsCapacity

(* An INSERT or a COMMIT: whom it registers has an attendee row, and the     *)
(* exception it comes from was decided.                                     *)
LEMMA InsertedFrom ==
  ASSUME FollowInv, NEW c \in Clients, Inserting(c)
  PROVE  /\ Keeping /\ RegisteredAreAttendees' /\ ExceptionsAreAttendees' /\ ViaDecided'
         /\ Reads(c)'
  <1>1. /\ req[c] \in ActiveRequest /\ req[c] # NoReq /\ RequestOK(c)
        /\ InsertRegistrations(req[c].who, req[c].event, Source(c))
        /\ Source(c) \in Excs \cup {Form}
        /\ req'[c] = NoReq /\ PeopleRead(c) /\ ExceptionRead(c)
    BY InsertingAdds DEF FollowInv, Reads
  <1>2. PICK P \in SUBSET People, f \in Events, v \in Excs \cup {Form} :
          P = req[c].who /\ f = req[c].event /\ v = Source(c)
    BY <1>1 DEF ActiveRequest
  <1>3. /\ \A r \in Rows : reg'[r] = reg[r] /\ r \in Rows'
        /\ \A r \in Rows' \ Rows : reg'[r].who \in P /\ reg'[r].via = v
    <2>1. InsertRegistrations(P, f, v)
      BY <1>1, <1>2
    <2>2. QED BY <2>1, InsertAdds
  <1>4. exc' = exc /\ attendees \subseteq attendees'
    BY DEF Inserting, InsertSolo, InsertApproved, CommitTeam
  <1>5. Keeping
    BY <1>3, <1>4 DEF Keeping, RowKept, DecidedStay
  <1>6. P \subseteq attendees'
    <2>1. CASE InsertSolo(c)
      <3>1. req[c].op = "register" /\ req[c].pc = "insert"
        BY <1>1, <2>1 DEF InsertSolo, RequestOK, Phases, ActiveRequest, AllOps
      <3>2. QED BY <1>1, <1>2, <1>4, <3>1 DEF PeopleRead
    <2>2. CASE InsertApproved(c)
      <3>1. req[c].op = "approve"
        BY <1>1, <2>2 DEF InsertApproved, RequestOK, Phases, ActiveRequest, AllOps
      <3>2. QED BY <1>1, <1>2, <1>4, <3>1 DEF PeopleRead
    <2>3. CASE CommitTeam(c) /\ ~EmailTaken(c)
      BY <1>2, <2>3 DEF CommitTeam
    <2>4. QED BY <2>1, <2>2, <2>3 DEF Inserting
  <1>7. RegisteredAreAttendees'
    BY <1>3, <1>4, <1>6 DEF FollowInv, RegisteredAreAttendees
  <1>8. ExceptionsAreAttendees'
    BY <1>4 DEF FollowInv, ExceptionsAreAttendees
  <1>9. ASSUME v \in Excs PROVE exc[v] # NoRow /\ exc[v].status # "pending"
    <2>1. req[c].op = "approve" /\ v = req[c].row
      BY <1>2, <1>9, SeatsAssumption DEF Source
    <2>2. req[c].pc \in {"decide", "approved"}
      BY <1>1, <2>1 DEF RequestOK, Phases
    <2>3. req[c].pc = "approved"
      BY <2>1, <2>2 DEF Inserting, InsertSolo, InsertApproved, CommitTeam
    <2>4. exc[v] # NoRow
      BY <1>1, <2>1 DEF RequestOK, Exception, NoRow
    <2>5. QED BY <1>1, <2>1, <2>3, <2>4 DEF ExceptionRead
  <1>10. ViaDecided'
    <2>1. ASSUME NEW x \in Excs, NEW r \in Via(x)'
          PROVE  exc[x] # NoRow /\ exc[x].status # "pending"
      <3>1. CASE r \in Rows
        BY <1>3, <2>1, <3>1 DEF Via, FollowInv, ViaDecided
      <3>2. CASE r \notin Rows
        BY <1>3, <1>9, <2>1, <3>2 DEF Via
      <3>3. QED BY <3>1, <3>2
    <2>2. QED BY <1>4, <2>1 DEF ViaDecided
  <1>11. QED BY <1>1, <1>5, <1>7, <1>8, <1>10 DEF Reads

LEMMA FollowStep ==
  ASSUME FollowInv, [FollowedNext]_followed PROVE FollowInv'
  <1> USE DEF tables
  <1>1. Inv'
    BY NextInv DEF FollowInv, FollowedNext, followed
  <1>2. ASSUME NEW c \in Clients, Step(c), Follow
        PROVE  FollowInv'
    <2>1. \A d \in Clients \ {c} : req'[d] = req[d]
      BY <1>2, OthersWait DEF FollowInv, Inv
    <2>2. ASSUME Keeping, Reads(c)', RegisteredAreAttendees', ExceptionsAreAttendees',
                 ViaDecided'
          PROVE  FollowInv'
      BY <1>1, <1>2, <2>1, <2>2, OthersRead DEF FollowInv
    <2>3. ASSUME reg' = reg, attendees \subseteq attendees', DecidedStay
          PROVE  Keeping /\ RegisteredAreAttendees' /\ ViaDecided'
      <3>1. /\ Rows' = Rows /\ \A x : Via(x)' = Via(x)
            /\ \A r \in Rows : r \in Rows' /\ RowKept(r)
        BY <2>3, SameTables
      <3>2. QED
        BY <2>3, <3>1
          DEF Keeping, FollowInv, RegisteredAreAttendees, ViaDecided, DecidedStay
    <2>4. ASSUME exc' = exc, attendees \subseteq attendees'
          PROVE  DecidedStay /\ ExceptionsAreAttendees'
      BY <2>4 DEF DecidedStay, ExceptionsAreAttendees, FollowInv
    <2>5. CASE Inserting(c)
      BY <2>2, <2>5, InsertedFrom
    <2>6. CASE RegisterStep(c) /\ ~Inserting(c)
      BY <1>1, <1>2, <2>2, <2>3, <2>4, <2>6, OwnRegister
    <2>7. CASE DeletionStep(c)
      <3>1. Reads(c)' /\ UNCHANGED <<exc, attendees, capacity>>
        BY <1>1, <1>2, <2>7, OwnDeletion
      <3>2. CASE SaveDeleted(c) \/ SaveRestored(c)
        <4>1. Rows' = Rows /\ \A r \in Rows : RowKept(r)
          BY <3>2, Marking DEF FollowInv
        <4>2. Keeping
          BY <2>4, <3>1, <4>1 DEF Keeping
        <4>3. RegisteredAreAttendees'
          BY <3>1, <4>1 DEF FollowInv, RegisteredAreAttendees, RowKept
        <4>4. \A x : Via(x)' = Via(x)
          BY <4>1 DEF Via, RowKept
        <4>5. ViaDecided'
          BY <3>1, <4>4 DEF FollowInv, ViaDecided
        <4>6. QED BY <2>2, <2>4, <3>1, <4>2, <4>3, <4>5
      <3>3. CASE ~(SaveDeleted(c) \/ SaveRestored(c))
        <4>1. reg' = reg
          BY <2>7, <3>3 DEF DeletionStep, StartDelete, StartRestore, ReadEvent
        <4>2. QED BY <2>2, <2>3, <2>4, <3>1, <4>1
      <3>4. QED BY <3>2, <3>3
    <2>8. CASE ExceptionStep(c) /\ ~Inserting(c)
      <3>1. ~InsertApproved(c)
        BY <2>8 DEF Inserting
      <3>2. /\ Reads(c)' /\ UNCHANGED <<reg, attendees, capacity>> /\ DecidedStay
            /\ ExceptionsAreAttendees'
        BY <1>1, <1>2, <2>8, <3>1, OwnException
      <3>3. QED BY <2>2, <2>3, <3>2
    <2>9. CASE EventStep(c) \/ Abort(c)
      BY <1>1, <1>2, <2>2, <2>3, <2>4, <2>9, OwnEvent
    <2>10. QED BY <1>2, <2>5, <2>6, <2>7, <2>8, <2>9 DEF Step
  <1>3. ASSUME NEW e \in Events, SetStatus(e), Follow PROVE FollowInv'
    <2>1. UNCHANGED <<reg, exc, attendees, capacity, req>>
      BY <1>3 DEF SetStatus
    <2>2. /\ \A r \in Rows : r \in Rows' /\ RowKept(r)
          /\ \A x : Via(x)' = Via(x)
      BY <2>1, SameTables
    <2>3. Keeping
      BY <2>1, <2>2 DEF Keeping, DecidedStay
    <2>4. \A d \in Clients : Reads(d)'
      BY <1>1, <1>3, <2>1, <2>3, OthersRead
    <2>5. Rows' = Rows
      BY <2>1, SameTables
    <2>6. RegisteredAreAttendees' /\ ExceptionsAreAttendees' /\ ViaDecided'
      BY <2>1, <2>2, <2>5
        DEF FollowInv, RegisteredAreAttendees, ExceptionsAreAttendees, ViaDecided
    <2>7. QED BY <1>1, <2>4, <2>6 DEF FollowInv
  <1>4. CASE UNCHANGED followed
    <2>1. UNCHANGED <<reg, exc, attendees, capacity, req, overtaken>>
      BY <1>4 DEF followed, vars
    <2>2. /\ Rows' = Rows
          /\ \A e : Live(e)' = Live(e)
          /\ \A p, e : Blocked(p, e)' <=> Blocked(p, e)
          /\ \A x : Via(x)' = Via(x)
      BY <2>1, SameTables
    <2>3. RegisteredAreAttendees' /\ ExceptionsAreAttendees' /\ ViaDecided'
      BY <2>1, <2>2
        DEF FollowInv, RegisteredAreAttendees, ExceptionsAreAttendees, ViaDecided
    <2>4. ASSUME NEW d \in Clients PROVE Reads(d)'
      <3>1. Reads(d)
        BY DEF FollowInv
      <3>2. QED
        BY <2>1, <2>2, <3>1 DEF Reads, SeatsRead, Room, PeopleRead, RowRead, ExceptionRead
    <2>5. QED BY <1>1, <2>3, <2>4 DEF FollowInv
  <1>5. QED BY <1>2, <1>3, <1>4, NextIsStep DEF FollowedNext

LEMMA FollowHolds == FollowedSpec => []FollowInv
  BY FollowInit, FollowStep, PTL DEF FollowedSpec

(* The history variable only watches. *)
THEOREM FollowedRefines == FollowedSpec => Spec
  <1>1. FollowedInit => Init
    BY DEF FollowedInit
  <1>2. [FollowedNext]_followed => [Next]_vars
    BY DEF FollowedNext, followed
  <1>3. QED BY <1>1, <1>2, PTL DEF FollowedSpec, Spec

(* Who took a step that changed a registration or a capacity: a request that *)
(* inserts, one that sets a mark, or an edit of the capacity.               *)
LEMMA Movers ==
  ASSUME FollowInv, FollowedNext, ~UNCHANGED <<reg, capacity>>
  PROVE  \E c \in Clients :
           /\ Inserting(c) \/ SaveDeleted(c) \/ SaveRestored(c) \/ SetsCapacity(c)
           /\ req[c] \in ActiveRequest /\ RequestOK(c) /\ Moves(c)
           /\ SeatsRead(c) /\ PeopleRead(c) /\ RowRead(c) /\ ExceptionRead(c)
  <1> USE DEF tables
  <1>1. PICK c \in Clients : Step(c)
    BY NextIsStep DEF FollowedNext, SetStatus
  <1>2. Inserting(c) \/ SaveDeleted(c) \/ SaveRestored(c) \/ SetsCapacity(c)
    <2> SUFFICES ASSUME ~Inserting(c), ~SaveDeleted(c), ~SaveRestored(c), ~SetsCapacity(c)
                 PROVE  capacity' = capacity
      BY <1>1, OtherStepsKeepRows
    <2>1. CASE RegisterStep(c)
      BY <2>1 DEF RegisterStep, StartRegister, StartTeam, LockEvent, CountSeats,
                  FindAttendees, CheckOnce, Checks, SaveAttendee, InsertSolo, CommitTeam
    <2>2. CASE DeletionStep(c)
      BY <2>2 DEF DeletionStep, StartDelete, StartRestore, ReadEvent, SaveDeleted,
                  SaveRestored
    <2>3. CASE ExceptionStep(c)
      BY <2>3 DEF ExceptionStep, StartSubmit, StartDecision, InsertException, SaveDecision,
                  InsertApproved
    <2>4. CASE EventStep(c) \/ Abort(c)
      BY <2>4 DEF EventStep, StartCapacity, StartAckLock, SetsCapacity, Abort
    <2>5. QED BY <1>1, <2>1, <2>2, <2>3, <2>4 DEF Step
  <1>3. req[c] \in ActiveRequest /\ req[c] # NoReq /\ req'[c] = NoReq
    <2>1. CASE SetsCapacity(c)
      BY <2>1, Active DEF SetCapacity, SaveEvent, SetsCapacity, Done, FollowInv, Inv, TypeOK
    <2>2. QED BY <1>2, <2>1, InsertingAdds, Marking DEF FollowInv
  <1>4. QED BY <1>2, <1>3 DEF Moves, FollowInv, Inv, Reads

(* The kind of an inserting request: an approval, or a form. *)
LEMMA InsertingKinds ==
  ASSUME FollowInv, NEW c \in Clients, Inserting(c), req[c] \in ActiveRequest, RequestOK(c)
  PROVE  /\ req[c].op \in {"approve", "register", "team"}
         /\ req[c].op # "approve" => req[c].pc \in {"save", "insert"}
         /\ req[c].op = "register" => req[c].pc = "insert"
         /\ req[c].op = "team" => req[c].pc = "save" /\ ~EmailTaken(c)
         /\ capacity' = capacity
  <1>1. req[c] # NoReq
    BY InsertingAdds DEF FollowInv
  <1>2. QED
    BY <1>1 DEF Inserting, InsertSolo, InsertApproved, CommitTeam, RequestOK, Phases,
                ActiveRequest, AllOps

(* The rows an inserting request adds: one for each of its people, in its    *)
(* event, and from the exception it approves, if it approves one.           *)
LEMMA NewRows ==
  ASSUME FollowInv, NEW c \in Clients, Inserting(c)
  PROVE  /\ \A r \in Rows : reg'[r] = reg[r] /\ r \in Rows'
         /\ \A r \in Rows' \ Rows : /\ reg'[r].who \in req[c].who
                                    /\ reg'[r].event = req[c].event
                                    /\ reg'[r].via = Source(c)
         /\ \A r, s \in Rows' \ Rows : reg'[r].who = reg'[s].who => r = s
  <1>1. PICK g \in Events, P \in SUBSET People, v \in Excs \cup {Form} :
          /\ g = req[c].event /\ P = req[c].who /\ v = Source(c)
          /\ InsertRegistrations(P, g, v)
    BY InsertingAdds DEF FollowInv, ActiveRequest
  <1>2. InsertRegistrations(P, g, v)
    BY <1>1
  <1>3. /\ \A r \in Rows : reg'[r] = reg[r] /\ r \in Rows'
        /\ \A r \in Rows' \ Rows : reg'[r].who \in P /\ reg'[r].event = g /\ reg'[r].via = v
        /\ \A r, s \in Rows' \ Rows : reg'[r].who = reg'[s].who => r = s
    BY <1>2, InsertAdds
  <1>4. QED BY <1>1, <1>3

(* registrations.service.ts:248 and its like: a seat too many needs an       *)
(* approval, or another request that took a seat or lowered the capacity     *)
(* while this one was in flight.  Any number of requests, any kinds of them. *)
THEOREM OversoldByOvertaking == FollowedSpec => OversoldWhenOvertakenOnly
  <1>1. ASSUME FollowInv, FollowedNext, NEW e \in Events, Tightens(e)
        PROVE  \/ Cardinality(Live(e)') <= capacity'[e]
               \/ \E c \in Clients :
                    /\ Moves(c)
                    /\ req[c].op \in {"approve", "ackLock"} \/ e \in overtaken[c].events
    <2>1. ~UNCHANGED <<reg, capacity>>
      <3>1. ASSUME UNCHANGED <<reg, capacity>> PROVE FALSE
        <4>1. Live(e)' = Live(e) /\ capacity[e] \in Nat
          BY <1>1, <3>1, SameTables DEF FollowInv, Inv, TypeOK
        <4>2. QED BY <1>1, <3>1, <4>1 DEF Tightens
      <3>2. QED BY <3>1
    <2>2. PICK c \in Clients :
            /\ Inserting(c) \/ SaveDeleted(c) \/ SaveRestored(c) \/ SetsCapacity(c)
            /\ req[c] \in ActiveRequest /\ RequestOK(c) /\ Moves(c)
            /\ SeatsRead(c) /\ PeopleRead(c) /\ RowRead(c) /\ ExceptionRead(c)
      BY <1>1, <2>1, Movers
    <2> SUFFICES ASSUME req[c].op \notin {"approve", "ackLock"},
                        e \notin overtaken[c].events
                 PROVE  Cardinality(Live(e)') <= capacity'[e]
      BY <2>2
    <2>3. PICK f \in Events, P \in SUBSET People : f = req[c].event /\ P = req[c].who
      BY <2>2 DEF ActiveRequest
    <2>4. /\ Cardinality(P) \in Nat /\ req[c].seats \in Nat /\ capacity[e] \in Nat
          /\ Cardinality(Live(e)) \in Nat
      BY <1>1, <2>2, <2>3, SeatsAssumption, LiveFinite, FS_Subset, FS_CardinalityType
        DEF ActiveRequest, FollowInv, Inv, TypeOK
    <2>5. CASE Inserting(c)
      <3>1. /\ InsertRegistrations(P, f, Source(c)) /\ Source(c) \in Excs \cup {Form}
            /\ capacity' = capacity /\ req[c].pc \in {"save", "insert"}
            /\ req[c].op \in {"register", "team"}
        BY <1>1, <2>2, <2>3, <2>5, InsertingAdds, InsertingKinds DEF FollowInv
      <3>2. /\ \A g \in Events \ {f} : Live(g)' = Live(g)
            /\ Cardinality(Live(f)') = Cardinality(Live(f)) + Cardinality(P)
        BY <3>1, InsertAdds
      <3>3. e = f
        <4>1. ~(capacity'[e] < capacity[e])
          <5>1. capacity'[e] = capacity[e]
            BY <3>1
          <5>2. QED BY <2>4, <5>1
        <4>2. ~(Live(e)' \subseteq Live(e))
          BY <1>1, <4>1 DEF Tightens
        <4>3. QED BY <3>2, <4>2
      <3>4. /\ req[c].seats <= capacity[e]
            /\ Cardinality(Live(e)) + Cardinality(P) <= req[c].seats
        BY <2>2, <2>3, <3>1, <3>3 DEF SeatsRead, PastCount, Room
      <3>5. QED BY <2>4, <3>1, <3>2, <3>3, <3>4
    <2>6. CASE SaveDeleted(c) \/ SaveRestored(c)
      <3> DEFINE row == req[c].row
      <3>1. /\ row \in Rows /\ Rows' = Rows /\ \A r \in Rows : RowKept(r)
            /\ req[c].op = IF SaveDeleted(c) THEN "delete" ELSE "restore"
            /\ \A r \in Rows \ {row} : reg'[r] = reg[r]
            /\ SaveDeleted(c) => reg'[row].deleted = TRUE
        BY <1>1, <2>6, Marking DEF FollowInv
      <3>2. capacity' = capacity
        BY <2>6 DEF SaveDeleted, SaveRestored
      <3>3. ~(Live(e)' \subseteq Live(e))
        BY <1>1, <2>4, <3>2 DEF Tightens
      <3>4. PICK r \in Rows : r \in Live(e)' /\ r \notin Live(e)
        BY <3>1, <3>3 DEF Live
      <3>5. r = row
        BY <3>1, <3>4 DEF Live
      <3>6. ~SaveDeleted(c) /\ reg[row].event = e
        BY <3>1, <3>4, <3>5 DEF Live, RowKept
      <3>7. req[c].op = "restore" /\ req[c].pc = "save"
        BY <2>6, <3>1, <3>6 DEF SaveRestored
      <3>8. e = f /\ P = {reg[row].who}
        BY <2>2, <2>3, <3>6, <3>7 DEF RowRead
      <3>9. Cardinality(P) = 1
        BY <3>8, FS_Singleton
      <3>10. /\ req[c].seats <= capacity[e]
             /\ Cardinality(Live(e)) + Cardinality(P) <= req[c].seats
        BY <2>2, <2>3, <3>7, <3>8 DEF SeatsRead, PastCount, Room
      <3>11. Live(e)' \subseteq Live(e) \cup {row}
        BY <3>1 DEF Live
      <3>12. IsFiniteSet(Live(e) \cup {row})
               /\ Cardinality(Live(e) \cup {row}) \in {Cardinality(Live(e)), Cardinality(Live(e)) + 1}
        BY LiveFinite, FS_AddElement
      <3>13. /\ Cardinality(Live(e)') <= Cardinality(Live(e) \cup {row})
             /\ Cardinality(Live(e)') \in Nat
        BY <3>11, <3>12, FS_Subset, FS_CardinalityType
      <3>14. QED BY <2>4, <3>2, <3>9, <3>10, <3>12, <3>13
    <2>7. CASE SetsCapacity(c)
      <3>1. /\ capacity' = [capacity EXCEPT ![f] = req[c].seats] /\ reg' = reg
            /\ req[c].pc = "capacity" /\ req[c].op = "capacity"
        <4>1. ~SaveEvent(c)
          BY <2>2 DEF SaveEvent, RequestOK, Phases, ActiveRequest, AllOps, NoReq
        <4>2. PICK n \in Settable : SetCapacity(c, n)
          BY <2>7, <4>1 DEF SetsCapacity
        <4>3. req[c] # NoReq
          BY <4>2 DEF SetCapacity, NoReq
        <4>4. req[c].op = "capacity"
          BY <2>2, <4>2, <4>3 DEF SetCapacity, RequestOK, Phases, ActiveRequest, AllOps
        <4>5. QED BY <2>3, <4>2, <4>4 DEF SetCapacity
      <3>2. Live(e)' = Live(e)
        BY <3>1, SameTables
      <3>3. e = f /\ capacity'[e] = req[c].seats
        BY <1>1, <2>4, <3>1, <3>2 DEF Tightens, FollowInv, Inv, TypeOK
      <3>4. Cardinality(Live(e)) + Cardinality(P) <= req[c].seats
        BY <2>2, <2>3, <3>1, <3>3 DEF SeatsRead, PastCount, Room
      <3>5. QED BY <2>4, <3>2, <3>3, <3>4
    <2>8. QED BY <2>2, <2>5, <2>6, <2>7
  <1>2. FollowInv /\ [FollowedNext]_followed =>
          [\A e \in Events :
             Tightens(e) =>
               \/ Cardinality(Live(e)') <= capacity'[e]
               \/ \E c \in Clients :
                    /\ Moves(c)
                    /\ req[c].op \in {"approve", "ackLock"}
                         \/ e \in overtaken[c].events]_followed
    BY <1>1
  <1>3. QED BY <1>2, FollowHolds, PTL DEF FollowedSpec, OversoldWhenOvertakenOnly

(* registrations.service.ts:386, per event and per type: a second seat comes *)
(* from an approval, a restore, or a request during which another one gave   *)
(* the same person a seat.                                                  *)
THEOREM SecondSeatByOvertaking == FollowedSpec => SecondSeatWhenOvertakenOnly
  <1>1. ASSUME FollowInv, FollowedNext, NEW p \in People, NEW e \in Events, NEW f \in Events,
               e = f \/ OnePerType,
               NEW r \in Seats(p, e)' \ Seats(p, e), NEW s \in Seats(p, f)', r # s
        PROVE  \E c \in Clients :
                 /\ Moves(c)
                 /\ req[c].op \in {"approve", "restore"} \/ p \in overtaken[c].people
    <2>1. reg' # reg
      BY <1>1, SameTables
    <2>2. PICK c \in Clients :
            /\ Inserting(c) \/ SaveDeleted(c) \/ SaveRestored(c) \/ SetsCapacity(c)
            /\ req[c] \in ActiveRequest /\ RequestOK(c) /\ Moves(c)
            /\ SeatsRead(c) /\ PeopleRead(c) /\ RowRead(c) /\ ExceptionRead(c)
      BY <1>1, <2>1, Movers
    <2> SUFFICES ASSUME req[c].op \notin {"approve", "restore"}, p \notin overtaken[c].people
                 PROVE  FALSE
      BY <2>2
    <2>3. CASE SetsCapacity(c)
      BY <2>1, <2>3 DEF SetCapacity, SaveEvent, SetsCapacity
    <2>4. CASE SaveDeleted(c) \/ SaveRestored(c)
      <3>1. /\ Rows' = Rows /\ \A q \in Rows : RowKept(q)
            /\ req[c].op = IF SaveDeleted(c) THEN "delete" ELSE "restore"
            /\ \A q \in Rows \ {req[c].row} : reg'[q] = reg[q]
            /\ SaveDeleted(c) => reg'[req[c].row].deleted = TRUE
        BY <1>1, <2>4, Marking DEF FollowInv
      <3>2. Seats(p, e)' \subseteq Seats(p, e)
        BY <3>1 DEF Seats, Live
      <3>3. QED BY <1>1, <3>2
    <2>5. CASE Inserting(c)
      <3>1. PICK g \in Events, P \in SUBSET People : g = req[c].event /\ P = req[c].who
        BY <2>2 DEF ActiveRequest
      <3>2. /\ \A q \in Rows : reg'[q] = reg[q] /\ q \in Rows'
            /\ \A q \in Rows' \ Rows : reg'[q].who \in P /\ reg'[q].event = g
            /\ \A q, t \in Rows' \ Rows : reg'[q].who = reg'[t].who => q = t
        BY <1>1, <2>5, <3>1, NewRows
      <3>3. /\ r \in Rows' \ Rows /\ reg'[r].who = p /\ e = g /\ p \in P
            /\ s \in Rows' /\ reg'[s].who = p
        BY <1>1, <3>2 DEF Seats, Live
      <3>4. s \in Rows /\ s \in Seats(p, f)
        BY <1>1, <3>2, <3>3 DEF Seats, Live
      <3>5. Blocked(p, g)
        BY <1>1, <3>3, <3>4 DEF Blocked
      <3>6. p \notin attendees => Seats(p, f) = {}
        BY <1>1 DEF Seats, Live, FollowInv, RegisteredAreAttendees
      <3>7. CASE req[c].op = "register"
        <4>1. req[c].pc = "insert"
          BY <1>1, <2>2, <2>5, <3>7, InsertingKinds
        <4>2. QED BY <2>2, <3>1, <3>3, <3>5, <3>7, <4>1 DEF PeopleRead
      <3>8. CASE req[c].op = "team"
        <4>1. req[c].pc = "save" /\ ~EmailTaken(c)
          BY <1>1, <2>2, <2>5, <3>8, InsertingKinds
        <4>2. p \in req[c].found /\ req[c].ask = {}
          BY <2>2, <3>1, <3>3, <3>4, <3>6, <3>8, <4>1 DEF EmailTaken, NewPeople, PeopleRead
        <4>3. QED BY <2>2, <3>1, <3>5, <3>8, <4>1, <4>2 DEF PeopleRead
      <3>9. QED BY <1>1, <2>2, <2>5, <3>7, <3>8, InsertingKinds
    <2>6. QED BY <2>2, <2>3, <2>4, <2>5
  <1>2. FollowInv /\ [FollowedNext]_followed =>
          [\A p \in People, e, f \in Events : e = f \/ OnePerType =>
             \A r \in Seats(p, e)' \ Seats(p, e), s \in Seats(p, f)' :
               r = s \/ \E c \in Clients :
                          /\ Moves(c)
                          /\ req[c].op \in {"approve", "restore"}
                               \/ p \in overtaken[c].people]_followed
    BY <1>1
  <1>3. QED BY <1>2, FollowHolds, PTL DEF FollowedSpec, SecondSeatWhenOvertakenOnly

(* exceptions.service.ts:88: an exception request gives a second            *)
(* registration only when two approvals of it overlap.                      *)
THEOREM GrantedTwiceByOvertaking == FollowedSpec => GrantedTwiceWhenOvertakenOnly
  <1>1. ASSUME FollowInv, FollowedNext, NEW x \in Excs,
               NEW r \in Via(x)' \ Via(x), NEW s \in Via(x)', r # s
        PROVE  \E c \in Clients : Moves(c) /\ x \in overtaken[c].excs
    <2>1. reg' # reg
      BY <1>1, SameTables
    <2>2. PICK c \in Clients :
            /\ Inserting(c) \/ SaveDeleted(c) \/ SaveRestored(c) \/ SetsCapacity(c)
            /\ req[c] \in ActiveRequest /\ RequestOK(c) /\ Moves(c)
            /\ SeatsRead(c) /\ PeopleRead(c) /\ RowRead(c) /\ ExceptionRead(c)
      BY <1>1, <2>1, Movers
    <2>3. CASE SetsCapacity(c)
      BY <2>1, <2>3 DEF SetCapacity, SaveEvent, SetsCapacity
    <2>4. CASE SaveDeleted(c) \/ SaveRestored(c)
      <3>1. Rows' = Rows /\ \A q \in Rows : RowKept(q)
        BY <1>1, <2>4, Marking DEF FollowInv
      <3>2. QED BY <1>1, <3>1 DEF Via, RowKept
    <2>5. CASE Inserting(c)
      <3>1. PICK P \in SUBSET People : P = req[c].who
        BY <2>2 DEF ActiveRequest
      <3>2. /\ \A q \in Rows : reg'[q] = reg[q] /\ q \in Rows'
            /\ \A q \in Rows' \ Rows : reg'[q].who \in P /\ reg'[q].via = Source(c)
            /\ \A q, t \in Rows' \ Rows : reg'[q].who = reg'[t].who => q = t
        BY <1>1, <2>5, <3>1, NewRows
      <3>3. r \in Rows' \ Rows /\ Source(c) = x
        BY <1>1, <3>2 DEF Via
      <3>4. req[c].op = "approve" /\ req[c].row = x
        BY <3>3, SeatsAssumption DEF Source
      <3>5. PICK p \in People : P = {p}
        BY <2>2, <3>1, <3>4 DEF ExceptionRead
      <3>6. s \in Rows
        BY <1>1, <3>2, <3>3, <3>5 DEF Via
      <3>7. s \in Via(x)
        BY <1>1, <3>2, <3>6 DEF Via
      <3>8. x \in overtaken[c].excs
        BY <2>2, <3>4, <3>7 DEF ExceptionRead
      <3>9. QED BY <2>2, <3>8
    <2>6. QED BY <2>2, <2>3, <2>4, <2>5
  <1>2. FollowInv /\ [FollowedNext]_followed =>
          [\A x \in Excs : \A r \in Via(x)' \ Via(x), s \in Via(x)' :
             r = s \/ \E c \in Clients : Moves(c) /\ x \in overtaken[c].excs]_followed
    BY <1>1
  <1>3. QED BY <1>2, FollowHolds, PTL DEF FollowedSpec, GrantedTwiceWhenOvertakenOnly

-----------------------------------------------------------------------------
(* How far an event can be oversold. *)

(* A finite set of numbers has a largest one. *)
LEMMA LargestOf ==
  ASSUME NEW S \in SUBSET Nat, IsFiniteSet(S), S # {}
  PROVE  Max(S) \in S /\ \A n \in S : n <= Max(S)
  <1> DEFINE Above(m) == {x \in S : x > m}
             Sizes == {Cardinality(Above(m)) : m \in S}
  <1>1. \A m \in S : IsFiniteSet(Above(m)) /\ Cardinality(Above(m)) \in Nat
    BY FS_Subset, FS_CardinalityType
  <1> DEFINE Less == {ss \in Nat \X Nat : ss[1] < ss[2]}
  <1>2. PICK k \in Sizes : \A l \in Sizes : <<l, k>> \notin Less
    <2>1. IsWellFoundedOn(Less, Nat)
      BY NatLessThanWellFounded DEF OpToRel
    <2>2. Sizes \subseteq Nat /\ Sizes # {}
      BY <1>1
    <2> HIDE DEF Sizes, Less
    <2>3. QED BY <2>1, <2>2, WFMin
  <1>3. PICK m \in S : k = Cardinality(Above(m))
    BY <1>2
  <1>4. ASSUME NEW n \in S, n > m PROVE FALSE
    <2>1. Above(n) \subseteq Above(m) /\ n \in Above(m) /\ n \notin Above(n)
      <3>1. \A x, y, z \in Nat : x > y /\ y > z => x > z
        OBVIOUS
      <3>2. \A x \in Nat : ~(x > x)
        OBVIOUS
      <3>3. QED BY <1>4, <3>1, <3>2
    <2>2. Cardinality(Above(n)) <= Cardinality(Above(m))
            /\ Cardinality(Above(n)) # Cardinality(Above(m))
      BY <1>1, <2>1, FS_Subset
    <2>3. Cardinality(Above(n)) < Cardinality(Above(m))
      BY <1>1, <2>2
    <2>4. Cardinality(Above(n)) \in Sizes
      OBVIOUS
    <2>5. QED BY <1>1, <1>2, <1>3, <2>3, <2>4
  <1>5. \A n \in S : m >= n
    BY <1>4
  <1>6. QED BY <1>5 DEF Max

(* A request names the people it counts, and the capacity it read still      *)
(* holds when nobody edits it.                                               *)
RaceOK(c) ==
  req[c] # NoReq =>
    /\ req[c].op \in {"register", "team", "ackLock"} \/ req[c].pc = "count" =>
         req[c].seats = capacity[req[c].event]
    /\ req[c].op \in {"register", "restore"} => \E p \in People : req[c].who = {p}
    /\ req[c].op = "restore" => reg[req[c].row].event = req[c].event
    /\ req[c].op = "team" => Cardinality(req[c].who) \in TeamSizes

Promising(c, e) ==
  req[c].pc \in {"find", "once", "save", "insert"} /\ req[c].event = e
(* PromisedSeats, of some of the requests. *)
PromisedTo(e, D) == UNION {{c} \X req[c].who : c \in {d \in D : Promising(d, e)}}

SizesOK == IsFiniteSet(Clients) /\ IsFiniteSet(TeamSizes)

LEMMA PromisedIsAll == \A e : PromisedSeats(e) = PromisedTo(e, Clients)
  BY DEF PromisedSeats, PromisedTo, Promising

LEMMA PromisedPairs ==
  ASSUME NEW e, NEW D, NEW x, x \in PromisedTo(e, D)
  PROVE  /\ x[1] \in D /\ Promising(x[1], e) /\ x[2] \in req[x[1]].who
         /\ x = <<x[1], x[2]>>
  <1>1. PICK d \in D : Promising(d, e) /\ x \in {d} \X req[d].who
    BY DEF PromisedTo
  <1>2. QED BY <1>1

LEMMA PairsPromised ==
  ASSUME NEW e, NEW D, NEW d \in D, Promising(d, e), NEW p \in req[d].who
  PROVE  <<d, p>> \in PromisedTo(e, D)
  BY DEF PromisedTo

LEMMA PromisedFinite ==
  ASSUME TypeOK, IsFiniteSet(Clients), NEW e, NEW D \in SUBSET Clients
  PROVE  IsFiniteSet(PromisedTo(e, D)) /\ Cardinality(PromisedTo(e, D)) \in Nat
  <1>1. ASSUME NEW x \in PromisedTo(e, D) PROVE x \in Clients \X People
    <2>1. x[1] \in Clients /\ Promising(x[1], e) /\ x[2] \in req[x[1]].who
            /\ x = <<x[1], x[2]>>
      BY PromisedPairs
    <2>2. req[x[1]] \in ActiveRequest
      BY <2>1, Active DEF Promising
    <2>3. x[2] \in People
      BY <2>1, <2>2 DEF ActiveRequest
    <2>4. QED BY <2>1, <2>3
  <1>2. IsFiniteSet(Clients \X People)
    BY SeatsAssumption, FS_Product
  <1>3. IsFiniteSet(PromisedTo(e, D))
    BY <1>1, <1>2, FS_Subset
  <1>4. QED BY <1>3, FS_CardinalityType

(* What one request more adds. *)
LEMMA PromisedOf ==
  ASSUME TypeOK, IsFiniteSet(Clients), NEW e, NEW D \in SUBSET Clients, NEW c \in D
  PROVE  /\ Promising(c, e) =>
              Cardinality(PromisedTo(e, D))
                = Cardinality(PromisedTo(e, D \ {c})) + Cardinality(req[c].who)
         /\ ~Promising(c, e) => PromisedTo(e, D) = PromisedTo(e, D \ {c})
  <1>1. ASSUME ~Promising(c, e) PROVE PromisedTo(e, D) = PromisedTo(e, D \ {c})
    BY <1>1 DEF PromisedTo
  <1>2. ASSUME Promising(c, e)
        PROVE  Cardinality(PromisedTo(e, D))
                 = Cardinality(PromisedTo(e, D \ {c})) + Cardinality(req[c].who)
    <2> DEFINE Own  == {c} \X req[c].who
               Rest == PromisedTo(e, D \ {c})
    <2>1. PromisedTo(e, D) = Rest \cup Own
      BY <1>2 DEF PromisedTo
    <2>2. Rest \cap Own = {}
      <3>1. ASSUME NEW x \in Rest, x \in Own PROVE FALSE
        <4>1. x[1] \in D \ {c}
          BY PromisedPairs
        <4>2. x[1] = c
          BY <3>1
        <4>3. QED BY <4>1, <4>2
      <3>2. QED BY <3>1
    <2>3. req[c].who \subseteq People
      BY <1>2, Active DEF Promising, ActiveRequest
    <2>4. IsFiniteSet(req[c].who) /\ IsFiniteSet({c}) /\ Cardinality({c}) = 1
      BY <2>3, SeatsAssumption, FS_Subset, FS_Singleton
    <2>5. Cardinality(req[c].who) \in Nat
      BY <2>4, FS_CardinalityType
    <2>6. IsFiniteSet(Own) /\ Cardinality(Own) = Cardinality({c}) * Cardinality(req[c].who)
      BY <2>4, FS_Product
    <2>7. Cardinality(Own) = Cardinality(req[c].who)
      BY <2>4, <2>5, <2>6
    <2>8. IsFiniteSet(Rest) /\ Cardinality(Rest) \in Nat
      BY PromisedFinite
    <2> HIDE DEF Own, Rest
    <2>9. Cardinality(Rest \cup Own)
            = Cardinality(Rest) + Cardinality(Own) - Cardinality(Rest \cap Own)
      BY <2>6, <2>8, FS_Union
    <2>10. Cardinality(Rest \cap Own) = 0
      BY <2>2, FS_EmptySet
    <2>11. Cardinality(PromisedTo(e, D)) = Cardinality(Rest) + Cardinality(req[c].who)
      BY <2>1, <2>5, <2>7, <2>8, <2>9, <2>10
    <2>12. QED BY <2>11 DEF Rest
  <1>3. QED BY <1>1, <1>2

(* Single registrations and restores promise one seat each. *)
LEMMA SinglesBound ==
  ASSUME TypeOK, IsFiniteSet(Clients), NEW e, NEW D \in SUBSET Clients,
         \A d \in D : Promising(d, e) => \E p : req[d].who = {p}
  PROVE  Cardinality(PromisedTo(e, D)) <= Cardinality(D)
  <1> DEFINE S == PromisedTo(e, D)
             f == [x \in S |-> x[1]]
  <1>1. IsFiniteSet(D)
    BY FS_Subset
  <1>2. \A x \in S : x[1] \in D /\ Promising(x[1], e) /\ x[2] \in req[x[1]].who
                       /\ x = <<x[1], x[2]>>
    BY PromisedPairs
  <1>3. f \in [S -> D]
    BY <1>2
  <1>4. ASSUME NEW x \in S, NEW y \in S, f[x] = f[y] PROVE x = y
    <2>1. x[1] = y[1]
      BY <1>4
    <2>2. PICK p : req[x[1]].who = {p}
      BY <1>2
    <2>3. x[2] = p /\ y[2] = p
      BY <1>2, <2>1, <2>2
    <2>4. QED BY <1>2, <2>1, <2>3
  <1>5. f \in Injection(S, D)
    BY <1>3, <1>4 DEF Injection, IsInjective
  <1> HIDE DEF S, f
  <1>6. Cardinality(S) <= Cardinality(D)
    BY <1>1, <1>5, FS_Injection
  <1>7. QED BY <1>6 DEF S

RequestsInv == Inv /\ \A c \in Clients : RaceOK(c)

(* By the lock at most one team is promised seats of an event. *)
LEMMA PromisingKinds ==
  ASSUME RequestsInv, NEW c \in Clients, NEW e, Promising(c, e)
  PROVE  /\ req[c] \in ActiveRequest /\ req[c] # NoReq /\ e \in Events
         /\ \/ \E p \in People : req[c].who = {p}
            \/ /\ req[c].op = "team" /\ lock[e] = {c}
               /\ Cardinality(req[c].who) \in TeamSizes
  <1>1. /\ req[c] \in ActiveRequest /\ req[c] # NoReq /\ RequestOK(c) /\ RaceOK(c)
        /\ req[c].event = e
    BY Active DEF Promising, RequestsInv, Inv
  <1>2. e \in Events
    BY <1>1 DEF ActiveRequest
  <1>3. req[c].op \in {"register", "restore", "team"}
    BY <1>1 DEF Promising, RequestOK, Phases, ActiveRequest, AllOps
  <1>4. CASE req[c].op = "team"
    <2>1. req[c].pc \in Holding
      BY <1>1, <1>4 DEF Promising, RequestOK, Phases, Holding
    <2>2. QED BY <1>1, <1>2, <1>4, <2>1 DEF RequestOK, RaceOK
  <1>5. CASE req[c].op # "team"
    BY <1>1, <1>2, <1>3, <1>5 DEF RaceOK
  <1>6. QED BY <1>4, <1>5

(* What all requests but one can have been promised. *)
LEMMA OthersBound ==
  ASSUME SizesOK, RequestsInv, NEW c \in Clients, NEW e \in Events
  PROVE  /\ OthersSeats \in Nat
         /\ Cardinality(PromisedTo(e, Clients \ {c})) <= OthersSeats
  <1> DEFINE D == Clients \ {c}
             n == Cardinality(Clients)
             M == Max({1} \cup TeamSizes)
  <1>1. IsFiniteSet(Clients) /\ n \in Nat /\ Cardinality(D) = n - 1 /\ IsFiniteSet(D)
        /\ Cardinality(D) \in Nat
    BY FS_CardinalityType, FS_RemoveElement DEF SizesOK
  <1>2. M \in Nat /\ 1 <= M /\ \A k \in TeamSizes : k <= M
    <2> DEFINE S == {1} \cup TeamSizes
    <2>1. S \in SUBSET Nat /\ 1 \in S /\ \A k \in TeamSizes : k \in S
      BY SeatsAssumption
    <2>2. IsFiniteSet({1})
      BY FS_Singleton
    <2>3. IsFiniteSet(S)
      BY <2>2, FS_Union DEF SizesOK
    <2> HIDE DEF S
    <2>4. Max(S) \in S /\ \A k \in S : k <= Max(S)
      BY <2>1, <2>3, LargestOf
    <2>5. QED BY <2>1, <2>4 DEF S
  <1>3. OthersSeats = IF n < 2 THEN 0 ELSE n - 2 + M
    BY DEF OthersSeats
  <1>4. OthersSeats \in Nat /\ n - 1 <= OthersSeats
    BY <1>1, <1>2, <1>3
  <1>5. CASE \A d \in D : Promising(d, e) => \E p : req[d].who = {p}
    <2>1. Cardinality(PromisedTo(e, D)) <= Cardinality(D)
      BY <1>1, <1>5, SinglesBound DEF RequestsInv, Inv
    <2>2. Cardinality(PromisedTo(e, D)) \in Nat
      BY <1>1, PromisedFinite DEF RequestsInv, Inv
    <2>3. Cardinality(D) = n - 1
      BY <1>1
    <2> DEFINE k == Cardinality(PromisedTo(e, D))
               m == Cardinality(D)
    <2>4. k <= m /\ k \in Nat /\ m \in Nat /\ m = n - 1
      BY <1>1, <2>1, <2>2, <2>3
    <2> HIDE DEF n, k, m
    <2>5. k <= OthersSeats
      BY <1>1, <1>4, <2>4
    <2>6. QED BY <1>4, <2>5 DEF k
  <1>6. CASE \E t \in D : Promising(t, e) /\ ~\E p : req[t].who = {p}
    <2>1. PICK t \in D : Promising(t, e) /\ ~\E p : req[t].who = {p}
      BY <1>6
    <2>2. lock[e] = {t} /\ Cardinality(req[t].who) \in TeamSizes
      BY <2>1, PromisingKinds
    <2> DEFINE E == D \ {t}
    <2>3. ASSUME NEW d \in E, Promising(d, e) PROVE \E p : req[d].who = {p}
      <3>1. lock[e] # {d}
        BY <2>2
      <3>2. QED BY <2>3, <3>1, PromisingKinds
    <2>4. IsFiniteSet(E) /\ Cardinality(E) = n - 2 /\ Cardinality(E) \in Nat
      <3>1. IsFiniteSet(E) /\ Cardinality(E) = Cardinality(D) - 1
        BY <1>1, FS_RemoveElement
      <3>2. Cardinality(E) \in Nat
        BY <3>1, FS_CardinalityType
      <3>3. Cardinality(D) = n - 1
        BY <1>1
      <3> HIDE DEF E, D, n
      <3>4. QED BY <1>1, <3>1, <3>2, <3>3
    <2>5. Cardinality(PromisedTo(e, E)) <= Cardinality(E)
      BY <1>1, <2>3, SinglesBound DEF RequestsInv, Inv
    <2>6. Cardinality(PromisedTo(e, D)) = Cardinality(PromisedTo(e, E)) + Cardinality(req[t].who)
      BY <1>1, <2>1, PromisedOf DEF RequestsInv, Inv
    <2>7. Cardinality(PromisedTo(e, E)) \in Nat
      BY <1>1, PromisedFinite DEF RequestsInv, Inv
    <2>8. Cardinality(req[t].who) \in Nat /\ Cardinality(req[t].who) <= M
      BY <1>2, <2>2, SeatsAssumption
    <2> DEFINE k == Cardinality(PromisedTo(e, D))
               j == Cardinality(PromisedTo(e, E))
               m == Cardinality(E)
               w == Cardinality(req[t].who)
    <2>9. /\ k = j + w /\ j <= m /\ j \in Nat /\ w \in Nat /\ w <= M
          /\ m = n - 2 /\ m \in Nat
      BY <2>4, <2>5, <2>6, <2>7, <2>8
    <2> HIDE DEF n, M, k, j, m, w
    <2>10. n >= 2
      BY <1>1, <2>9
    <2>11. OthersSeats = n - 2 + M
      BY <1>1, <1>3, <2>10
    <2>12. k <= n - 2 + M
      BY <1>1, <1>2, <2>9
    <2>13. QED BY <1>4, <2>11, <2>12 DEF k
  <1>7. QED BY <1>5, <1>6

(* The seats no organiser approved are some of the live ones. *)
LEMMA UnapprovedFinite ==
  ASSUME NEW e \in Events
  PROVE  /\ IsFiniteSet(Unapproved(e)) /\ Cardinality(Unapproved(e)) \in Nat
         /\ Cardinality(Unapproved(e)) <= Cardinality(Live(e))
  <1>1. Unapproved(e) \subseteq Live(e)
    BY DEF Unapproved
  <1>2. QED BY <1>1, LiveFinite, FS_Subset, FS_CardinalityType

(* An INSERT adds at most a seat a person to them, and an approval none. *)
LEMMA UnapprovedInsert ==
  ASSUME NEW P \in SUBSET People, NEW f \in Events, NEW v \in Excs \cup {Form},
         InsertRegistrations(P, f, v)
  PROVE  /\ \A e \in Events : v # Form \/ e # f => Unapproved(e)' \subseteq Unapproved(e)
         /\ Cardinality(Unapproved(f)') <= Cardinality(Unapproved(f)) + Cardinality(P)
  <1>1. /\ \A r \in Rows : reg'[r] = reg[r] /\ r \in Rows'
        /\ \A r \in Rows' \ Rows : /\ reg'[r].who \in P /\ reg'[r].event = f
                                   /\ reg'[r].via = v
        /\ \A r, s \in Rows' \ Rows : reg'[r].who = reg'[s].who => r = s
    BY InsertAdds
  <1> DEFINE N == Rows' \ Rows
             who == [r \in N |-> reg'[r].who]
  <1>2. IsFiniteSet(P) /\ Cardinality(P) \in Nat
    BY SeatsAssumption, FS_Subset, FS_CardinalityType
  <1>3. IsFiniteSet(N) /\ Cardinality(N) \in Nat /\ Cardinality(N) <= Cardinality(P)
    <2>1. N \subseteq Regs
      BY DEF Rows
    <2>2. IsFiniteSet(N)
      BY <2>1, SeatsAssumption, FS_Subset
    <2>3. who \in Injection(N, P)
      BY <1>1 DEF Injection, IsInjective
    <2>4. Cardinality(N) <= Cardinality(P)
      BY <1>2, <2>3, FS_Injection
    <2>5. QED BY <2>2, <2>4, FS_CardinalityType
  <1>4. ASSUME NEW e \in Events PROVE Unapproved(e)' \subseteq Unapproved(e) \cup N
    BY <1>1 DEF Unapproved, Live
  <1>5. ASSUME NEW e \in Events, v # Form \/ e # f
        PROVE  Unapproved(e)' \subseteq Unapproved(e)
    BY <1>1, <1>5 DEF Unapproved, Live
  <1>6. Cardinality(Unapproved(f)') <= Cardinality(Unapproved(f)) + Cardinality(P)
    <2> DEFINE U == Unapproved(f)
               V == Unapproved(f)'
    <2>1. IsFiniteSet(U) /\ Cardinality(U) \in Nat
      BY UnapprovedFinite
    <2>2. V \subseteq U \cup N
      BY <1>4
    <2> HIDE DEF U, V, N
    <2>3. /\ IsFiniteSet(U \cup N)
          /\ Cardinality(U \cup N) = Cardinality(U) + Cardinality(N) - Cardinality(U \cap N)
      BY <1>3, <2>1, FS_Union
    <2>4. Cardinality(U \cap N) \in Nat
      BY <2>1, FS_Intersection, FS_CardinalityType
    <2>5. /\ Cardinality(V) <= Cardinality(U \cup N) /\ Cardinality(V) \in Nat
          /\ Cardinality(U \cup N) \in Nat
      BY <2>2, <2>3, FS_Subset, FS_CardinalityType
    <2>6. Cardinality(V) <= Cardinality(U) + Cardinality(P)
      BY <1>2, <1>3, <2>1, <2>3, <2>4, <2>5
    <2>7. QED BY <2>6 DEF U, V
  <1>7. QED BY <1>5, <1>6

(* Unapproved and promised seats only shrink. *)
LEMMA BoundKeep ==
  ASSUME SizesOK, TypeOK, TypeOK', NEW e \in Events,
         Unapproved(e)' \subseteq Unapproved(e), PromisedSeats(e)' \subseteq PromisedSeats(e),
         capacity' = capacity, OthersSeats \in Nat,
         Cardinality(Unapproved(e)) + Cardinality(PromisedSeats(e)) <= capacity[e] + OthersSeats
  PROVE  Cardinality(Unapproved(e)') + Cardinality(PromisedSeats(e)')
           <= capacity'[e] + OthersSeats
  <1>1. IsFiniteSet(PromisedSeats(e)) /\ Cardinality(PromisedSeats(e)) \in Nat
    BY PromisedIsAll, PromisedFinite DEF SizesOK
  <1>2. Cardinality(PromisedSeats(e)') <= Cardinality(PromisedSeats(e))
          /\ Cardinality(PromisedSeats(e)') \in Nat
    BY <1>1, FS_Subset, FS_CardinalityType
  <1>3. /\ Cardinality(Unapproved(e)) \in Nat /\ Cardinality(Unapproved(e)') \in Nat
        /\ Cardinality(Unapproved(e)') <= Cardinality(Unapproved(e))
    BY UnapprovedFinite, FS_Subset, FS_CardinalityType
  <1>4. capacity[e] \in Nat
    BY DEF TypeOK
  <1>5. QED BY <1>1, <1>2, <1>3, <1>4

(* One handler's step changes what it was promised and nothing else. *)
LEMMA PromisedRest ==
  ASSUME NEW e, NEW c \in Clients, \A d \in Clients \ {c} : req'[d] = req[d]
  PROVE  PromisedTo(e, Clients \ {c})' = PromisedTo(e, Clients \ {c})
  BY DEF PromisedTo, Promising

(* A request that takes what it was promised, or less, leaves the sum. *)
LEMMA BoundTake ==
  ASSUME SizesOK, TypeOK, TypeOK', NEW e \in Events, NEW c \in Clients,
         \A d \in Clients \ {c} : req'[d] = req[d],
         Promising(c, e), ~Promising(c, e)',
         Cardinality(Unapproved(e)') <= Cardinality(Unapproved(e)) + Cardinality(req[c].who),
         capacity' = capacity, OthersSeats \in Nat,
         Cardinality(Unapproved(e)) + Cardinality(PromisedSeats(e)) <= capacity[e] + OthersSeats
  PROVE  Cardinality(Unapproved(e)') + Cardinality(PromisedSeats(e)')
           <= capacity'[e] + OthersSeats
  <1> DEFINE Rest == PromisedTo(e, Clients \ {c})
  <1>1. Cardinality(Rest) \in Nat
    BY PromisedFinite DEF SizesOK
  <1>2. Cardinality(PromisedSeats(e)) = Cardinality(Rest) + Cardinality(req[c].who)
    BY PromisedIsAll, PromisedOf DEF SizesOK
  <1>3. PromisedSeats(e)' = Rest
    <2>1. PromisedTo(e, Clients)' = PromisedTo(e, Clients \ {c})'
      BY DEF PromisedTo
    <2>2. PromisedSeats(e)' = PromisedTo(e, Clients)'
      BY DEF PromisedSeats, PromisedTo, Promising
    <2>3. QED BY <2>1, <2>2, PromisedRest
  <1>4. req[c].who \subseteq People
    BY Active DEF Promising, ActiveRequest
  <1>5. Cardinality(req[c].who) \in Nat
    BY <1>4, SeatsAssumption, FS_Subset, FS_CardinalityType
  <1>6. Cardinality(Unapproved(e)) \in Nat /\ Cardinality(Unapproved(e)') \in Nat
    <2>1. IsFiniteSet(Unapproved(e)')
      BY SeatsAssumption, FS_Subset DEF Unapproved, Live, Rows
    <2>2. QED BY <2>1, UnapprovedFinite, FS_CardinalityType
  <1>7. capacity[e] \in Nat
    BY DEF TypeOK
  <1> HIDE DEF Rest
  <1>8. QED BY <1>1, <1>2, <1>3, <1>5, <1>6, <1>7

LEMMA RaceOthers ==
  ASSUME RequestsInv, NEW c \in Clients, \A d \in Clients \ {c} : req'[d] = req[d],
         capacity' = capacity,
         \A r \in Regs : reg[r] \in Registration => reg'[r].event = reg[r].event,
         RaceOK(c)'
  PROVE  \A d \in Clients : RaceOK(d)'
  <1>1. ASSUME NEW d \in Clients, d # c PROVE RaceOK(d)'
    <2>1. req'[d] = req[d] /\ RaceOK(d) /\ RequestOK(d)
      BY <1>1 DEF RequestsInv, Inv
    <2>2. req[d] # NoReq /\ req[d].op = "restore" =>
            reg'[req[d].row].event = reg[req[d].row].event
      BY <2>1 DEF RequestOK
    <2>3. QED BY <2>1, <2>2 DEF RaceOK
  <1>2. QED BY <1>1

LEMMA RaceRegister ==
  ASSUME RequestsInv, NEW c \in Clients, RegisterStep(c)
  PROVE  RaceOK(c)'
  <1> USE DEF tables
  <1>1. capacity' = capacity
    BY DEF RegisterStep, StartRegister, StartTeam, LockEvent, CountSeats, FindAttendees,
           CheckOnce, Checks, SaveAttendee, InsertSolo, CommitTeam
  <1>2. ASSUME NEW p \in People, NEW e \in Events, StartRegister(c, p, e)
        PROVE  RaceOK(c)'
    BY <1>1, <1>2 DEF StartRegister, Start, SeatsAt, RequestsInv, Inv, TypeOK, RaceOK
  <1>3. ASSUME NEW P \in SUBSET People, NEW e \in Events, StartTeam(c, P, e)
        PROVE  RaceOK(c)'
    BY <1>1, <1>3 DEF StartTeam, Start, SeatsAt, RequestsInv, Inv, TypeOK, RaceOK
  <1>4. ASSUME Done(c) PROVE RaceOK(c)'
    BY <1>4 DEF Done, RequestsInv, Inv, TypeOK, RaceOK
  <1>5. ASSUME ~Done(c), LockEvent(c) \/ CountSeats(c) \/ FindAttendees(c) \/ Checks(c)
                           \/ SaveAttendee(c)
        PROVE  RaceOK(c)'
    <2>1. req[c] \in ActiveRequest /\ req[c] # NoReq /\ RaceOK(c)
      BY <1>5, Active
        DEF RequestsInv, Inv, LockEvent, CountSeats, FindAttendees, CheckOnce, Checks, SaveAttendee
    <2>2. /\ req'[c].op = req[c].op /\ req'[c].seats = req[c].seats
          /\ req'[c].event = req[c].event /\ req'[c].who = req[c].who
          /\ req'[c].row = req[c].row
          /\ req'[c].pc = "count" => req[c].op = "team"
      <3> USE DEF RequestsInv, Inv, TypeOK, ActiveRequest, Asking
      <3>1. CASE FindAttendees(c)
        BY <2>1, <3>1 DEF FindAttendees
      <3>2. CASE Checks(c)
        BY <1>5, <2>1, <3>2 DEF CheckOnce, Checks
      <3>3. CASE CountSeats(c) \/ SaveAttendee(c)
        BY <1>5, <2>1, <3>3 DEF CountSeats, SaveAttendee, Goto
      <3>4. CASE LockEvent(c)
        <4>1. req[c].op = "team"
          BY <2>1, <3>4 DEF LockEvent, RequestOK, Phases, AllOps
        <4>2. QED BY <2>1, <3>4, <4>1 DEF LockEvent, Goto
      <3>5. QED BY <1>5, <3>1, <3>2, <3>3, <3>4
    <2>3. reg' = reg
      BY <1>5 DEF LockEvent, CountSeats, FindAttendees, CheckOnce, Checks, SaveAttendee
    <2>4. QED BY <1>1, <2>1, <2>2, <2>3 DEF RaceOK
  <1>6. QED BY <1>2, <1>3, <1>4, <1>5 DEF RegisterStep, InsertSolo, CommitTeam, Checks

LEMMA RaceDeletion ==
  ASSUME RequestsInv, NEW c \in Clients, DeletionStep(c)
  PROVE  RaceOK(c)'
  <1> USE DEF tables
  <1>1. capacity' = capacity
    BY DEF DeletionStep, StartDelete, StartRestore, SaveDeleted, ReadEvent, SaveRestored
  <1>2. ASSUME NEW r \in Regs, StartDelete(c, r) PROVE RaceOK(c)'
    BY <1>1, <1>2 DEF StartDelete, Start, RequestsInv, Inv, TypeOK, RaceOK
  <1>3. ASSUME NEW r \in Regs, StartRestore(c, r) PROVE RaceOK(c)'
    <2>1. reg[r].who \in People /\ reg' = reg
      BY <1>3 DEF StartRestore, Rows, RequestsInv, Inv, TypeOK, Registration
    <2>2. QED
      BY <1>1, <1>3, <2>1 DEF StartRestore, Start, RequestsInv, Inv, TypeOK, RaceOK
  <1>4. CASE ReadEvent(c)
    <2>1. req[c] \in ActiveRequest /\ req[c] # NoReq /\ RaceOK(c)
      BY <1>4, Active DEF RequestsInv, Inv, ReadEvent
    <2>2. /\ req'[c].op = req[c].op /\ req'[c].seats = capacity[req[c].event]
          /\ req'[c].event = req[c].event /\ req'[c].who = req[c].who
          /\ req'[c].row = req[c].row /\ reg' = reg
      BY <1>4, <2>1 DEF ReadEvent, RequestsInv, Inv, TypeOK, ActiveRequest
    <2>3. QED BY <1>1, <2>1, <2>2 DEF RaceOK
  <1>5. CASE SaveDeleted(c) \/ SaveRestored(c)
    BY <1>5 DEF SaveDeleted, SaveRestored, Done, RequestsInv, Inv, TypeOK, RaceOK
  <1>6. QED BY <1>2, <1>3, <1>4, <1>5 DEF DeletionStep

(* Without capacity edits. *)
LEMMA RaceRequests ==
  ASSUME "capacity" \notin Ops, RequestsInv, [Next]_vars
  PROVE  RequestsInv' /\ capacity' = capacity
  <1> USE DEF tables
  <1>1. Inv'
    BY NextInv DEF RequestsInv
  <1>2. ASSUME NEW c \in Clients, Step(c)
        PROVE  (\A d \in Clients : RaceOK(d)') /\ capacity' = capacity
    <2>1. \A d \in Clients \ {c} : req'[d] = req[d]
      BY <1>2, OthersWait DEF RequestsInv, Inv
    <2>2. Settable = {}
      BY DEF Settable
    <2>3. capacity' = capacity
      <3>1. ASSUME SaveEvent(c) PROVE capacity' = capacity
        <4>1. /\ req[c] \in ActiveRequest /\ req[c] # NoReq
              /\ RequestOK(c) /\ RaceOK(c)
          BY <3>1, Active DEF SaveEvent, RequestsInv, Inv
        <4>2. req[c].op = "ackLock"
          BY <3>1, <4>1 DEF SaveEvent, RequestOK, Phases, ActiveRequest, AllOps
        <4>3. req[c].seats = capacity[req[c].event]
          BY <4>1, <4>2 DEF RaceOK
        <4>4. QED BY <3>1, <4>1, <4>3 DEF SaveEvent, RequestsInv, Inv, TypeOK
      <3>2. QED
        BY <1>2, <2>2, <3>1
        DEF Step, RegisterStep, StartRegister, StartTeam, LockEvent, CountSeats, FindAttendees,
            CheckOnce, Checks, SaveAttendee, InsertSolo, CommitTeam, DeletionStep, StartDelete,
            StartRestore, SaveDeleted, ReadEvent, SaveRestored, ExceptionStep, StartSubmit,
            StartDecision, InsertException, SaveDecision, InsertApproved, EventStep,
            StartAckLock, Abort
    <2>4. \A r \in Regs : reg[r] \in Registration => reg'[r].event = reg[r].event
      <3>1. ASSUME NEW r \in Regs, reg[r] \in Registration
            PROVE  r \in Rows
        BY <3>1 DEF Rows, Registration, NoRow
      <3>2. CASE Inserting(c)
        <4>1. /\ req[c] \in ActiveRequest /\ Source(c) \in Excs \cup {Form}
              /\ InsertRegistrations(req[c].who, req[c].event, Source(c))
          BY <3>2, InsertingAdds DEF RequestsInv
        <4>2. PICK P \in SUBSET People, f \in Events, v \in Excs \cup {Form} :
                InsertRegistrations(P, f, v)
          BY <4>1 DEF ActiveRequest
        <4>3. \A r \in Rows : reg'[r] = reg[r]
          BY <4>2, InsertAdds
        <4>4. QED BY <3>1, <4>3
      <3>3. CASE SaveDeleted(c) \/ SaveRestored(c)
        BY <3>1, <3>3, Marking DEF RequestsInv, RowKept
      <3>4. QED BY <1>2, <3>2, <3>3, OtherStepsKeepRows
    <2>5. RaceOK(c)'
      <3>1. CASE RegisterStep(c)
        BY <3>1, RaceRegister
      <3>2. CASE DeletionStep(c)
        BY <3>2, RaceDeletion
      <3>3. CASE ExceptionStep(c)
        <4>1. ASSUME NEW p \in People, NEW e \in Events, StartSubmit(c, p, e)
              PROVE  RaceOK(c)'
          BY <2>3, <4>1 DEF StartSubmit, Start, RequestsInv, Inv, TypeOK, RaceOK
        <4>2. ASSUME NEW x \in Excs, NEW op \in {"approve", "reject"}, StartDecision(c, op, x)
              PROVE  RaceOK(c)'
          BY <2>3, <4>2 DEF StartDecision, Start, RequestsInv, Inv, TypeOK, RaceOK
        <4>3. CASE Done(c)
          BY <4>3 DEF Done, RequestsInv, Inv, TypeOK, RaceOK
        <4>4. CASE SaveDecision(c) /\ req[c].op = "approve"
          <5>1. req[c] \in ActiveRequest /\ req[c] # NoReq /\ RaceOK(c)
            BY <4>4, Active DEF SaveDecision, RequestsInv, Inv
          <5>2. /\ req'[c].op = "approve" /\ req'[c].seats = req[c].seats
                /\ req'[c].event = req[c].event /\ req'[c].who = req[c].who
                /\ req'[c].pc = "approved"
            BY <4>4, <5>1 DEF SaveDecision, Goto, RequestsInv, Inv, TypeOK, ActiveRequest
          <5>3. QED BY <2>3, <4>4, <5>1, <5>2 DEF RaceOK
        <4>5. QED
          BY <3>3, <4>1, <4>2, <4>3, <4>4
            DEF ExceptionStep, InsertException, InsertApproved, SaveDecision
      <3>4. CASE EventStep(c) \/ Abort(c)
        <4>1. ASSUME NEW e \in Events, StartAckLock(c, e) PROVE RaceOK(c)'
          BY <2>3, <4>1 DEF StartAckLock, Start, SeatsAt, RequestsInv, Inv, TypeOK, RaceOK
        <4>2. CASE SaveEvent(c) \/ Abort(c)
          BY <4>2 DEF SaveEvent, Abort, Done, RequestsInv, Inv, TypeOK, RaceOK
        <4>3. QED BY <2>2, <3>4, <4>1, <4>2 DEF EventStep
      <3>5. QED BY <1>2, <3>1, <3>2, <3>3, <3>4 DEF Step
    <2>6. QED BY <2>1, <2>3, <2>4, <2>5, RaceOthers
  <1>3. ASSUME UNCHANGED <<reg, capacity, req>>
        PROVE  \A d \in Clients : RaceOK(d)'
    BY <1>3 DEF RequestsInv, RaceOK
  <1>4. QED
    BY <1>1, <1>2, <1>3, NextIsStep DEF SetStatus, vars, RequestsInv

LEMMA PromisedShrinks ==
  ASSUME NEW e, NEW c \in Clients, \A d \in Clients \ {c} : req'[d] = req[d],
         Promising(c, e)' => Promising(c, e) /\ req'[c].who = req[c].who
  PROVE  PromisedSeats(e)' \subseteq PromisedSeats(e)
  <1>1. \A d \in Clients : Promising(d, e)' => Promising(d, e) /\ req'[d].who = req[d].who
    BY DEF Promising
  <1>2. PromisedTo(e, Clients)' \subseteq PromisedTo(e, Clients)
    BY <1>1 DEF PromisedTo
  <1>3. PromisedSeats(e)' = PromisedTo(e, Clients)'
    BY DEF PromisedSeats, PromisedTo, Promising
  <1>4. QED BY <1>2, <1>3, PromisedIsAll

RaceInv == RequestsInv /\ OversoldByRaceOnly
BoundOf(e) ==
  Cardinality(Unapproved(e)) + Cardinality(PromisedSeats(e)) <= capacity[e] + OthersSeats

(* A check that finds room, whatever the others were promised meanwhile. *)
LEMMA BoundCount ==
  ASSUME SizesOK, RaceInv, TypeOK', NEW c \in Clients, CountSeats(c), ~Done(c),
         capacity' = capacity, NEW e \in Events
  PROVE  BoundOf(e)'
  <1> USE DEF tables
  <1>1. req[c] \in ActiveRequest /\ req[c] # NoReq /\ RaceOK(c)
    BY Active DEF CountSeats, RaceInv, RequestsInv, Inv
  <1>2. /\ req[c].pc = "count" /\ Fits(req[c].event, Cardinality(req[c].who), req[c].seats)
        /\ req'[c].who = req[c].who /\ req'[c].event = req[c].event
        /\ req'[c].pc \in {"save", "find"}
        /\ \A d \in Clients \ {c} : req'[d] = req[d]
        /\ reg' = reg
    BY <1>1 DEF CountSeats, Goto, RaceInv, RequestsInv, Inv, TypeOK, ActiveRequest
  <1>3. Unapproved(e)' = Unapproved(e)
    BY <1>2 DEF Unapproved, Live, Rows
  <1>4. OthersSeats \in Nat /\ Cardinality(PromisedTo(e, Clients \ {c})) <= OthersSeats
    BY OthersBound DEF RaceInv
  <1>5. CASE e # req[c].event
    <2>1. PromisedSeats(e)' \subseteq PromisedSeats(e)
      BY <1>2, <1>5, PromisedShrinks DEF Promising
    <2>2. BoundOf(e)
      BY DEF RaceInv, OversoldByRaceOnly, BoundOf
    <2>3. QED
      BY <1>3, <1>4, <2>1, <2>2, BoundKeep DEF BoundOf, RaceInv, RequestsInv, Inv
  <1>6. CASE e = req[c].event
    <2> DEFINE Rest == PromisedTo(e, Clients \ {c})
               w == Cardinality(req[c].who)
               l == Cardinality(Unapproved(e))
               k == Cardinality(Rest)
    <2>1. k \in Nat /\ l \in Nat /\ k <= OthersSeats
      BY <1>4, PromisedFinite, UnapprovedFinite DEF SizesOK, RaceInv, RequestsInv, Inv
    <2>2. w \in Nat
      BY <1>1, SeatsAssumption, FS_Subset, FS_CardinalityType DEF ActiveRequest
    <2>3. l + w <= capacity[e]
      <3>1. Cardinality(Live(e)) + w <= capacity[e]
        BY <1>1, <1>2, <1>6 DEF Fits, RaceOK
      <3>2. Cardinality(Live(e)) \in Nat /\ l <= Cardinality(Live(e)) /\ capacity[e] \in Nat
        BY LiveFinite, UnapprovedFinite DEF RaceInv, RequestsInv, Inv, TypeOK
      <3> HIDE DEF l, w
      <3>3. QED BY <2>1, <2>2, <3>1, <3>2
    <2>4. Cardinality(PromisedTo(e, Clients))' = k + w
      <3>1. Promising(c, e)'
        BY <1>2, <1>6 DEF Promising
      <3>2. Cardinality(PromisedTo(e, Clients)')
              = Cardinality(PromisedTo(e, Clients \ {c})') + Cardinality(req'[c].who)
        <4> DEFINE Own == {c} \X req'[c].who
        <4>1. PromisedTo(e, Clients)' = PromisedTo(e, Clients \ {c})' \cup Own
          BY <3>1 DEF PromisedTo
        <4>2. PromisedTo(e, Clients \ {c})' = Rest
          BY <1>2, PromisedRest
        <4>3. Rest \cap Own = {}
          <5>1. ASSUME NEW x \in Rest, x \in Own PROVE FALSE
            <6>1. x[1] \in Clients \ {c}
              BY PromisedPairs
            <6>2. x[1] = c
              BY <5>1
            <6>3. QED BY <6>1, <6>2
          <5>2. QED BY <5>1
        <4>4. IsFiniteSet(req[c].who) /\ IsFiniteSet({c}) /\ Cardinality({c}) = 1
          BY <1>1, SeatsAssumption, FS_Subset, FS_Singleton DEF ActiveRequest
        <4>5. IsFiniteSet(Own) /\ Cardinality(Own) = Cardinality({c}) * w
          BY <1>2, <4>4, FS_Product
        <4>6. Cardinality(Own) = w
          BY <2>2, <4>4, <4>5
        <4>7. IsFiniteSet(Rest)
          BY PromisedFinite DEF SizesOK, RaceInv, RequestsInv, Inv
        <4> HIDE DEF Own, Rest, w
        <4>8. Cardinality(Rest \cup Own)
                = Cardinality(Rest) + Cardinality(Own) - Cardinality(Rest \cap Own)
          BY <4>5, <4>7, FS_Union
        <4>9. Cardinality(Rest \cap Own) = 0
          BY <4>3, FS_EmptySet
        <4>10. Cardinality(Rest \cup Own) = Cardinality(Rest) + w
          BY <2>1, <2>2, <4>6, <4>8, <4>9
        <4>11. QED BY <1>2, <4>1, <4>2, <4>10 DEF w
      <3>3. QED BY <1>2, <3>2, PromisedRest
    <2>5. PromisedSeats(e)' = PromisedTo(e, Clients)'
      BY DEF PromisedSeats, PromisedTo, Promising
    <2>6. capacity[e] \in Nat
      BY DEF RaceInv, RequestsInv, Inv, TypeOK
    <2> HIDE DEF Rest, w, l, k
    <2>7. l + (k + w) <= capacity[e] + OthersSeats
      BY <1>4, <2>1, <2>2, <2>3, <2>6
    <2>8. Cardinality(Unapproved(e)') = l /\ Cardinality(PromisedSeats(e)') = k + w
      BY <1>3, <2>4, <2>5 DEF l
    <2>9. QED BY <2>7, <2>8 DEF BoundOf
  <1>7. QED BY <1>5, <1>6

(* A request that inserts takes what it was promised; an approval takes a    *)
(* seat that does not count here.                                           *)
LEMMA BoundInsert ==
  ASSUME SizesOK, RaceInv, TypeOK', NEW c \in Clients, Inserting(c),
         capacity' = capacity, NEW e \in Events
  PROVE  BoundOf(e)'
  <1>1. /\ req[c] \in ActiveRequest /\ req[c] # NoReq /\ RequestOK(c)
        /\ InsertRegistrations(req[c].who, req[c].event, Source(c))
        /\ Source(c) \in Excs \cup {Form}
        /\ req'[c] = NoReq
    BY InsertingAdds DEF RaceInv, RequestsInv
  <1>2. \A d \in Clients \ {c} : req'[d] = req[d]
    BY OthersWait
      DEF Inserting, Step, RegisterStep, ExceptionStep, RaceInv, RequestsInv, Inv
  <1>3. ~Promising(c, e)'
    BY <1>1 DEF Promising, NoReq
  <1>4. PICK P \in SUBSET People, f \in Events, v \in Excs \cup {Form} :
          P = req[c].who /\ f = req[c].event /\ v = Source(c)
    BY <1>1 DEF ActiveRequest
  <1>5. InsertRegistrations(P, f, v)
    BY <1>1, <1>4
  <1>6. /\ v # Form \/ e # f => Unapproved(e)' \subseteq Unapproved(e)
        /\ Cardinality(Unapproved(f)') <= Cardinality(Unapproved(f)) + Cardinality(P)
    BY <1>5, UnapprovedInsert
  <1>7. OthersSeats \in Nat
    BY OthersBound DEF RaceInv
  <1>8. BoundOf(e) /\ TypeOK
    BY DEF RaceInv, OversoldByRaceOnly, BoundOf, RequestsInv, Inv
  <1>9. CASE v # Form \/ e # f
    <2>1. PromisedSeats(e)' \subseteq PromisedSeats(e)
      BY <1>2, <1>3, PromisedShrinks
    <2>2. QED BY <1>6, <1>7, <1>8, <1>9, <2>1, BoundKeep DEF BoundOf
  <1>10. CASE v = Form /\ e = f
    <2>1. req[c].op # "approve"
      <3>1. req[c].op = "approve" => req[c].row \in Excs
        BY <1>1 DEF RequestOK
      <3>2. QED BY <1>4, <1>10, <3>1, SeatsAssumption DEF Source
    <2>2. ~InsertApproved(c)
      BY <1>1, <2>1 DEF InsertApproved, RequestOK, Phases, ActiveRequest, AllOps
    <2>3. Promising(c, e)
      BY <1>4, <1>10, <2>2 DEF Inserting, InsertSolo, CommitTeam, Promising
    <2>4. QED
      BY <1>2, <1>3, <1>4, <1>6, <1>7, <1>8, <1>10, <2>3, BoundTake DEF BoundOf
  <1>11. QED BY <1>9, <1>10

(* A deletion gives seats back, a restore takes the one it was promised. *)
LEMMA BoundMark ==
  ASSUME SizesOK, RaceInv, TypeOK', NEW c \in Clients, SaveDeleted(c) \/ SaveRestored(c),
         capacity' = capacity, NEW e \in Events
  PROVE  BoundOf(e)'
  <1>1. /\ req[c] \in ActiveRequest /\ req[c] # NoReq /\ RaceOK(c)
        /\ req[c].row \in Rows
        /\ req[c].op = IF SaveDeleted(c) THEN "delete" ELSE "restore"
        /\ Rows' = Rows /\ \A r \in Rows : RowKept(r)
        /\ \A r \in Rows \ {req[c].row} : reg'[r] = reg[r]
        /\ SaveDeleted(c) => reg'[req[c].row].deleted = TRUE
        /\ req'[c] = NoReq
    BY Marking DEF RaceInv, RequestsInv
  <1>2. \A d \in Clients \ {c} : req'[d] = req[d]
    BY OthersWait DEF Step, DeletionStep, RaceInv, RequestsInv, Inv
  <1>3. ~Promising(c, e)'
    BY <1>1 DEF Promising, NoReq
  <1>4. OthersSeats \in Nat
    BY OthersBound DEF RaceInv
  <1>5. BoundOf(e) /\ TypeOK
    BY DEF RaceInv, OversoldByRaceOnly, BoundOf, RequestsInv, Inv
  <1>6. PromisedSeats(e)' \subseteq PromisedSeats(e)
    BY <1>2, <1>3, PromisedShrinks
  <1>7. CASE SaveDeleted(c) \/ reg[req[c].row].event # e
    <2>1. Unapproved(e)' \subseteq Unapproved(e)
      BY <1>1, <1>7 DEF Unapproved, Live, RowKept
    <2>2. QED BY <1>4, <1>5, <1>6, <2>1, BoundKeep DEF BoundOf
  <1>8. CASE ~SaveDeleted(c) /\ reg[req[c].row].event = e
    <2>1. req[c].op = "restore" /\ SaveRestored(c)
      BY <1>1, <1>8
    <2>2. PICK p \in People : req[c].who = {p}
      BY <1>1, <2>1 DEF RaceOK
    <2>3. Promising(c, e)
      BY <1>1, <1>8, <2>1 DEF RaceOK, Promising, SaveRestored
    <2>4. Cardinality(req[c].who) = 1
      BY <2>2, FS_Singleton
    <2>5. Unapproved(e)' \subseteq Unapproved(e) \cup {req[c].row}
      BY <1>1 DEF Unapproved, Live, RowKept
    <2>6. Cardinality(Unapproved(e)') <= Cardinality(Unapproved(e)) + Cardinality(req[c].who)
      <3>1. IsFiniteSet(Unapproved(e)) /\ Cardinality(Unapproved(e)) \in Nat
        BY UnapprovedFinite
      <3>2. IsFiniteSet(Unapproved(e) \cup {req[c].row})
              /\ Cardinality(Unapproved(e) \cup {req[c].row}) <= Cardinality(Unapproved(e)) + 1
        BY <3>1, FS_AddElement
      <3>3. Cardinality(Unapproved(e)') <= Cardinality(Unapproved(e) \cup {req[c].row})
        BY <2>5, <3>2, FS_Subset
      <3>4. Cardinality(Unapproved(e)') \in Nat /\ Cardinality(Unapproved(e) \cup {req[c].row}) \in Nat
        BY <2>5, <3>2, FS_Subset, FS_CardinalityType
      <3>5. QED BY <2>4, <3>1, <3>2, <3>3, <3>4
    <2>7. QED BY <1>2, <1>3, <1>4, <1>5, <2>3, <2>6, BoundTake DEF BoundOf
  <1>9. QED BY <1>7, <1>8

(* The other steps promise nothing and take nothing. *)
LEMMA BoundQuiet ==
  ASSUME SizesOK, RaceInv, TypeOK', NEW c \in Clients, Step(c), ~Inserting(c),
         ~SaveDeleted(c), ~SaveRestored(c), ~(CountSeats(c) /\ ~Done(c)),
         capacity' = capacity, NEW e \in Events
  PROVE  BoundOf(e)'
  <1>1. reg' = reg
    BY OtherStepsKeepRows
  <1>2. Unapproved(e)' = Unapproved(e)
    BY <1>1 DEF Unapproved, Live, Rows
  <1>3. \A d \in Clients \ {c} : req'[d] = req[d]
    BY OthersWait DEF RaceInv, RequestsInv, Inv
  <1>4. Promising(c, e)' => Promising(c, e) /\ req'[c].who = req[c].who
    <2> USE DEF RaceInv, RequestsInv, Inv, TypeOK, Promising
    <2>1. CASE Done(c)
      BY <2>1 DEF Done, NoReq
    <2>2. CASE RegisterStep(c) /\ ~Done(c)
      <3>1. CASE FindAttendees(c) \/ Checks(c) \/ SaveAttendee(c)
        <4>1. req[c] \in ActiveRequest /\ req[c].pc \in {"find", "once", "save"}
          BY <3>1, Active DEF FindAttendees, CheckOnce, Checks, SaveAttendee
        <4>2. req'[c].who = req[c].who /\ req'[c].event = req[c].event
          <5>1. CASE FindAttendees(c)
            BY <4>1, <5>1 DEF FindAttendees, ActiveRequest
          <5>2. CASE Checks(c)
            BY <2>2, <4>1, <5>2 DEF CheckOnce, Checks, ActiveRequest
          <5>3. CASE SaveAttendee(c)
            BY <2>2, <4>1, <5>3 DEF SaveAttendee, Goto, ActiveRequest
          <5>4. QED BY <3>1, <5>1, <5>2, <5>3
        <4>3. QED BY <4>1, <4>2
      <3>2. CASE LockEvent(c)
        BY <3>2, Active DEF LockEvent, Goto, ActiveRequest
      <3>3. ASSUME NEW p \in People, NEW f \in Events, StartRegister(c, p, f)
            PROVE  ~Promising(c, e)'
        BY <3>3 DEF StartRegister, Start
      <3>4. ASSUME NEW P \in SUBSET People, NEW f \in Events, StartTeam(c, P, f)
            PROVE  ~Promising(c, e)'
        BY <3>4 DEF StartTeam, Start
      <3>5. QED
        BY <2>2, <3>1, <3>2, <3>3, <3>4 DEF RegisterStep, InsertSolo, CommitTeam, Checks
    <2>3. CASE DeletionStep(c) /\ ~Done(c)
      <3>1. CASE ReadEvent(c)
        BY <3>1, Active DEF ReadEvent, ActiveRequest
      <3>2. ASSUME NEW r \in Regs, StartDelete(c, r) \/ StartRestore(c, r)
            PROVE  ~Promising(c, e)'
        BY <3>2 DEF StartDelete, StartRestore, Start
      <3>3. QED BY <2>3, <3>1, <3>2 DEF DeletionStep
    <2>4. CASE ExceptionStep(c) /\ ~Done(c)
      <3>1. CASE SaveDecision(c)
        BY <2>4, <3>1, Active DEF SaveDecision, Goto, ActiveRequest
      <3>2. ASSUME NEW p \in People, NEW f \in Events, StartSubmit(c, p, f)
            PROVE  ~Promising(c, e)'
        BY <3>2 DEF StartSubmit, Start
      <3>3. ASSUME NEW x \in Excs, NEW op \in {"approve", "reject"}, StartDecision(c, op, x)
            PROVE  ~Promising(c, e)'
        BY <3>3 DEF StartDecision, Start
      <3>4. QED
        BY <2>4, <3>1, <3>2, <3>3 DEF ExceptionStep, InsertException, InsertApproved
    <2>5. CASE EventStep(c) \/ Abort(c)
      BY <2>5 DEF EventStep, StartCapacity, SetCapacity, StartAckLock, SaveEvent, Start, Abort,
                  Done, NoReq
    <2>6. QED BY <2>1, <2>2, <2>3, <2>4, <2>5 DEF Step
  <1>5. PromisedSeats(e)' \subseteq PromisedSeats(e)
    BY <1>3, <1>4, PromisedShrinks
  <1>6. OthersSeats \in Nat \/ Clients = {}
    BY OthersBound DEF RaceInv
  <1>7. BoundOf(e) /\ TypeOK
    BY DEF RaceInv, OversoldByRaceOnly, BoundOf, RequestsInv, Inv
  <1>8. QED BY <1>2, <1>5, <1>6, <1>7, BoundKeep DEF BoundOf

LEMMA RaceInit ==
  ASSUME SizesOK, Init PROVE RaceInv
  <1>1. Inv /\ Rows = {}
    BY InitInv DEF Init, Rows
  <1>2. \A c \in Clients : RaceOK(c)
    BY DEF Init, RaceOK
  <1>3. ASSUME NEW e \in Events PROVE BoundOf(e)
    <2>1. Unapproved(e) = {}
      BY <1>1 DEF Unapproved, Live
    <2>2. \A c \in Clients : ~Promising(c, e)
      BY DEF Init, Promising, NoReq
    <2>3. PromisedSeats(e) = {}
      BY <2>2, PromisedIsAll DEF PromisedTo
    <2>4. Cardinality(Unapproved(e)) = 0 /\ Cardinality(PromisedSeats(e)) = 0
      BY <2>1, <2>3, FS_EmptySet
    <2>5. OthersSeats \in Nat
      <3>1. CASE Clients = {}
        <4>1. Cardinality(Clients) = 0
          BY <3>1, FS_EmptySet
        <4>2. QED BY <4>1 DEF OthersSeats
      <3>2. CASE Clients # {}
        BY <1>1, <1>2, <3>2, OthersBound DEF RequestsInv
      <3>3. QED BY <3>1, <3>2
    <2>6. capacity[e] \in Nat
      BY <1>1 DEF Inv, TypeOK
    <2>7. QED BY <2>4, <2>5, <2>6 DEF BoundOf
  <1>4. QED BY <1>1, <1>2, <1>3 DEF RaceInv, RequestsInv, OversoldByRaceOnly, BoundOf

LEMMA RaceStep ==
  ASSUME SizesOK, "capacity" \notin Ops, RaceInv, [Next]_vars
  PROVE  RaceInv'
  <1>1. RequestsInv' /\ capacity' = capacity
    BY RaceRequests DEF RaceInv
  <1>2. TypeOK'
    BY <1>1 DEF RequestsInv, Inv
  <1>3. ASSUME NEW c \in Clients, Step(c), NEW e \in Events PROVE BoundOf(e)'
    BY <1>1, <1>2, <1>3, BoundCount, BoundInsert, BoundMark, BoundQuiet
  <1>4. ASSUME UNCHANGED <<reg, capacity, req>>, NEW e \in Events PROVE BoundOf(e)'
    <2>1. Unapproved(e)' = Unapproved(e) /\ PromisedSeats(e)' = PromisedSeats(e)
      BY <1>4 DEF Unapproved, Live, Rows, PromisedSeats
    <2>2. QED BY <1>4, <2>1 DEF RaceInv, OversoldByRaceOnly, BoundOf
  <1>5. \A e \in Events : BoundOf(e)'
    BY <1>3, <1>4, NextIsStep DEF SetStatus, vars, tables
  <1>6. QED BY <1>1, <1>5 DEF RaceInv, OversoldByRaceOnly, BoundOf

(* registrations.service.ts:248's unlocked count, and restore's: however     *)
(* many requests arrive, and whatever organisers approve meanwhile, an event *)
(* is oversold apart from the approved seats at most by those the other      *)
(* requests in flight were promised, when nobody edits the capacity: an edit *)
(* that was counted before them may be saved after any number of them.      *)
THEOREM OversoldByRaces ==
  ASSUME SizesOK, "capacity" \notin Ops
  PROVE  Spec => []OversoldByRaceOnly
  <1>1. Init => RaceInv
    BY RaceInit
  <1>2. RaceInv /\ [Next]_vars => RaceInv'
    BY RaceStep
  <1>3. RaceInv => OversoldByRaceOnly
    BY DEF RaceInv
  <1>4. QED BY <1>1, <1>2, <1>3, PTL DEF Spec

-----------------------------------------------------------------------------
(* Captains and cancellations implement SeatBook. *)

LEMMA SeatsOf ==
  ASSUME NEW e \in Events, NEW p \in People
  PROVE  IsFiniteSet(Seats(p, e)) /\ Cardinality(Seats(p, e)) \in Nat
  <1>1. Seats(p, e) \subseteq Live(e)
    BY DEF Seats
  <1>2. QED BY <1>1, LiveFinite, FS_Subset, FS_CardinalityType

LEMMA BookInit == Init => Book!Init
  <1> SUFFICES ASSUME Init PROVE Book!Init
    OBVIOUS
  <1>1. Inv /\ Rows = {}
    BY InitInv DEF Init, Rows
  <1>2. ASSUME NEW e \in Events
        PROVE  Cardinality(Live(e)) = 0 /\ \A p \in People : Cardinality(Seats(p, e)) = 0
    <2>1. Live(e) = {} /\ \A p \in People : Seats(p, e) = {}
      BY <1>1 DEF Live, Seats
    <2>2. QED BY <2>1, FS_EmptySet
  <1>3. Taken = [e \in Events |-> [p \in People |-> 0]] /\ Used = [e \in Events |-> 0]
    BY <1>2 DEF Taken, Used
  <1>4. QED BY <1>1, <1>3 DEF Book!Init, Inv, TypeOK

LEMMA SameBook ==
  ASSUME reg' = reg, capacity' = capacity PROVE UNCHANGED Book!vars
  <1>1. \A e : Live(e)' = Live(e) /\ \A p : Seats(p, e)' = Seats(p, e)
    BY DEF Live, Rows, Seats
  <1>2. Taken' = Taken /\ Used' = Used
    BY <1>1 DEF Taken, Used
  <1>3. QED BY <1>2 DEF Book!vars

(* SeatBook counts with the same operator. *)
LEMMA SameCardinality == \A S : Book!Cardinality(S) = Cardinality(S)
  BY DEF Book!Cardinality, Cardinality

(* The COMMIT of a team books all of it. *)
LEMMA CommitBooks ==
  ASSUME CaptainInv, NEW c \in Clients, CommitTeam(c), ~EmailTaken(c)
  PROVE  [Book!Next]_(Book!vars)
  <1>1. /\ req[c] \in ActiveRequest /\ req[c] # NoReq
        /\ RequestOK(c) /\ CheckHolds(c)
    BY Active DEF CommitTeam, CaptainInv, Inv
  <1>2. PICK f \in Events, P \in SUBSET People : f = req[c].event /\ P = req[c].who
    BY <1>1 DEF ActiveRequest
  <1>3. InsertRegistrations(P, f, Form) /\ capacity' = capacity
    BY <1>2 DEF CommitTeam
  <1>4. \A p \in P : Seats(p, f) = {}
    <2>1. ASSUME NEW p \in P, p \notin req[c].found PROVE Seats(p, f) = {}
      <3>1. p \notin attendees
        BY <1>2, <2>1 DEF EmailTaken, NewPeople
      <3>2. QED BY <3>1 DEF CaptainInv, RegisteredAreAttendees, Seats, Live
    <2>2. QED BY <1>1, <1>2, <2>1 DEF CommitTeam, CheckHolds
  <1>5. Cardinality(Live(f)) + Cardinality(P) <= capacity[f]
    BY <1>1, <1>2 DEF CommitTeam, CheckHolds, Fits
  <1>6. /\ \A e \in Events \ {f} : Live(e)' = Live(e)
        /\ \A r \in Rows : reg'[r] = reg[r] /\ r \in Rows'
        /\ \A r \in Rows' \ Rows : reg'[r].who \in P /\ reg'[r].event = f
        /\ \A r, s \in Rows' \ Rows : reg'[r].who = reg'[s].who => r = s
        /\ \A p \in P : \E r \in Live(f)' \ Rows : reg'[r].who = p
        /\ Cardinality(Live(f)') = Cardinality(Live(f)) + Cardinality(P)
    BY <1>3, InsertAdds
  <1>7. ASSUME NEW p \in P PROVE Cardinality(Seats(p, f)') = 1
    <2>1. PICK r \in Live(f)' \ Rows : reg'[r].who = p
      BY <1>6
    <2>2. r \in Seats(p, f)'
      BY <2>1 DEF Seats
    <2>3. ASSUME NEW s \in Seats(p, f)' PROVE s = r
      <3>1. s \in Live(f)' /\ s \in Rows' /\ reg'[s].who = p /\ r \in Rows'
        BY <2>1 DEF Seats, Live
      <3>2. s \notin Rows
        <4>1. s \in Rows => s \in Seats(p, f)
          BY <1>6, <3>1 DEF Seats, Live
        <4>2. QED BY <1>4, <4>1
      <3>3. QED BY <1>6, <2>1, <3>1, <3>2
    <2>4. Seats(p, f)' = {r}
      BY <2>2, <2>3
    <2>5. QED BY <2>4, FS_Singleton
  <1>8. ASSUME NEW e \in Events, NEW p \in People, e # f \/ p \notin P
        PROVE  Seats(p, e)' = Seats(p, e)
    <2>1. ASSUME NEW r \in Seats(p, e)' PROVE r \in Seats(p, e)
      <3>1. r \in Live(e)' /\ r \in Rows' /\ reg'[r].who = p /\ reg'[r].event = e
        BY DEF Seats, Live
      <3>2. r \in Rows
        BY <1>6, <1>8, <3>1
      <3>3. QED BY <1>6, <3>1, <3>2 DEF Seats, Live
    <2>2. ASSUME NEW r \in Seats(p, e) PROVE r \in Seats(p, e)'
      BY <1>6 DEF Seats, Live
    <2>3. QED BY <2>1, <2>2
  <1>9. Taken' = [Taken EXCEPT ![f] =
                    [p \in People |-> IF p \in P THEN 1 ELSE Taken[f][p]]]
    BY <1>7, <1>8 DEF Taken
  <1>10. Used' = [Used EXCEPT ![f] = Used[f] + Cardinality(P)]
    BY <1>6 DEF Used
  <1>11. (\A p \in P : Taken[f][p] = 0) /\ Used[f] + Cardinality(P) <= capacity[f]
    <2>1. \A p \in P : Cardinality(Seats(p, f)) = 0
      BY <1>4, FS_EmptySet
    <2>2. QED BY <1>5, <2>1 DEF Taken, Used
  <1>12. Book!Book(f, P)
    BY <1>3, <1>9, <1>10, <1>11, SameCardinality DEF Book!Book
  <1>13. CASE P # {}
    BY <1>12, <1>13 DEF Book!Next
  <1>14. CASE P = {}
    <2>1. Cardinality(P) = 0
      BY <1>14, FS_EmptySet
    <2>2. \A e \in Events : Cardinality(Live(e)') = Cardinality(Live(e))
      BY <1>6, <2>1, LiveFinite
    <2>3. Taken' = Taken /\ Used' = Used
      BY <1>8, <1>14, <2>2 DEF Taken, Used
    <2>4. QED BY <1>3, <2>3 DEF Book!vars
  <1>15. QED BY <1>13, <1>14

(* A deletion gives the seat back, unless the row was deleted before. *)
LEMMA DeletionCancels ==
  ASSUME CaptainInv, NEW c \in Clients, SaveDeleted(c)
  PROVE  [Book!Next]_(Book!vars)
  <1>1. /\ req[c].row \in Rows
        /\ Rows' = Rows /\ \A r \in Rows : RowKept(r)
        /\ \A r \in Rows \ {req[c].row} : reg'[r] = reg[r]
        /\ reg'[req[c].row].deleted = TRUE
    BY Marking DEF CaptainInv
  <1>2. capacity' = capacity
    BY DEF SaveDeleted
  <1>3. PICK r \in Rows : r = req[c].row
    BY <1>1
  <1>4. reg[r] \in Registration
    BY DEF Rows, CaptainInv, Inv, TypeOK
  <1>5. PICK f \in Events, q \in People : f = reg[r].event /\ q = reg[r].who
    BY <1>4 DEF Registration
  <1>6. \A e \in Events : Live(e)' = Live(e) \ {r}
    BY <1>1, <1>3 DEF Live, RowKept
  <1>7. \A e \in Events, p \in People : Seats(p, e)' = Seats(p, e) \ {r}
    <2>1. ASSUME NEW e \in Events, NEW p \in People
          PROVE  Seats(p, e)' = {s \in Live(e)' : reg'[s].who = p}
      BY DEF Seats
    <2>2. \A e \in Events : \A s \in Live(e) : reg'[s].who = reg[s].who
      BY <1>1 DEF RowKept, Live
    <2>3. QED BY <1>6, <2>1, <2>2 DEF Seats
  <1>8. CASE r \in Live(f)
    <2>1. r \in Seats(q, f)
      BY <1>5, <1>8 DEF Seats
    <2>2. Cardinality(Live(f)') = Cardinality(Live(f)) - 1
      BY <1>6, <1>8, LiveFinite, FS_RemoveElement
    <2>3. /\ Cardinality(Seats(q, f)') = Cardinality(Seats(q, f)) - 1
          /\ Cardinality(Seats(q, f)) > 0
      <3>1. IsFiniteSet(Seats(q, f)) /\ Cardinality(Seats(q, f)) \in Nat
        BY SeatsOf
      <3>2. Cardinality(Seats(q, f) \ {r}) = Cardinality(Seats(q, f)) - 1
        BY <2>1, <3>1, FS_RemoveElement
      <3>3. Cardinality(Seats(q, f) \ {r}) \in Nat
        BY <3>1, FS_RemoveElement, FS_CardinalityType
      <3>4. Seats(q, f)' = Seats(q, f) \ {r}
        BY <1>7
      <3>5. Cardinality(Seats(q, f)) > 0
        BY <3>1, <3>2, <3>3
      <3>6. QED BY <3>2, <3>4, <3>5
    <2>4. \A e \in Events : e # f => Live(e)' = Live(e)
      BY <1>5, <1>6 DEF Live
    <2>5. \A e \in Events, p \in People : e # f \/ p # q => Seats(p, e)' = Seats(p, e)
      BY <1>5, <1>7 DEF Seats, Live
    <2>6. Taken' = [Taken EXCEPT ![f] = [Taken[f] EXCEPT ![q] = Taken[f][q] - 1]]
      BY <2>3, <2>5 DEF Taken
    <2>7. Used' = [Used EXCEPT ![f] = Used[f] - 1]
      BY <2>2, <2>4 DEF Used
    <2>8. Taken[f][q] > 0
      BY <2>3 DEF Taken
    <2>9. Book!Cancel(f, q)
      BY <1>2, <2>6, <2>7, <2>8 DEF Book!Cancel, Taken
    <2>10. QED BY <2>9 DEF Book!Next
  <1>9. CASE r \notin Live(f)
    <2>1. \A e \in Events : r \notin Live(e)
      BY <1>5, <1>9 DEF Live
    <2>2. \A e \in Events : Live(e)' = Live(e) /\ \A p \in People : Seats(p, e)' = Seats(p, e)
      <3>1. ASSUME NEW e \in Events, NEW p \in People PROVE Seats(p, e)' = Seats(p, e)
        <4>1. r \notin Seats(p, e)
          BY <2>1 DEF Seats
        <4>2. Seats(p, e)' = Seats(p, e) \ {r}
          BY <1>7
        <4>3. QED BY <4>1, <4>2
      <3>2. \A e \in Events : Live(e)' = Live(e)
        BY <1>6, <2>1
      <3>3. QED BY <3>1, <3>2
    <2>3. Taken' = Taken /\ Used' = Used
      BY <2>2 DEF Taken, Used
    <2>4. QED BY <1>2, <2>3 DEF Book!vars
  <1>10. QED BY <1>8, <1>9

LEMMA BookStep ==
  ASSUME Ops \subseteq CaptainOps, CaptainInv, [Next]_vars
  PROVE  [Book!Next]_(Book!vars)
  <1> USE DEF tables
  <1>1. ASSUME NEW c \in Clients, Step(c) PROVE [Book!Next]_(Book!vars)
    <2>1. req[c].pc # "idle" =>
            /\ req[c] \in ActiveRequest /\ req[c].pc \in Phases(req[c].op)
            /\ req[c].op \in CaptainOps
      BY Active DEF CaptainInv, Inv, RequestOK, CheckHolds, CaptainOps
    <2>2. /\ ~InsertSolo(c) /\ ~InsertApproved(c) /\ ~SaveRestored(c)
          /\ \A n \in Settable : ~SetCapacity(c, n)
      BY <2>1 DEF InsertSolo, InsertApproved, SaveRestored, SetCapacity, Phases, CaptainOps
    <2>3. CASE Inserting(c)
      BY <2>2, <2>3, CommitBooks DEF Inserting
    <2>4. CASE SaveDeleted(c)
      BY <2>4, DeletionCancels
    <2>5. CASE ~Inserting(c) /\ ~SaveDeleted(c)
      <3>1. reg' = reg
        BY <1>1, <2>2, <2>5, OtherStepsKeepRows
      <3>2. capacity' = capacity
        BY <1>1, <2>2, SaveEventKeeps
          DEF Step, RegisterStep, StartRegister, StartTeam, LockEvent, CountSeats,
              FindAttendees, CheckOnce, Checks, SaveAttendee, InsertSolo, CommitTeam, DeletionStep,
              StartDelete, StartRestore, SaveDeleted, ReadEvent, SaveRestored, ExceptionStep,
              StartSubmit, StartDecision, InsertException, SaveDecision, InsertApproved,
              EventStep, StartCapacity, StartAckLock, Abort
      <3>3. QED BY <3>1, <3>2, SameBook
    <2>6. QED BY <2>3, <2>4, <2>5
  <1>2. ASSUME UNCHANGED <<reg, capacity>> PROVE UNCHANGED Book!vars
    BY <1>2, SameBook
  <1>3. QED BY <1>1, <1>2, NextIsStep DEF SetStatus, vars

(* Captains and cancellations keep the promise of SeatBook: whatever teams   *)
(* are in flight, a team is seated as a whole, only if it fits and none of   *)
(* its members holds a seat, in one step.                                    *)
THEOREM CaptainsBookAtomically ==
  ASSUME Ops \subseteq CaptainOps
  PROVE  Spec => BooksAtomically
  <1>1. Init => CaptainInv
    BY CaptainInit
  <1>2. CaptainInv /\ [Next]_vars => CaptainInv'
    BY CaptainStep
  <1>3. CaptainInv /\ [Next]_vars => [Book!Next]_(Book!vars)
    BY BookStep
  <1>4. QED BY <1>1, <1>2, <1>3, BookInit, PTL DEF Spec, BooksAtomically, Book!Spec
=============================================================================
