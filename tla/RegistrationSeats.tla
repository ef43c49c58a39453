-------------------------- MODULE RegistrationSeats --------------------------
(***************************************************************************)
(* The seats of an event: who may register, and whether there is room.      *)
(* RegistrationsService.register and registerTeam, the exception requests,  *)
(* soft deletion and restore, and the event edits they race with.           *)
(*                                                                          *)
(* Every SQL statement is a step, except where the database itself makes    *)
(* several of them one: the INSERTs of registerTeam become visible together *)
(* at its COMMIT.  registerTeam holds the event row FOR UPDATE; an INSERT   *)
(* into registrations takes the foreign key's lock on that row, and an      *)
(* UPDATE of the event its own, so both wait for the holder.                *)
(*                                                                          *)
(* A repository.save is a SELECT and an UPDATE of the columns found          *)
(* different.  For one column that is one step: at the UPDATE when the       *)
(* column differed, at the SELECT, writing nothing, when it did not.         *)
(***************************************************************************)
EXTENDS Naturals, FiniteSets, FiniteSetsExt

CONSTANTS
  Regs,        \* ids of registrations (bound: how many rows are ever inserted)
  Excs,        \* ids of exception requests (bound, likewise)
  People,      \* e-mail addresses
  Events,      \* events of one type
  Clients,     \* requests in flight at the same time
  Ops,         \* the kinds of request that arrive
  OnePerType,  \* the type is in ONE_PER_TYPE_SLUGS
  TeamSizes,   \* min_team_size .. max_team_size of the formation config
  MaxSeats     \* bound on max_capacity

AllOps == {"register", "team", "submit", "approve", "reject", "delete", "restore",
           "capacity", "status", "ackLock"}

Form == "form"   \* where a registration came from: the registration form

ASSUME SeatsAssumption ==
  /\ IsFiniteSet(Regs) /\ IsFiniteSet(People)
  /\ Ops \subseteq AllOps
  /\ OnePerType \in BOOLEAN
  /\ TeamSizes \subseteq Nat \ {0}
  /\ MaxSeats \in Nat
  /\ Form \notin Excs

VARIABLES
  reg,        \* registrations
  exc,        \* exception_requests
  attendees,  \* attendees: the e-mail addresses that have a row (UNIQUE)
  open,       \* events whose status accepts registrations
  capacity,   \* events.max_capacity
  lock,       \* transactions holding the event row FOR UPDATE
  req         \* the HTTP handlers

tables == <<reg, exc, attendees, open, capacity>>
vars   == <<tables, lock, req>>

NoRow == [who |-> {}]
Registration == [who : People, event : Events, via : Excs \cup {Form}, deleted : BOOLEAN]
ExcStatus    == {"pending", "approved", "rejected"}
Exception    == [who : People, event : Events, status : ExcStatus]

NoReq == [pc |-> "idle"]
Pc == {"lock", "count", "find", "once", "save", "insert", "delete", "event",
       "submit", "decide", "approved", "capacity", "saveOpen", "saveClosed"}
ActiveRequest ==
  [pc : Pc, op : AllOps, who : SUBSET People, event : Events,
   seats : Nat,             \* max_capacity as the handler read it
   found : SUBSET People,   \* those of who that have an attendee row
   ask : SUBSET People,     \* those of found not yet checked for a seat
   row : Regs \cup Excs \cup {Form}]

TypeOK ==
  /\ reg \in [Regs -> Registration \cup {NoRow}]
  /\ exc \in [Excs -> Exception \cup {NoRow}]
  /\ attendees \in SUBSET People
  /\ open \in SUBSET Events
  /\ capacity \in [Events -> Nat]
  /\ lock \in [Events -> SUBSET Clients]
  /\ req \in [Clients -> ActiveRequest \cup {NoReq}]

Init ==
  /\ reg = [r \in Regs |-> NoRow]
  /\ exc = [x \in Excs |-> NoRow]
  /\ attendees \in SUBSET People
  /\ open = Events
  /\ capacity \in [Events -> 1..MaxSeats]
  /\ lock = [e \in Events |-> {}]
  /\ req = [c \in Clients |-> NoReq]

-----------------------------------------------------------------------------
Rows == {r \in Regs : reg[r] # NoRow}
Live(e) == {r \in Rows : reg[r].event = e /\ ~reg[r].deleted}
Seats(p, e) == {r \in Live(e) : reg[r].who = p}

(* Mutant: one seat too many. *)
MutFitsOneMore(e, n, seats) == Cardinality(Live(e)) + n <= seats + 1

(* regCount + n <= max_capacity. *)
Fits(e, n, seats) == Cardinality(Live(e)) + n <= seats

(* Mutant: the rule per type replaced the rule per event. *)
MutBlockedByTypeOnly(p, e) == OnePerType /\ \E f \in Events : Seats(p, f) # {}

(* Mutant: the rule per type is forgotten. *)
MutBlockedByEventOnly(p, e) == Seats(p, e) # {}

(* assertNotAlreadyRegisteredForType(). *)
Blocked(p, e) ==
  \/ Seats(p, e) # {}
  \/ OnePerType /\ \E f \in Events : Seats(p, f) # {}

(* The event row is not held FOR UPDATE by another transaction. *)
Unlocked(e) == lock[e] = {}

(* max_capacity as far as the handler's first SELECT brings it. *)
SeatsAt(op, e) == IF op \in {"register", "team", "ackLock"} THEN capacity[e] ELSE 0

Start(c, op, pc, P, e, row) ==
  /\ req[c] = NoReq /\ op \in Ops
  /\ req' = [req EXCEPT ![c] = [pc |-> pc, op |-> op, who |-> P, event |-> e,
                                seats |-> SeatsAt(op, e), found |-> {}, ask |-> {},
                                row |-> row]]

Goto(c, pc) == req' = [req EXCEPT ![c].pc = pc]

(* The handler answers or throws; a transaction ends and its lock is gone. *)
Done(c) ==
  /\ req' = [req EXCEPT ![c] = NoReq]
  /\ lock' = [e \in Events |-> lock[e] \ {c}]

(* The process dies, or the connection breaks: statements already committed *)
(* stay, an open transaction is rolled back.                                *)
Abort(c) == req[c] # NoReq /\ Done(c) /\ UNCHANGED tables

-----------------------------------------------------------------------------
(* register() and registerTeam() *)

(* The event is read: status, and the max_capacity used below. *)
StartRegister(c, p, e) ==
  /\ e \in open
  /\ Start(c, "register", "count", {p}, e, Form)
  /\ UNCHANGED <<tables, lock>>

StartTeam(c, P, e) ==
  /\ e \in open
  /\ Cardinality(P) \in TeamSizes
  /\ Start(c, "team", "lock", P, e, Form)
  /\ UNCHANGED <<tables, lock>>

(* Mutant: the row is not locked. *)
MutNoLock(c) ==
  /\ req[c].pc = "lock"
  /\ Goto(c, "count")
  /\ UNCHANGED <<tables, lock>>

(* SELECT id FROM events ... FOR UPDATE. *)
LockEvent(c) ==
  /\ req[c].pc = "lock" /\ Unlocked(req[c].event)
  /\ lock' = [lock EXCEPT ![req[c].event] = {c}]
  /\ Goto(c, "count")
  /\ UNCHANGED tables

(* COUNT of the live registrations against max_capacity: register(),        *)
(* registerTeam() and restoreRegistration().                                *)
CountSeats(c) ==
  /\ req[c].pc = "count"
  /\ IF Fits(req[c].event, Cardinality(req[c].who), req[c].seats)
     THEN Goto(c, IF req[c].op = "restore" THEN "save" ELSE "find") /\ UNCHANGED lock
     ELSE Done(c)
  /\ UNCHANGED tables

(* The duplicate check comes next, for one person after the other. *)
Asking(ask) == IF ask = {} THEN "save" ELSE "once"

(* SELECT of the attendees with these addresses. *)
FindAttendees(c) ==
  LET known == req[c].who \cap attendees IN
  /\ req[c].pc = "find"
  /\ req' = [req EXCEPT ![c].pc = Asking(known), ![c].found = known, ![c].ask = known]
  /\ UNCHANGED <<tables, lock>>

(* Only a person who already had a row is checked.  Where the type allows    *)
(* one registration, a SELECT for the type follows the one for the event; it *)
(* finds whatever the first would find at the same moment, so the two are    *)
(* one step: at the first when that refuses, else at the second.             *)
CheckOnce(c, p) ==
  LET rest == req[c].ask \ {p} IN
  /\ req[c].pc = "once" /\ p \in req[c].ask
  /\ IF Blocked(p, req[c].event)
     THEN Done(c)
     ELSE /\ req' = [req EXCEPT ![c].pc = Asking(rest), ![c].ask = rest]
          /\ UNCHANGED lock
  /\ UNCHANGED tables

(* Those to be inserted; attendees.email is UNIQUE. *)
NewPeople(c) == req[c].who \ req[c].found
EmailTaken(c) == NewPeople(c) \cap attendees # {}

(* register() saves the attendee, in a transaction of its own. *)
SaveAttendee(c) ==
  /\ req[c].pc = "save" /\ req[c].op = "register"
  /\ IF EmailTaken(c)
     THEN Done(c) /\ UNCHANGED attendees
     ELSE /\ attendees' = attendees \cup req[c].who
          /\ Goto(c, "insert") /\ UNCHANGED lock
  /\ UNCHANGED <<reg, exc, open, capacity>>

(* One new row for each of P, under ids not used before. *)
InsertRegistrations(P, e, via) ==
  \E id \in [P -> Regs \ Rows] :
    /\ \A p, q \in P : id[p] = id[q] => p = q
    /\ reg' = [r \in Regs |->
         IF \E p \in P : id[p] = r
         THEN [who |-> CHOOSE p \in P : id[p] = r, event |-> e, via |-> via,
               deleted |-> FALSE]
         ELSE reg[r]]

(* register()'s INSERT; its foreign key waits for the event row's lock. *)
InsertSolo(c) ==
  /\ req[c].pc = "insert" /\ Unlocked(req[c].event)
  /\ InsertRegistrations(req[c].who, req[c].event, Form)
  /\ Done(c)
  /\ UNCHANGED <<exc, attendees, open, capacity>>

(* registerTeam() inserts attendees, registrations, team and members, and   *)
(* commits; a taken address rolls everything back.                          *)
CommitTeam(c) ==
  /\ req[c].pc = "save" /\ req[c].op = "team"
  /\ IF EmailTaken(c)
     THEN UNCHANGED <<reg, attendees>>
     ELSE /\ attendees' = attendees \cup req[c].who
          /\ InsertRegistrations(req[c].who, req[c].event, Form)
  /\ Done(c)
  /\ UNCHANGED <<exc, open, capacity>>

-----------------------------------------------------------------------------
(* softDeleteRegistration(), restoreRegistration() *)

StartDelete(c, r) ==
  /\ r \in Rows /\ ~reg[r].deleted
  /\ Start(c, "delete", "delete", {reg[r].who}, reg[r].event, r)
  /\ UNCHANGED <<tables, lock>>

SaveDeleted(c) ==
  /\ req[c].pc = "delete"
  /\ reg' = [reg EXCEPT ![req[c].row].deleted = TRUE]
  /\ Done(c)
  /\ UNCHANGED <<exc, attendees, open, capacity>>

(* Restore reads the row, then its event, then counts. *)
StartRestore(c, r) ==
  /\ r \in Rows /\ reg[r].deleted
  /\ Start(c, "restore", "event", {reg[r].who}, reg[r].event, r)
  /\ UNCHANGED <<tables, lock>>

ReadEvent(c) ==
  /\ req[c].pc = "event"
  /\ req' = [req EXCEPT ![c].pc = "count", ![c].seats = capacity[req[c].event]]
  /\ UNCHANGED <<tables, lock>>

SaveRestored(c) ==
  /\ req[c].pc = "save" /\ req[c].op = "restore"
  /\ reg' = [reg EXCEPT ![req[c].row].deleted = FALSE]
  /\ Done(c)
  /\ UNCHANGED <<exc, attendees, open, capacity>>

-----------------------------------------------------------------------------
(* ExceptionsService *)

PendingFor(p, e) ==
  {x \in Excs : exc[x] # NoRow /\ exc[x].who = p /\ exc[x].event = e
                 /\ exc[x].status = "pending"}

(* submit(): the attendee exists and has no pending request for the event. *)
StartSubmit(c, p, e) ==
  /\ p \in attendees /\ PendingFor(p, e) = {}
  /\ Start(c, "submit", "submit", {p}, e, Form)
  /\ UNCHANGED <<tables, lock>>

InsertException(c) ==
  /\ req[c].pc = "submit"
  /\ \E x \in Excs : \E p \in req[c].who :
       /\ exc[x] = NoRow
       /\ exc' = [exc EXCEPT ![x] = [who |-> p, event |-> req[c].event,
                                     status |-> "pending"]]
  /\ Done(c)
  /\ UNCHANGED <<reg, attendees, open, capacity>>

(* Mutant: a request already processed may be processed again. *)
MutProcessable(x) == exc[x] # NoRow

Processable(x) == exc[x] # NoRow /\ exc[x].status = "pending"

(* approve() and reject() load the request, which must be pending. *)
StartDecision(c, op, x) ==
  /\ op \in {"approve", "reject"} /\ Processable(x)
  /\ Start(c, op, "decide", {exc[x].who}, exc[x].event, x)
  /\ UNCHANGED <<tables, lock>>

(* Mutant: the verb of the route is stored. *)
MutDecisionIsVerb(op) == op

(* The status a decision leaves. *)
DecisionOf(op) == IF op = "approve" THEN "approved" ELSE "rejected"

SaveDecision(c) ==
  /\ req[c].pc = "decide"
  /\ exc' = [exc EXCEPT ![req[c].row].status = DecisionOf(req[c].op)]
  /\ IF req[c].op = "approve" THEN Goto(c, "approved") /\ UNCHANGED lock ELSE Done(c)
  /\ UNCHANGED <<reg, attendees, open, capacity>>

(* approve() registers the person: no capacity check, no duplicate check. *)
InsertApproved(c) ==
  /\ req[c].pc = "approved" /\ Unlocked(req[c].event)
  /\ InsertRegistrations(req[c].who, req[c].event, req[c].row)
  /\ Done(c)
  /\ UNCHANGED <<exc, attendees, open, capacity>>

-----------------------------------------------------------------------------
(* EventsService.update() *)

(* A new max_capacity is compared with the live registrations. *)
StartCapacity(c, e, n) ==
  /\ Cardinality(Live(e)) <= n
  /\ req[c] = NoReq
  /\ req' = [req EXCEPT ![c] =
               [pc |-> "capacity", op |-> "capacity", who |-> {}, event |-> e,
                seats |-> n, found |-> {}, ask |-> {}, row |-> Form]]
  /\ UNCHANGED <<tables, lock>>

SetCapacity(c, n) ==
  /\ req[c].pc = "capacity" /\ req[c].seats = n /\ Unlocked(req[c].event)
  /\ capacity' = [capacity EXCEPT ![req[c].event] = n]
  /\ Done(c)
  /\ UNCHANGED <<reg, exc, attendees, open>>

(* An update without max_capacity is one statement. *)
SetStatus(e) ==
  /\ "status" \in Ops /\ Unlocked(e)
  /\ open' = IF e \in open THEN open \ {e} ELSE open \cup {e}
  /\ UNCHANGED <<reg, exc, attendees, capacity, lock, req>>

-----------------------------------------------------------------------------
(* AdminService.lockAcknowledgements(), unlockAcknowledgements() *)

(* The event is loaded, with its capacity and its status. *)
StartAckLock(c, e) ==
  /\ Start(c, "ackLock", IF e \in open THEN "saveOpen" ELSE "saveClosed", {}, e, Form)
  /\ UNCHANGED <<tables, lock>>

(* eventRepo.save() of the row as it was loaded: a column that was edited    *)
(* since is written back, unless it was edited after the save's own SELECT.  *)
SaveEvent(c) ==
  /\ req[c].pc \in {"saveOpen", "saveClosed"} /\ Unlocked(req[c].event)
  /\ capacity' \in {capacity, [capacity EXCEPT ![req[c].event] = req[c].seats]}
  /\ open' \in {open, IF req[c].pc = "saveOpen" THEN open \cup {req[c].event}
                      ELSE open \ {req[c].event}}
  /\ Done(c)
  /\ UNCHANGED <<reg, exc, attendees>>

-----------------------------------------------------------------------------
RegisterStep(c) ==
  \/ \E e \in Events : \/ \E p \in People : StartRegister(c, p, e)
                       \/ \E P \in SUBSET People : StartTeam(c, P, e)
  \/ LockEvent(c) \/ CountSeats(c) \/ FindAttendees(c)
  \/ \E p \in People : CheckOnce(c, p)
  \/ SaveAttendee(c) \/ InsertSolo(c) \/ CommitTeam(c)

DeletionStep(c) ==
  \/ \E r \in Regs : StartDelete(c, r) \/ StartRestore(c, r)
  \/ SaveDeleted(c) \/ ReadEvent(c) \/ SaveRestored(c)

ExceptionStep(c) ==
  \/ \E p \in People, e \in Events : StartSubmit(c, p, e)
  \/ \E x \in Excs, op \in {"approve", "reject"} : StartDecision(c, op, x)
  \/ InsertException(c) \/ SaveDecision(c) \/ InsertApproved(c)

(* What an organiser may set the capacity to. *)
Settable == {n \in 0..MaxSeats : "capacity" \in Ops}

EventStep(c) ==
  \/ \E n \in Settable : \/ \E e \in Events : StartCapacity(c, e, n)
                          \/ SetCapacity(c, n)
  \/ \E e \in Events : StartAckLock(c, e)
  \/ SaveEvent(c)

Next ==
  \/ \E c \in Clients : RegisterStep(c) \/ DeletionStep(c) \/ ExceptionStep(c)
                          \/ EventStep(c) \/ Abort(c)
  \/ \E e \in Events : SetStatus(e)

Spec == Init /\ [][Next]_vars

-----------------------------------------------------------------------------
(* Properties *)

(* No event has more live registrations than seats: what the capacity       *)
(* checks of register(), registerTeam(), restoreRegistration() and          *)
(* EventsService.update() are there for.                                    *)
NeverOversold == \A e \in Events : Cardinality(Live(e)) <= capacity[e]

(* registrations.service.ts:386: nobody is registered twice for one event.  *)
NobodyTwice == \A e \in Events, p \in People : \A r, s \in Seats(p, e) : r = s

(* The seats promised to requests that passed their capacity check and have *)
(* yet to take them.                                                        *)
PromisedSeats(e) ==
  UNION {{c} \X req[c].who : c \in
           {d \in Clients : /\ req[d].pc \in {"find", "once", "save", "insert"}
                            /\ req[d].event = e}}

(* The seats all requests but one can have been promised: by the lock at     *)
(* most one of them is a team's, the others are single.                      *)
OthersSeats ==
  IF Cardinality(Clients) < 2 THEN 0
  ELSE Cardinality(Clients) - 2 + Max({1} \cup TeamSizes)

(* Seats that no organiser gave beyond the capacity.                         *)
Unapproved(e) == {r \in Live(e) : reg[r].via = Form}

(* How far the unlocked checks of register() and restoreRegistration() can  *)
(* go wrong: apart from approved exceptions, an event is oversold at most   *)
(* by the seats promised to the other requests in flight, however long the  *)
(* registration stays open.                                                 *)
OversoldByRaceOnly ==
  \A e \in Events :
    Cardinality(Unapproved(e)) + Cardinality(PromisedSeats(e)) <= capacity[e] + OthersSeats

(* Between a team's count and its COMMIT nobody else's registration for the *)
(* event is inserted, although register() and approve() take no lock: the   *)
(* foreign key of their INSERT waits for the captain's FOR UPDATE.          *)
Counted(c, e) ==
  req[c].pc \in {"find", "once", "save"} /\ req[c].op = "team" /\ req[c].event = e
RowsOf(e) == {r \in Rows : reg[r].event = e}
TeamSeesEveryInsert ==
  [][\A c \in Clients, e \in Events :
       Counted(c, e) /\ req'[c] # NoReq => RowsOf(e)' = RowsOf(e)]_vars

(* Captains and cancellations together keep the promise of SeatBook. *)
Taken == [e \in Events |-> [p \in People |-> Cardinality(Seats(p, e))]]
Used  == [e \in Events |-> Cardinality(Live(e))]
Book  == INSTANCE SeatBook WITH taken <- Taken, used <- Used
BooksAtomically == Book!Spec
=============================================================================
