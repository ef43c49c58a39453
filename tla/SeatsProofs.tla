----------------------------- MODULE SeatsProofs -----------------------------
(* Proofs about RegistrationSeats, for any number of registrations, people, *)
(* events and concurrent requests.                                          *)
EXTENDS RegistrationSeats, FiniteSetTheorems, TLAPS

(* How far a request of each kind can be. *)
Phases(op) ==
  CASE op = "register" -> {"count", "find", "once", "save", "insert"}
    [] op = "team"     -> {"lock", "count", "find", "once", "save"}
    [] op = "delete"   -> {"delete"}
    [] op = "restore"  -> {"event", "count", "save"}
    [] op = "submit"   -> {"submit"}
    [] op = "approve"  -> {"decide", "approved"}
    [] op = "reject"   -> {"decide"}
    [] op = "capacity" -> {"capacity"}
    [] op = "ackLock"  -> {"saveOpen", "saveClosed"}
    [] OTHER           -> {}

Holding == {"count", "find", "once", "save"}

(* A request is in a phase of its kind, its row exists, and a team's         *)
(* transaction holds the lock of its event from the count on.               *)
RequestOK(c) ==
  req[c] # NoReq =>
    /\ req[c].pc \in Phases(req[c].op)
    /\ req[c].op \in {"delete", "restore"} =>
         req[c].row \in Regs /\ reg[req[c].row] \in Registration
    /\ req[c].op \in {"approve", "reject"} =>
         req[c].row \in Excs /\ exc[req[c].row] \in Exception
    /\ req[c].op = "team" /\ req[c].pc \in Holding => lock[req[c].event] = {c}

Inv == TypeOK /\ \A c \in Clients : RequestOK(c)

LEMMA InitInv == Init => Inv
  <1> SUFFICES ASSUME Init PROVE Inv
    OBVIOUS
  <1>1. capacity \in [Events -> Nat]
    BY SeatsAssumption DEF Init
  <1>2. TypeOK
    BY <1>1 DEF Init, TypeOK
  <1>3. QED BY <1>2 DEF Inv, RequestOK, Init

(* A request in progress has all its fields. *)
LEMMA Active ==
  ASSUME TypeOK, NEW c \in Clients, req[c].pc # "idle"
  PROVE  req[c] \in ActiveRequest /\ req[c] # NoReq
  BY DEF TypeOK, NoReq

(* The three ways a handler moves on. *)
LEMMA StartInv ==
  ASSUME Inv, NEW c \in Clients, NEW op \in AllOps, NEW pc \in Pc,
         NEW P \in SUBSET People, NEW e \in Events, NEW row \in Regs \cup Excs \cup {Form},
         NEW seats \in Nat,
         req' = [req EXCEPT ![c] = [pc |-> pc, op |-> op, who |-> P, event |-> e,
                                    seats |-> seats, found |-> {}, ask |-> {},
                                    row |-> row]],
         UNCHANGED <<tables, lock>>,
         pc \in Phases(op), op = "team" => pc \notin Holding,
         op \in {"delete", "restore"} => row \in Regs /\ reg[row] \in Registration,
         op \in {"approve", "reject"} => row \in Excs /\ exc[row] \in Exception
  PROVE  Inv'
  <1> DEFINE new == [pc |-> pc, op |-> op, who |-> P, event |-> e,
                     seats |-> seats, found |-> {}, ask |-> {}, row |-> row]
  <1>1. new \in ActiveRequest
    BY DEF ActiveRequest
  <1>2. TypeOK'
    BY <1>1 DEF Inv, TypeOK, tables
  <1>3. req'[c] = new /\ \A d \in Clients \ {c} : req'[d] = req[d]
    BY DEF Inv, TypeOK
  <1>4. ASSUME NEW d \in Clients PROVE RequestOK(d)'
    <2>1. CASE d = c
      BY <2>1, <1>3 DEF RequestOK, tables
    <2>2. CASE d # c
      BY <2>2, <1>3 DEF Inv, RequestOK, tables
    <2>3. QED BY <2>1, <2>2
  <1>5. QED BY <1>2, <1>4 DEF Inv

LEMMA StartedInv ==
  ASSUME Inv, NEW c \in Clients, NEW op \in AllOps, NEW pc \in Pc,
         NEW P \in SUBSET People, NEW e \in Events, NEW row \in Regs \cup Excs \cup {Form},
         Start(c, op, pc, P, e, row), UNCHANGED <<tables, lock>>,
         pc \in Phases(op), op = "team" => pc \notin Holding,
         op \in {"delete", "restore"} => row \in Regs /\ reg[row] \in Registration,
         op \in {"approve", "reject"} => row \in Excs /\ exc[row] \in Exception
  PROVE  Inv'
  <1>1. SeatsAt(op, e) \in Nat
    BY DEF Inv, TypeOK, SeatsAt
  <1>2. req' = [req EXCEPT ![c] = [pc |-> pc, op |-> op, who |-> P, event |-> e,
                                   seats |-> SeatsAt(op, e), found |-> {}, ask |-> {},
                                   row |-> row]]
    BY DEF Start
  <1>3. QED BY <1>1, <1>2, StartInv

(* A step of one handler: what the others rely on stays. *)
RowsPersist ==
  /\ \A r \in Regs : reg[r] \in Registration => reg'[r] \in Registration
  /\ \A x \in Excs : exc[x] \in Exception => exc'[x] \in Exception

LEMMA OthersInv ==
  ASSUME Inv, TypeOK', NEW c \in Clients,
         \A d \in Clients \ {c} : req'[d] = req[d],
         \A d \in Clients \ {c}, e \in Events : lock[e] = {d} => lock'[e] = {d},
         RowsPersist, RequestOK(c)'
  PROVE  Inv'
  <1>1. ASSUME NEW d \in Clients PROVE RequestOK(d)'
    <2>1. CASE d # c
      <3>1. req[d] # NoReq => req[d] \in ActiveRequest
        BY DEF Inv, TypeOK
      <3>2. QED BY <2>1, <3>1 DEF Inv, RequestOK, RowsPersist, ActiveRequest
    <2>2. QED BY <2>1
  <1>2. QED BY <1>1 DEF Inv

(* The handler ends: its request is gone and so is its lock. *)
LEMMA DoneInv ==
  ASSUME Inv, NEW c \in Clients, Done(c),
         reg' \in [Regs -> Registration \cup {NoRow}],
         exc' \in [Excs -> Exception \cup {NoRow}],
         attendees' \in SUBSET People, open' \in SUBSET Events,
         capacity' \in [Events -> Nat],
         RowsPersist
  PROVE  Inv'
  <1>1. TypeOK'
    BY DEF Inv, TypeOK, Done
  <1>2. RequestOK(c)'
    BY DEF Inv, TypeOK, Done, RequestOK
  <1>3. \A d \in Clients \ {c} : req'[d] = req[d]
    BY DEF Inv, TypeOK, Done
  <1>4. \A d \in Clients \ {c}, e \in Events : lock[e] = {d} => lock'[e] = {d}
    BY DEF Inv, TypeOK, Done
  <1>5. QED BY <1>1, <1>2, <1>3, <1>4, OthersInv

(* The handler goes on to a phase of its kind. *)
LEMMA GotoInv ==
  ASSUME Inv, NEW c \in Clients, NEW new \in ActiveRequest, req[c] # NoReq,
         req' = [req EXCEPT ![c] = new],
         new.op = req[c].op, new.row = req[c].row, new.event = req[c].event,
         new.pc \in Phases(new.op),
         new.op = "team" /\ new.pc \in Holding => req[c].pc \in Holding,
         reg' = reg, UNCHANGED <<open, capacity, lock>>,
         exc' \in [Excs -> Exception \cup {NoRow}],
         attendees' \in SUBSET People,
         RowsPersist
  PROVE  Inv'
  <1>1. TypeOK'
    BY DEF Inv, TypeOK
  <1>2. req'[c] = new /\ \A d \in Clients \ {c} : req'[d] = req[d]
    BY DEF Inv, TypeOK
  <1>3. RequestOK(c)'
    <2>1. RequestOK(c) /\ req[c] \in ActiveRequest
      BY DEF Inv, TypeOK
    <2>2. QED BY <1>2, <2>1 DEF RequestOK, RowsPersist, ActiveRequest
  <1>4. QED BY <1>1, <1>2, <1>3, OthersInv

-----------------------------------------------------------------------------
(* Nothing is written. *)
LEMMA SameRows ==
  ASSUME UNCHANGED <<reg, exc>> PROVE RowsPersist
  BY DEF RowsPersist

LEMMA QuietDone ==
  ASSUME Inv, NEW c \in Clients, Done(c), UNCHANGED tables PROVE Inv'
  BY DoneInv, SameRows DEF Inv, TypeOK, tables

(* What InsertRegistrations writes. *)
LEMMA InsertedRows ==
  ASSUME Inv, NEW P \in SUBSET People, NEW e \in Events, NEW via \in Excs \cup {Form},
         InsertRegistrations(P, e, via)
  PROVE  /\ reg' \in [Regs -> Registration \cup {NoRow}]
         /\ \A r \in Regs : reg[r] \in Registration => reg'[r] = reg[r]
  <1>1. PICK id \in [P -> Regs \ Rows] :
          /\ \A p, q \in P : id[p] = id[q] => p = q
          /\ reg' = [r \in Regs |->
                IF \E p \in P : id[p] = r
                THEN [who |-> CHOOSE p \in P : id[p] = r, event |-> e, via |-> via,
                      deleted |-> FALSE]
                ELSE reg[r]]
    BY DEF InsertRegistrations
  <1>2. ASSUME NEW r \in Regs, \E p \in P : id[p] = r
        PROVE  reg'[r] \in Registration /\ r \notin Rows
    <2>1. (CHOOSE p \in P : id[p] = r) \in P
      BY <1>2
    <2>2. QED BY <1>1, <1>2, <2>1 DEF Registration
  <1>3. NoRow \notin Registration
    BY DEF NoRow, Registration
  <1>4. ASSUME NEW r \in Regs, reg[r] \in Registration
        PROVE  reg'[r] = reg[r]
    <2>1. r \in Rows
      BY <1>3, <1>4 DEF Rows
    <2>2. QED BY <1>1, <1>2, <2>1
  <1>5. ASSUME NEW r \in Regs PROVE reg'[r] \in Registration \cup {NoRow}
    BY <1>1, <1>2 DEF Inv, TypeOK
  <1>6. QED BY <1>1, <1>4, <1>5

(* register(), registerTeam() *)
LEMMA RegisterInv ==
  ASSUME Inv, NEW c \in Clients, RegisterStep(c)
  PROVE  Inv'
  <1> USE DEF tables
  <1>1. ASSUME NEW p \in People, NEW e \in Events, StartRegister(c, p, e)
        PROVE  Inv'
    <2>1. Start(c, "register", "count", {p}, e, Form) /\ UNCHANGED <<tables, lock>>
      BY <1>1 DEF StartRegister
    <2>2. "count" \in Phases("register") /\ "register" \in AllOps /\ "count" \in Pc
      BY DEF Phases, AllOps, Pc
    <2>3. QED BY <2>1, <2>2, StartedInv
  <1>2. ASSUME NEW P \in SUBSET People, NEW e \in Events, StartTeam(c, P, e)
        PROVE  Inv'
    <2>1. Start(c, "team", "lock", P, e, Form) /\ UNCHANGED <<tables, lock>>
      BY <1>2 DEF StartTeam
    <2>2. /\ "lock" \in Phases("team") /\ "team" \in AllOps /\ "lock" \in Pc
          /\ "lock" \notin Holding
      BY DEF Phases, AllOps, Pc, Holding
    <2>3. QED BY <2>1, <2>2, StartedInv
  <1>3. ASSUME LockEvent(c) PROVE Inv'
    <2>1. req[c] \in ActiveRequest /\ req[c] # NoReq /\ RequestOK(c)
      BY <1>3, Active DEF LockEvent, Inv
    <2>2. req' = [req EXCEPT ![c] = [req[c] EXCEPT !.pc = "count"]]
      BY <1>3 DEF LockEvent, Goto, Inv, TypeOK
    <2>3. [req[c] EXCEPT !.pc = "count"] \in ActiveRequest
      BY <2>1 DEF ActiveRequest, Pc
    <2>4. TypeOK'
      BY <1>3, <2>1, <2>2, <2>3 DEF LockEvent, Inv, TypeOK, ActiveRequest
    <2>5. req[c].op = "team"
      BY <1>3, <2>1 DEF LockEvent, RequestOK, Phases, ActiveRequest, AllOps
    <2>6. RequestOK(c)'
      BY <1>3, <2>1, <2>2, <2>3, <2>5
        DEF LockEvent, Inv, TypeOK, RequestOK, Phases, ActiveRequest
    <2>7. \A d \in Clients \ {c}, e \in Events : lock[e] = {d} => lock'[e] = {d}
      BY <1>3, <2>1 DEF LockEvent, Unlocked, Inv, TypeOK, ActiveRequest
    <2>8. \A d \in Clients \ {c} : req'[d] = req[d]
      BY <2>2 DEF Inv, TypeOK
    <2>9. RowsPersist
      BY <1>3, SameRows DEF LockEvent
    <2>10. QED BY <2>4, <2>6, <2>7, <2>8, <2>9, OthersInv
  <1>4. ASSUME CountSeats(c) PROVE Inv'
    <2>1. req[c] \in ActiveRequest /\ req[c] # NoReq /\ RequestOK(c)
      BY <1>4, Active DEF CountSeats, Inv
    <2>2. CASE Done(c)
      BY <1>4, <2>2, QuietDone DEF CountSeats
    <2>3. CASE ~Done(c)
      <3> DEFINE pc == IF req[c].op = "restore" THEN "save" ELSE "find"
                 new == [req[c] EXCEPT !.pc = pc]
      <3>1. new \in ActiveRequest /\ new.pc = pc /\ new.op = req[c].op
              /\ new.row = req[c].row /\ new.event = req[c].event
        BY <2>1 DEF ActiveRequest, Pc
      <3>2. req' = [req EXCEPT ![c] = new] /\ UNCHANGED lock
        BY <1>4, <2>3 DEF CountSeats, Goto, Inv, TypeOK
      <3>3. new.pc \in Phases(new.op)
        BY <1>4, <2>1, <3>1 DEF CountSeats, RequestOK, Phases, ActiveRequest, AllOps
      <3>4. req[c].pc \in Holding
        BY <1>4 DEF CountSeats, Holding
      <3> HIDE DEF new, pc
      <3>5. QED
        BY <1>4, <2>1, <3>1, <3>2, <3>3, <3>4, GotoInv, SameRows DEF CountSeats, Inv, TypeOK
    <2>4. QED BY <2>2, <2>3
  <1>5. ASSUME FindAttendees(c) PROVE Inv'
    <2> DEFINE known == req[c].who \cap attendees
               new   == [req[c] EXCEPT !.pc = Asking(known), !.found = known, !.ask = known]
    <2>1. req[c] \in ActiveRequest /\ req[c] # NoReq /\ RequestOK(c)
      BY <1>5, Active DEF FindAttendees, Inv
    <2>2. new \in ActiveRequest /\ new.pc \in {"once", "save"} /\ new.op = req[c].op
            /\ new.row = req[c].row /\ new.event = req[c].event
      BY <2>1 DEF ActiveRequest, Pc, Asking
    <2>3. req' = [req EXCEPT ![c] = new]
      BY <1>5 DEF FindAttendees, Inv, TypeOK
    <2>4. new.pc \in Phases(new.op) /\ req[c].pc \in Holding
      BY <1>5, <2>1, <2>2
        DEF FindAttendees, RequestOK, Phases, ActiveRequest, AllOps, Holding
    <2> HIDE DEF new
    <2>5. QED
      BY <1>5, <2>1, <2>2, <2>3, <2>4, GotoInv, SameRows DEF FindAttendees, Inv, TypeOK
  <1>6. ASSUME NEW p \in People, CheckOnce(c, p) PROVE Inv'
    <2> DEFINE rest == req[c].ask \ {p}
               new  == [req[c] EXCEPT !.pc = Asking(rest), !.ask = rest]
    <2>1. req[c] \in ActiveRequest /\ req[c] # NoReq /\ RequestOK(c)
      BY <1>6, Active DEF CheckOnce, Inv
    <2>2. CASE Done(c)
      BY <1>6, <2>2, QuietDone DEF CheckOnce
    <2>3. CASE ~Done(c)
      <3>1. new \in ActiveRequest /\ new.pc \in {"once", "save"} /\ new.op = req[c].op
              /\ new.row = req[c].row /\ new.event = req[c].event
        BY <2>1 DEF ActiveRequest, Pc, Asking
      <3>2. req' = [req EXCEPT ![c] = new] /\ UNCHANGED lock
        BY <1>6, <2>3 DEF CheckOnce, Inv, TypeOK
      <3>3. new.pc \in Phases(new.op) /\ req[c].pc \in Holding
        BY <1>6, <2>1, <3>1
          DEF CheckOnce, RequestOK, Phases, ActiveRequest, AllOps, Holding
      <3> HIDE DEF new
      <3>4. QED
        BY <1>6, <2>1, <3>1, <3>2, <3>3, GotoInv, SameRows DEF CheckOnce, Inv, TypeOK
    <2>4. QED BY <2>2, <2>3
  <1>7. ASSUME SaveAttendee(c) PROVE Inv'
    <2> DEFINE new == [req[c] EXCEPT !.pc = "insert"]
    <2>1. req[c] \in ActiveRequest /\ req[c] # NoReq
      BY <1>7, Active DEF SaveAttendee, Inv
    <2>2. attendees' \in SUBSET People /\ reg' = reg /\ exc' = exc
      BY <1>7, <2>1 DEF SaveAttendee, ActiveRequest, Inv, TypeOK
    <2>3. CASE Done(c)
      BY <1>7, <2>2, <2>3, DoneInv, SameRows DEF SaveAttendee, Inv, TypeOK
    <2>4. CASE ~Done(c)
      <3>1. new \in ActiveRequest /\ new.pc = "insert" /\ new.op = "register"
              /\ new.op = req[c].op /\ new.row = req[c].row /\ new.event = req[c].event
        BY <1>7, <2>1 DEF SaveAttendee, ActiveRequest, Pc
      <3>2. req' = [req EXCEPT ![c] = new] /\ UNCHANGED lock
        BY <1>7, <2>4 DEF SaveAttendee, Goto, Inv, TypeOK
      <3>3. new.pc \in Phases(new.op)
        BY <3>1 DEF Phases
      <3> HIDE DEF new
      <3>4. QED
        BY <1>7, <2>1, <2>2, <3>1, <3>2, <3>3, GotoInv, SameRows
          DEF SaveAttendee, Inv, TypeOK
    <2>5. QED BY <2>3, <2>4
  <1>8. ASSUME InsertSolo(c) PROVE Inv'
    <2>1. req[c] \in ActiveRequest
      BY <1>8, Active DEF InsertSolo, Inv
    <2>2. /\ reg' \in [Regs -> Registration \cup {NoRow}]
          /\ \A r \in Regs : reg[r] \in Registration => reg'[r] = reg[r]
      BY <1>8, <2>1, InsertedRows DEF InsertSolo, ActiveRequest
    <2>3. QED
      BY <1>8, <2>2, DoneInv DEF InsertSolo, RowsPersist, Inv, TypeOK
  <1>9. ASSUME CommitTeam(c) PROVE Inv'
    <2>1. req[c] \in ActiveRequest
      BY <1>9, Active DEF CommitTeam, Inv
    <2>2. CASE EmailTaken(c)
      BY <1>9, <2>2, QuietDone DEF CommitTeam
    <2>3. CASE ~EmailTaken(c)
      <3>1. /\ reg' \in [Regs -> Registration \cup {NoRow}]
            /\ \A r \in Regs : reg[r] \in Registration => reg'[r] = reg[r]
        BY <1>9, <2>1, <2>3, InsertedRows DEF CommitTeam, ActiveRequest
      <3>2. attendees' \in SUBSET People
        BY <1>9, <2>1, <2>3 DEF CommitTeam, ActiveRequest, Inv, TypeOK
      <3>3. QED
        BY <1>9, <3>1, <3>2, DoneInv DEF CommitTeam, RowsPersist, Inv, TypeOK
    <2>4. QED BY <2>2, <2>3
  <1>10. QED
    BY <1>1, <1>2, <1>3, <1>4, <1>5, <1>6, <1>7, <1>8, <1>9 DEF RegisterStep

(* softDeleteRegistration(), restoreRegistration() *)
LEMMA RowDeleted ==
  ASSUME Inv, NEW r \in Regs, reg[r] \in Registration, NEW b \in BOOLEAN,
         reg' = [reg EXCEPT ![r].deleted = b]
  PROVE  /\ reg' \in [Regs -> Registration \cup {NoRow}]
         /\ \A s \in Regs : reg[s] \in Registration => reg'[s] \in Registration
  <1>1. [reg[r] EXCEPT !.deleted = b] \in Registration
    BY DEF Registration
  <1>2. reg' = [reg EXCEPT ![r] = [reg[r] EXCEPT !.deleted = b]]
    BY DEF Inv, TypeOK
  <1>3. QED BY <1>1, <1>2 DEF Inv, TypeOK

LEMMA DeletionInv ==
  ASSUME Inv, NEW c \in Clients, DeletionStep(c)
  PROVE  Inv'
  <1> USE DEF tables
  <1>1. ASSUME NEW r \in Regs, StartDelete(c, r) \/ StartRestore(c, r)
        PROVE  Inv'
    <2>1. reg[r] \in Registration
      BY <1>1 DEF StartDelete, StartRestore, Rows, Inv, TypeOK
    <2>2. {reg[r].who} \in SUBSET People /\ reg[r].event \in Events
      BY <2>1 DEF Registration
    <2>3. /\ "delete" \in Phases("delete") /\ "event" \in Phases("restore")
          /\ {"delete", "restore"} \subseteq AllOps /\ {"delete", "event"} \subseteq Pc
      BY DEF Phases, AllOps, Pc
    <2>4. CASE StartDelete(c, r)
      <3>1. Start(c, "delete", "delete", {reg[r].who}, reg[r].event, r)
        BY <2>4 DEF StartDelete
      <3>2. QED BY <2>1, <2>2, <2>3, <2>4, <3>1, StartedInv DEF StartDelete
    <2>5. CASE StartRestore(c, r)
      <3>1. Start(c, "restore", "event", {reg[r].who}, reg[r].event, r)
        BY <2>5 DEF StartRestore
      <3>2. QED BY <2>1, <2>2, <2>3, <2>5, <3>1, StartedInv DEF StartRestore
    <2>6. QED BY <1>1, <2>4, <2>5
  <1>2. ASSUME SaveDeleted(c) \/ SaveRestored(c) PROVE Inv'
    <2>1. req[c] \in ActiveRequest /\ req[c] # NoReq /\ RequestOK(c)
      BY <1>2, Active DEF SaveDeleted, SaveRestored, Inv
    <2>2. req[c].op \in {"delete", "restore"}
      BY <1>2, <2>1 DEF SaveDeleted, SaveRestored, RequestOK, Phases, ActiveRequest, AllOps
    <2>3. req[c].row \in Regs /\ reg[req[c].row] \in Registration
      BY <2>1, <2>2 DEF RequestOK
    <2>4. \E b \in BOOLEAN : reg' = [reg EXCEPT ![req[c].row].deleted = b]
      BY <1>2 DEF SaveDeleted, SaveRestored
    <2>5. RowsPersist /\ reg' \in [Regs -> Registration \cup {NoRow}]
      BY <1>2, <2>3, <2>4, RowDeleted DEF RowsPersist, SaveDeleted, SaveRestored
    <2>6. QED
      BY <1>2, <2>5, DoneInv DEF SaveDeleted, SaveRestored, Inv, TypeOK
  <1>3. ASSUME ReadEvent(c) PROVE Inv'
    <2> DEFINE new == [req[c] EXCEPT !.pc = "count", !.seats = capacity[req[c].event]]
    <2>1. req[c] \in ActiveRequest /\ req[c] # NoReq /\ RequestOK(c)
      BY <1>3, Active DEF ReadEvent, Inv
    <2>2. req[c].op = "restore"
      BY <1>3, <2>1 DEF ReadEvent, RequestOK, Phases, ActiveRequest, AllOps
    <2>3. capacity[req[c].event] \in Nat
      BY <2>1 DEF ActiveRequest, Inv, TypeOK
    <2>4. new \in ActiveRequest /\ new.pc = "count" /\ new.op = req[c].op
            /\ new.row = req[c].row /\ new.event = req[c].event
      BY <2>1, <2>3 DEF ActiveRequest, Pc
    <2>5. req' = [req EXCEPT ![c] = new]
      BY <1>3 DEF ReadEvent, Inv, TypeOK
    <2>6. new.pc \in Phases(new.op) /\ new.op # "team"
      BY <2>2, <2>4 DEF Phases
    <2> HIDE DEF new
    <2>7. QED
      BY <1>3, <2>1, <2>4, <2>5, <2>6, GotoInv, SameRows DEF ReadEvent, Inv, TypeOK
  <1>4. QED BY <1>1, <1>2, <1>3 DEF DeletionStep

(* ExceptionsService *)
LEMMA ExceptionInv ==
  ASSUME Inv, NEW c \in Clients, ExceptionStep(c)
  PROVE  Inv'
  <1> USE DEF tables
  <1>1. ASSUME NEW p \in People, NEW e \in Events, StartSubmit(c, p, e)
        PROVE  Inv'
    <2>1. Start(c, "submit", "submit", {p}, e, Form) /\ UNCHANGED <<tables, lock>>
      BY <1>1 DEF StartSubmit
    <2>2. "submit" \in Phases("submit") /\ "submit" \in AllOps /\ "submit" \in Pc
      BY DEF Phases, AllOps, Pc
    <2>3. QED BY <2>1, <2>2, StartedInv
  <1>2. ASSUME NEW x \in Excs, NEW op \in {"approve", "reject"}, StartDecision(c, op, x)
        PROVE  Inv'
    <2>1. exc[x] \in Exception
      BY <1>2 DEF StartDecision, Processable, Inv, TypeOK
    <2>2. {exc[x].who} \in SUBSET People /\ exc[x].event \in Events
      BY <2>1 DEF Exception
    <2>3. Start(c, op, "decide", {exc[x].who}, exc[x].event, x)
            /\ UNCHANGED <<tables, lock>>
      BY <1>2 DEF StartDecision
    <2>4. "decide" \in Phases(op) /\ op \in AllOps /\ "decide" \in Pc
      BY DEF Phases, AllOps, Pc
    <2>5. QED BY <2>1, <2>2, <2>3, <2>4, StartedInv
  <1>3. ASSUME InsertException(c) PROVE Inv'
    <2>1. req[c] \in ActiveRequest
      BY <1>3, Active DEF InsertException, Inv
    <2>2. PICK x \in Excs, p \in req[c].who :
            exc[x] = NoRow
            /\ exc' = [exc EXCEPT ![x] = [who |-> p, event |-> req[c].event,
                                          status |-> "pending"]]
      BY <1>3 DEF InsertException
    <2>3. [who |-> p, event |-> req[c].event, status |-> "pending"] \in Exception
      BY <2>1, <2>2 DEF ActiveRequest, Exception, ExcStatus
    <2>4. exc' \in [Excs -> Exception \cup {NoRow}]
      BY <2>2, <2>3 DEF Inv, TypeOK
    <2>5. RowsPersist
      BY <1>3, <2>2, <2>3 DEF InsertException, RowsPersist, Inv, TypeOK
    <2>6. QED BY <1>3, <2>4, <2>5, DoneInv DEF InsertException, Inv, TypeOK
  <1>4. ASSUME SaveDecision(c) PROVE Inv'
    <2> DEFINE x   == req[c].row
               row == [exc[x] EXCEPT !.status = DecisionOf(req[c].op)]
               new == [req[c] EXCEPT !.pc = "approved"]
    <2>1. req[c] \in ActiveRequest /\ req[c] # NoReq /\ RequestOK(c)
      BY <1>4, Active DEF SaveDecision, Inv
    <2>2. req[c].op \in {"approve", "reject"}
      BY <1>4, <2>1 DEF SaveDecision, RequestOK, Phases, ActiveRequest, AllOps
    <2>3. x \in Excs /\ exc[x] \in Exception
      BY <2>1, <2>2 DEF RequestOK
    <2>4. row \in Exception
      BY <2>3 DEF Exception, DecisionOf, ExcStatus
    <2>5. exc' = [exc EXCEPT ![x] = row]
      BY <1>4 DEF SaveDecision, Inv, TypeOK
    <2>6. exc' \in [Excs -> Exception \cup {NoRow}]
      BY <2>4, <2>5 DEF Inv, TypeOK
    <2>7. RowsPersist
      BY <1>4, <2>4, <2>5 DEF SaveDecision, RowsPersist, Inv, TypeOK
    <2>8. CASE Done(c)
      BY <1>4, <2>6, <2>7, <2>8, DoneInv DEF SaveDecision, Inv, TypeOK
    <2>9. CASE ~Done(c)
      <3>1. new \in ActiveRequest /\ new.pc = "approved" /\ new.op = "approve"
              /\ new.op = req[c].op /\ new.row = req[c].row /\ new.event = req[c].event
        BY <1>4, <2>1, <2>9 DEF SaveDecision, ActiveRequest, Pc
      <3>2. req' = [req EXCEPT ![c] = new] /\ UNCHANGED lock
        BY <1>4, <2>9 DEF SaveDecision, Goto, Inv, TypeOK
      <3>3. new.pc \in Phases(new.op)
        BY <3>1 DEF Phases
      <3> HIDE DEF new
      <3>4. QED
        BY <1>4, <2>1, <2>6, <2>7, <3>1, <3>2, <3>3, GotoInv DEF SaveDecision, Inv, TypeOK
    <2>10. QED BY <2>8, <2>9
  <1>5. ASSUME InsertApproved(c) PROVE Inv'
    <2>1. req[c] \in ActiveRequest /\ req[c] # NoReq /\ RequestOK(c)
      BY <1>5, Active DEF InsertApproved, Inv
    <2>2. req[c].op = "approve"
      BY <1>5, <2>1 DEF InsertApproved, RequestOK, Phases, ActiveRequest, AllOps
    <2>3. req[c].row \in Excs
      BY <2>1, <2>2 DEF RequestOK
    <2>4. /\ reg' \in [Regs -> Registration \cup {NoRow}]
          /\ \A r \in Regs : reg[r] \in Registration => reg'[r] = reg[r]
      BY <1>5, <2>1, <2>3, InsertedRows DEF InsertApproved, ActiveRequest
    <2>5. QED
      BY <1>5, <2>4, DoneInv DEF InsertApproved, RowsPersist, Inv, TypeOK
  <1>6. QED BY <1>1, <1>2, <1>3, <1>4, <1>5 DEF ExceptionStep

(* EventsService.update(), lockAcknowledgements() *)
LEMMA EventInv ==
  ASSUME Inv, NEW c \in Clients, EventStep(c)
  PROVE  Inv'
  <1> USE DEF tables
  <1>1. ASSUME NEW e \in Events, NEW n \in Settable, StartCapacity(c, e, n)
        PROVE  Inv'
    <2>1. "capacity" \in Phases("capacity") /\ "capacity" \in AllOps /\ "capacity" \in Pc
      BY DEF Phases, AllOps, Pc
    <2>2. req' = [req EXCEPT ![c] =
                    [pc |-> "capacity", op |-> "capacity", who |-> {}, event |-> e,
                     seats |-> n, found |-> {}, ask |-> {}, row |-> Form]]
            /\ UNCHANGED <<tables, lock>> /\ {} \in SUBSET People /\ n \in Nat
            /\ Form \in Regs \cup Excs \cup {Form}
      BY <1>1, SeatsAssumption DEF StartCapacity, Settable
    <2>3. QED BY <2>1, <2>2, StartInv
  <1>2. ASSUME NEW n \in Settable, SetCapacity(c, n) PROVE Inv'
    <2>1. n \in Nat
      BY SeatsAssumption DEF Settable
    <2>2. capacity' \in [Events -> Nat]
      BY <1>2, <2>1 DEF SetCapacity, Inv, TypeOK
    <2>3. QED BY <1>2, <2>2, DoneInv, SameRows DEF SetCapacity, Inv, TypeOK
  <1>3. ASSUME NEW e \in Events, StartAckLock(c, e) PROVE Inv'
    <2>1. PICK pc \in {"saveOpen", "saveClosed"} : Start(c, "ackLock", pc, {}, e, Form)
      BY <1>3 DEF StartAckLock
    <2>2. pc \in Phases("ackLock") /\ "ackLock" \in AllOps /\ pc \in Pc
      BY DEF Phases, AllOps, Pc
    <2>3. {} \in SUBSET People /\ UNCHANGED <<tables, lock>>
      BY <1>3 DEF StartAckLock
    <2>4. QED BY <2>1, <2>2, <2>3, StartedInv
  <1>4. ASSUME SaveEvent(c) PROVE Inv'
    <2>1. req[c] \in ActiveRequest
      BY <1>4, Active DEF SaveEvent, Inv
    <2>2. capacity' \in [Events -> Nat] /\ open' \in SUBSET Events
      BY <1>4, <2>1 DEF SaveEvent, ActiveRequest, Inv, TypeOK
    <2>3. QED BY <1>4, <2>2, DoneInv, SameRows DEF SaveEvent, Inv, TypeOK
  <1>5. QED BY <1>1, <1>2, <1>3, <1>4 DEF EventStep

LEMMA NextInv == Inv /\ [Next]_vars => Inv'
  <1> SUFFICES ASSUME Inv, [Next]_vars PROVE Inv'
    OBVIOUS
  <1>1. ASSUME NEW c \in Clients, Abort(c) PROVE Inv'
    BY <1>1, QuietDone DEF Abort
  <1>2. ASSUME NEW e \in Events, SetStatus(e) PROVE Inv'
    <2>1. open' \in SUBSET Events
      BY <1>2 DEF SetStatus, Inv, TypeOK
    <2>2. QED BY <1>2, <2>1 DEF SetStatus, Inv, TypeOK, RequestOK
  <1>3. CASE UNCHANGED vars
    BY <1>3 DEF Inv, TypeOK, RequestOK, vars, tables
  <1>4. QED
    BY <1>1, <1>2, <1>3, RegisterInv, DeletionInv, ExceptionInv, EventInv DEF Next

LEMMA InvHolds == Spec => []Inv
  BY InitInv, NextInv, PTL DEF Spec

(* Every table, lock and request keeps its type. *)
THEOREM TypeCorrect == Spec => []TypeOK
  <1>1. Inv => TypeOK
    BY DEF Inv
  <1>2. QED BY <1>1, InvHolds, PTL

-----------------------------------------------------------------------------
(* Only an INSERT for the event, or a COMMIT, adds a row to it. *)
LEMMA InsertsOf ==
  ASSUME Inv, NEW P \in SUBSET People, NEW e \in Events, NEW f \in Events,
         NEW via \in Excs \cup {Form}, InsertRegistrations(P, f, via), e # f
  PROVE  RowsOf(e)' = RowsOf(e)
  <1>1. PICK id \in [P -> Regs \ Rows] :
          reg' = [r \in Regs |->
                IF \E p \in P : id[p] = r
                THEN [who |-> CHOOSE p \in P : id[p] = r, event |-> f, via |-> via,
                      deleted |-> FALSE]
                ELSE reg[r]]
    BY DEF InsertRegistrations
  <1>2. ASSUME NEW r \in Regs, ~\E p \in P : id[p] = r
        PROVE  reg'[r] = reg[r]
    BY <1>1, <1>2
  <1>3. ASSUME NEW r \in Regs, \E p \in P : id[p] = r
        PROVE  r \notin RowsOf(e)' /\ r \notin RowsOf(e)
    BY <1>1, <1>3 DEF RowsOf, Rows
  <1>4. QED BY <1>2, <1>3 DEF RowsOf, Rows

LEMMA DeletedRows ==
  ASSUME Inv, NEW c \in Clients, SaveDeleted(c) \/ SaveRestored(c), NEW e \in Events
  PROVE  RowsOf(e)' = RowsOf(e)
  <1>1. req[c] \in ActiveRequest /\ req[c] # NoReq /\ RequestOK(c)
    BY Active DEF SaveDeleted, SaveRestored, Inv
  <1>2. req[c].op \in {"delete", "restore"}
    BY <1>1 DEF SaveDeleted, SaveRestored, RequestOK, Phases, ActiveRequest, AllOps
  <1>3. PICK r \in Regs, b \in BOOLEAN :
          reg[r] \in Registration /\ reg' = [reg EXCEPT ![r] = [reg[r] EXCEPT !.deleted = b]]
    BY <1>1, <1>2 DEF SaveDeleted, SaveRestored, RequestOK, Inv, TypeOK
  <1>4. [reg[r] EXCEPT !.deleted = b] # NoRow /\ reg[r] # NoRow
          /\ [reg[r] EXCEPT !.deleted = b].event = reg[r].event
    BY <1>3 DEF Registration, NoRow
  <1>5. QED BY <1>3, <1>4 DEF RowsOf, Rows, Inv, TypeOK

(* registerTeam()'s lock: between the count and the COMMIT no other         *)
(* registration for the event is inserted, whatever other requests do.      *)
THEOREM TeamUndisturbed == Spec => TeamSeesEveryInsert
  <1>1. ASSUME Inv, [Next]_vars, NEW c \in Clients, NEW e \in Events,
               Counted(c, e), req'[c] # NoReq
        PROVE  RowsOf(e)' = RowsOf(e)
    <2> USE DEF tables
    <2>1. lock[e] = {c}
      <3>1. req[c] # NoReq
        BY <1>1, Active DEF Inv, Counted
      <3>2. QED BY <1>1, <3>1 DEF Inv, RequestOK, Holding, Counted
    <2>2. ASSUME NEW d \in Clients, InsertSolo(d) \/ InsertApproved(d)
          PROVE  RowsOf(e)' = RowsOf(e)
      <3>1. req[d] \in ActiveRequest /\ req[d] # NoReq /\ RequestOK(d)
        BY <1>1, <2>2, Active DEF InsertSolo, InsertApproved, Inv
      <3>2. req[d].event # e
        BY <2>1, <2>2 DEF InsertSolo, InsertApproved, Unlocked
      <3>3. CASE InsertSolo(d)
        BY <1>1, <3>1, <3>2, <3>3, InsertsOf DEF InsertSolo, ActiveRequest
      <3>4. CASE InsertApproved(d)
        <4>1. req[d].op = "approve"
          BY <3>1, <3>4 DEF InsertApproved, RequestOK, Phases, ActiveRequest, AllOps
        <4>2. req[d].row \in Excs
          BY <3>1, <4>1 DEF RequestOK
        <4>3. QED
          BY <1>1, <3>1, <3>2, <3>4, <4>2, InsertsOf DEF InsertApproved, ActiveRequest
      <3>5. QED BY <2>2, <3>3, <3>4
    <2>3. ASSUME NEW d \in Clients, CommitTeam(d)
          PROVE  RowsOf(e)' = RowsOf(e)
      <3>1. req[d] \in ActiveRequest /\ req[d] # NoReq /\ RequestOK(d)
        BY <1>1, <2>3, Active DEF CommitTeam, Inv
      <3>2. d # c
        BY <1>1, <2>3 DEF CommitTeam, Done, Inv, TypeOK
      <3>3. lock[req[d].event] = {d}
        BY <2>3, <3>1 DEF CommitTeam, RequestOK, Holding
      <3>4. req[d].event # e
        BY <2>1, <3>2, <3>3
      <3>5. CASE EmailTaken(d)
        BY <2>3, <3>5 DEF CommitTeam, RowsOf, Rows
      <3>6. CASE ~EmailTaken(d)
        BY <1>1, <2>3, <3>1, <3>4, <3>6, InsertsOf DEF CommitTeam, ActiveRequest
      <3>7. QED BY <3>5, <3>6
    <2>4. CASE UNCHANGED reg
      BY <2>4 DEF RowsOf, Rows
    <2>5. ASSUME NEW d \in Clients, RegisterStep(d) \/ DeletionStep(d)
          PROVE  RowsOf(e)' = RowsOf(e)
      BY <1>1, <2>2, <2>3, <2>4, <2>5, DeletedRows
        DEF RegisterStep, DeletionStep, StartRegister, StartTeam, LockEvent, CountSeats,
            FindAttendees, CheckOnce, SaveAttendee, StartDelete, StartRestore, ReadEvent
    <2>6. ASSUME NEW d \in Clients, ExceptionStep(d) \/ EventStep(d) \/ Abort(d)
          PROVE  RowsOf(e)' = RowsOf(e)
      BY <1>1, <2>2, <2>4, <2>6
        DEF ExceptionStep, EventStep, StartSubmit, StartDecision, InsertException,
            SaveDecision, StartCapacity, SetCapacity, StartAckLock, SaveEvent, Abort
    <2>7. QED BY <1>1, <2>4, <2>5, <2>6 DEF Next, SetStatus, vars
  <1>2. Inv /\ [Next]_vars =>
          [\A c \in Clients, e \in Events :
             Counted(c, e) /\ req'[c] # NoReq => RowsOf(e)' = RowsOf(e)]_vars
    BY <1>1
  <1>3. QED BY <1>2, InvHolds, PTL DEF Spec, TeamSeesEveryInsert

-----------------------------------------------------------------------------
(* Captains alone: requests that register teams, delete registrations, edit  *)
(* the status of events and lock their acknowledgements, which saves the     *)
(* capacity as it was loaded.                                               *)
CaptainOps == {"team", "delete", "status", "ackLock"}

(* What a team's check found stays true up to its COMMIT, and a registered  *)
(* person has an attendee row, so a team never seats one it took for new.   *)
CheckHolds(c) ==
  req[c] # NoReq =>
    /\ req[c].op \in CaptainOps
    /\ req[c].op \in {"team", "ackLock"} => req[c].seats = capacity[req[c].event]
    /\ req[c].op = "team" =>
         /\ req[c].pc \in {"find", "once", "save"} =>
              Fits(req[c].event, Cardinality(req[c].who), capacity[req[c].event])
         /\ req[c].pc = "save" => req[c].ask = {}
         /\ req[c].pc \in {"once", "save"} =>
              \A p \in req[c].found \ req[c].ask : Seats(p, req[c].event) = {}
RegisteredAreAttendees == \A r \in Rows : reg[r].who \in attendees
CaptainInv ==
  /\ Inv
  /\ \A c \in Clients : CheckHolds(c)
  /\ RegisteredAreAttendees
  /\ NobodyTwice
  /\ NeverOversold

LEMMA LiveFinite ==
  ASSUME NEW e \in Events
  PROVE  /\ Live(e) \subseteq Regs /\ IsFiniteSet(Live(e))
         /\ Cardinality(Live(e)) \in Nat
  <1>1. Live(e) \subseteq Regs
    BY DEF Live, Rows
  <1>2. IsFiniteSet(Live(e))
    BY <1>1, SeatsAssumption, FS_Subset
  <1>3. QED BY <1>1, <1>2, FS_CardinalityType

LEMMA CaptainInit ==
  ASSUME Init PROVE CaptainInv
  <1>1. Inv
    BY InitInv
  <1>2. Rows = {}
    BY DEF Init, Rows
  <1>3. NobodyTwice /\ RegisteredAreAttendees
    BY <1>2 DEF NobodyTwice, RegisteredAreAttendees, Seats, Live
  <1>4. ASSUME NEW e \in Events PROVE Cardinality(Live(e)) <= capacity[e]
    <2>1. Live(e) = {}
      BY <1>2 DEF Live
    <2>2. QED BY <2>1, <1>1, FS_EmptySet DEF Inv, TypeOK
  <1>5. QED
    BY <1>1, <1>3, <1>4 DEF CaptainInv, NeverOversold, CheckHolds, Init

(* Fewer live registrations: everything found before still holds. *)
LEMMA Shrinking ==
  ASSUME CaptainInv, Inv', UNCHANGED <<attendees, capacity>>,
         \A e \in Events : Live(e)' \subseteq Live(e),
         \A r \in Rows' : r \in Rows /\ reg'[r].who = reg[r].who,
         NEW c \in Clients,
         \A d \in Clients \ {c} : req'[d] = req[d],
         CheckHolds(c)'
  PROVE  CaptainInv'
  <1>1. ASSUME NEW e \in Events
        PROVE  Cardinality(Live(e))' <= Cardinality(Live(e))
    BY LiveFinite, FS_Subset
  <1>2. ASSUME NEW e \in Events, NEW p \in People
        PROVE  Seats(p, e)' \subseteq Seats(p, e)
    BY DEF Seats, Live
  <1>3. RegisteredAreAttendees' /\ NobodyTwice'
    BY <1>2 DEF CaptainInv, RegisteredAreAttendees, NobodyTwice
  <1>4. NeverOversold'
    <2>1. ASSUME NEW e \in Events PROVE Cardinality(Live(e))' <= capacity'[e]
      <3>1. /\ Cardinality(Live(e)) \in Nat /\ capacity[e] \in Nat
            /\ Cardinality(Live(e)) <= capacity[e]
        BY LiveFinite DEF CaptainInv, NeverOversold, Inv, TypeOK
      <3>2. Cardinality(Live(e)') \in Nat
        BY LiveFinite, SeatsAssumption, FS_Subset, FS_CardinalityType
      <3>3. QED BY <1>1, <3>1, <3>2
    <2>2. QED BY <2>1 DEF NeverOversold
  <1>5. ASSUME NEW d \in Clients PROVE CheckHolds(d)'
    <2>1. CASE d # c
      <3>1. req'[d] = req[d] /\ CheckHolds(d)
        BY <2>1 DEF CaptainInv
      <3>2. CASE req[d] # NoReq
        <4>1. req[d] \in ActiveRequest
          BY <3>2 DEF CaptainInv, Inv, TypeOK
        <4>2. req[d].event \in Events /\ req[d].found \subseteq People
                /\ IsFiniteSet(req[d].who)
          BY <4>1, SeatsAssumption, FS_Subset DEF ActiveRequest
        <4>3. Cardinality(req[d].who) \in Nat /\ capacity[req[d].event] \in Nat
          BY <4>2, FS_CardinalityType DEF CaptainInv, Inv, TypeOK
        <4>4. PICK e \in Events : e = req[d].event /\ e = req'[d].event
          BY <3>1, <4>2
        <4>5. Cardinality(Live(e)) \in Nat /\ Cardinality(Live(e)') \in Nat
          BY LiveFinite, SeatsAssumption, FS_Subset, FS_CardinalityType
        <4>6. Cardinality(Live(e)') <= Cardinality(Live(e))
          BY <1>1
        <4>7. \A p \in req[d].found : Seats(p, e)' \subseteq Seats(p, e)
          BY <4>2, <1>2
        <4>8. QED
          BY <3>1, <3>2, <4>3, <4>4, <4>5, <4>6, <4>7 DEF CheckHolds, Fits
      <3>3. QED BY <3>1, <3>2 DEF CheckHolds
    <2>2. QED BY <2>1
  <1>6. QED BY <1>3, <1>4, <1>5 DEF CaptainInv

(* A step that writes no table. *)
LEMMA QuietCaptain ==
  ASSUME CaptainInv, Inv', UNCHANGED <<reg, attendees, capacity>>,
         NEW c \in Clients, \A d \in Clients \ {c} : req'[d] = req[d],
         CheckHolds(c)'
  PROVE  CaptainInv'
  BY Shrinking DEF Live, Rows

LEMMA DoneCaptain ==
  ASSUME CaptainInv, NEW c \in Clients, Done(c)
  PROVE  CheckHolds(c)' /\ \A d \in Clients \ {c} : req'[d] = req[d]
  BY DEF CaptainInv, Inv, TypeOK, Done, CheckHolds

(* What an INSERT or a COMMIT adds: one registration for each of P, of that  *)
(* event, and nothing else changes.                                          *)
LEMMA InsertAdds ==
  ASSUME NEW P \in SUBSET People, NEW f \in Events, NEW via \in Excs \cup {Form},
         InsertRegistrations(P, f, via)
  PROVE  /\ \A e \in Events \ {f} : Live(e)' = Live(e)
         /\ \A r \in Rows : reg'[r] = reg[r] /\ r \in Rows'
         /\ \A r \in Rows' \ Rows : /\ reg'[r].who \in P /\ reg'[r].event = f
                                    /\ reg'[r].via = via
         /\ \A r, s \in Rows' \ Rows : reg'[r].who = reg'[s].who => r = s
         /\ \A p \in P : \E r \in Live(f)' \ Rows : reg'[r].who = p
         /\ Cardinality(Live(f)') = Cardinality(Live(f)) + Cardinality(P)
  <1>1. PICK id \in [P -> Regs \ Rows] :
          /\ \A p, q \in P : id[p] = id[q] => p = q
          /\ reg' = [r \in Regs |->
                IF \E p \in P : id[p] = r
                THEN [who |-> CHOOSE p \in P : id[p] = r, event |-> f, via |-> via,
                      deleted |-> FALSE]
                ELSE reg[r]]
    BY DEF InsertRegistrations
  <1> DEFINE New == {id[p] : p \in P}
  <1>2. ASSUME NEW r \in Regs \ New PROVE reg'[r] = reg[r]
    BY <1>1, <1>2
  <1>3. ASSUME NEW p \in P
        PROVE  /\ id[p] \in Regs \ Rows /\ id[p] \in Rows'
               /\ reg'[id[p]] = [who |-> p, event |-> f, via |-> via, deleted |-> FALSE]
    <2>1. id[p] \in Regs \ Rows
      BY <1>1
    <2>2. (CHOOSE q \in P : id[q] = id[p]) = p
      BY <1>1
    <2>3. reg'[id[p]] = [who |-> CHOOSE q \in P : id[q] = id[p], event |-> f,
                         via |-> via, deleted |-> FALSE]
      BY <1>1, <2>1
    <2>4. [who |-> p, event |-> f, via |-> via, deleted |-> FALSE] \in Registration
      BY DEF Registration
    <2>5. NoRow \notin Registration
      BY DEF NoRow, Registration
    <2>6. reg'[id[p]] # NoRow
      BY <2>2, <2>3, <2>4, <2>5
    <2>7. QED BY <2>1, <2>2, <2>3, <2>6 DEF Rows
  <1>4. \A r \in Rows : r \notin New
    BY <1>1
  <1>5. \A r \in Rows : reg'[r] = reg[r] /\ r \in Rows'
    BY <1>2, <1>4 DEF Rows
  <1>6. ASSUME NEW r \in Rows' \ Rows
        PROVE  \E p \in P : /\ r = id[p] /\ reg'[r].who = p /\ reg'[r].event = f
                            /\ reg'[r].via = via /\ reg'[r].deleted = FALSE
    <2>1. r \in New
      BY <1>2 DEF Rows
    <2>2. PICK p \in P : r = id[p]
      BY <2>1
    <2>3. reg'[r] = [who |-> p, event |-> f, via |-> via, deleted |-> FALSE]
      BY <1>3, <2>2
    <2>4. QED BY <2>2, <2>3
  <1>7. ASSUME NEW e \in Events \ {f} PROVE Live(e)' = Live(e)
    <2>1. ASSUME NEW r \in Regs PROVE r \in Live(e)' <=> r \in Live(e)
      BY <1>5, <1>6 DEF Live, Rows
    <2>2. QED BY <2>1 DEF Live, Rows
  <1>8. ASSUME NEW p \in P PROVE id[p] \in Live(f)' \ Rows /\ reg'[id[p]].who = p
    <2>1. id[p] \in Rows' \ Rows
      BY <1>3
    <2>2. reg'[id[p]] = [who |-> p, event |-> f, via |-> via, deleted |-> FALSE]
      BY <1>3
    <2>3. reg'[id[p]].who = p /\ reg'[id[p]].event = f /\ reg'[id[p]].deleted = FALSE
      BY <2>2
    <2>4. QED BY <2>1, <2>3 DEF Live
  <1>9. Live(f)' = Live(f) \cup New
    <2>1. ASSUME NEW r \in Live(f)' PROVE r \in Live(f) \cup New
      <3>1. r \in Rows'
        BY DEF Live
      <3>2. CASE r \in Rows
        BY <1>5, <3>2 DEF Live
      <3>3. CASE r \notin Rows
        <4>1. PICK p \in P : r = id[p]
          BY <1>6, <3>1, <3>3
        <4>2. QED BY <4>1
      <3>4. QED BY <3>2, <3>3
    <2>2. ASSUME NEW r \in Live(f) PROVE r \in Live(f)'
      BY <1>5 DEF Live
    <2>3. \A r \in New : r \in Live(f)'
      BY <1>8
    <2> HIDE DEF New
    <2>4. QED BY <2>1, <2>2, <2>3
  <1>10. Cardinality(Live(f)') = Cardinality(Live(f)) + Cardinality(P)
    <2>1. IsFiniteSet(P)
      BY SeatsAssumption, FS_Subset
    <2>2. id \in Bijection(P, New)
      <3>1. id \in [P -> New]
        BY <1>1
      <3>2. \A t \in New : \E p \in P : id[p] = t
        OBVIOUS
      <3>3. id \in Surjection(P, New)
        BY <3>1, <3>2 DEF Surjection
      <3>4. id \in Injection(P, New)
        BY <1>1, <3>1 DEF Injection, IsInjective
      <3>5. QED BY <3>3, <3>4 DEF Bijection
    <2>3. IsFiniteSet(New) /\ Cardinality(New) = Cardinality(P)
      BY <2>1, <2>2, FS_Bijection DEF ExistsBijection
    <2>4. IsFiniteSet(Live(f)) /\ Cardinality(Live(f)) \in Nat /\ Live(f) \cap New = {}
      BY <1>4, LiveFinite DEF Live
    <2> HIDE DEF New
    <2>5. Cardinality(Live(f) \cup New)
            = Cardinality(Live(f)) + Cardinality(New) - Cardinality(Live(f) \cap New)
      BY <2>3, <2>4, FS_Union
    <2>6. Cardinality(P) \in Nat
      BY <2>1, FS_CardinalityType
    <2>7. Cardinality(Live(f) \cap New) = 0
      BY <2>4, FS_EmptySet
    <2>8. QED BY <1>9, <2>3, <2>4, <2>5, <2>6, <2>7
  <1>11. \A p \in P : \E r \in Live(f)' \ Rows : reg'[r].who = p
    BY <1>8
  <1>12. ASSUME NEW r \in Rows' \ Rows, NEW s \in Rows' \ Rows, reg'[r].who = reg'[s].who
         PROVE  r = s
    <2>1. PICK p \in P : r = id[p] /\ reg'[r].who = p
      BY <1>6
    <2>2. PICK q \in P : s = id[q] /\ reg'[s].who = q
      BY <1>6
    <2>3. QED BY <1>12, <2>1, <2>2
  <1>13. \A r \in Rows' \ Rows : reg'[r].who \in P /\ reg'[r].event = f /\ reg'[r].via = via
    BY <1>6
  <1> HIDE DEF New
  <1>14. QED BY <1>5, <1>7, <1>10, <1>11, <1>12, <1>13

(* A team's COMMIT.  Its lock kept every other team out since the count, so  *)
(* there is room, and none of its members is registered for the event.      *)
LEMMA CommitCaptain ==
  ASSUME CaptainInv, Inv', NEW c \in Clients, CommitTeam(c)
  PROVE  CaptainInv'
  <1>1. /\ req[c] \in ActiveRequest /\ req[c] # NoReq
        /\ RequestOK(c) /\ CheckHolds(c)
    BY Active DEF CommitTeam, CaptainInv, Inv
  <1>2. CheckHolds(c)' /\ \A d \in Clients \ {c} : req'[d] = req[d]
    BY DoneCaptain DEF CommitTeam
  <1>3. CASE EmailTaken(c)
    BY <1>2, <1>3, QuietCaptain DEF CommitTeam
  <1>4. CASE ~EmailTaken(c)
    <2>1. PICK f \in Events, P \in SUBSET People : f = req[c].event /\ P = req[c].who
      BY <1>1 DEF ActiveRequest
    <2>2. /\ InsertRegistrations(P, f, Form) /\ attendees' = attendees \cup P
          /\ capacity' = capacity
      BY <1>4, <2>1 DEF CommitTeam
    <2>3. lock[f] = {c}
      BY <1>1, <2>1 DEF CommitTeam, RequestOK, Holding
    <2>4. \A p \in P : Seats(p, f) = {}
      <3>1. ASSUME NEW p \in P, p \notin req[c].found PROVE Seats(p, f) = {}
        <4>1. p \notin attendees
          BY <1>4, <2>1, <3>1 DEF EmailTaken, NewPeople
        <4>2. QED BY <4>1 DEF CaptainInv, RegisteredAreAttendees, Seats, Live
      <3>2. QED BY <1>1, <2>1, <3>1 DEF CommitTeam, CheckHolds
    <2>5. Fits(f, Cardinality(P), capacity[f])
      BY <1>1, <2>1 DEF CommitTeam, CheckHolds
    <2>6. RegisteredAreAttendees'
      BY <2>2, InsertAdds DEF CaptainInv, RegisteredAreAttendees
    <2>7. NobodyTwice'
      <3>1. ASSUME NEW e \in Events, NEW p \in People,
                   NEW r \in Seats(p, e)', NEW s \in Seats(p, e)'
            PROVE  r = s
        <4>1. r \in Rows' /\ s \in Rows' /\ reg'[r].who = p /\ reg'[s].who = p
                /\ reg'[r].event = e /\ reg'[s].event = e
          BY DEF Seats, Live
        <4>2. \A t \in Rows \cap Seats(p, e)' : t \in Seats(p, e)
          BY <2>2, InsertAdds DEF Seats, Live
        <4>3. CASE r \in Rows /\ s \in Rows
          BY <4>2, <4>3 DEF CaptainInv, NobodyTwice
        <4>4. CASE r \notin Rows /\ s \notin Rows
          BY <2>2, <4>1, <4>4, InsertAdds
        <4>5. \A t \in Rows' \ Rows : reg'[t].who = p /\ reg'[t].event = e => Seats(p, e) = {}
          BY <2>2, <2>4, InsertAdds
        <4>6. QED BY <4>1, <4>2, <4>3, <4>4, <4>5
      <3>2. QED BY <3>1 DEF NobodyTwice
    <2>8. NeverOversold'
      <3>1. ASSUME NEW e \in Events PROVE Cardinality(Live(e)') <= capacity'[e]
        <4>1. CASE e # f
          BY <2>2, <4>1, InsertAdds DEF CaptainInv, NeverOversold
        <4>2. CASE e = f
          <5>1. Cardinality(Live(f)') = Cardinality(Live(f)) + Cardinality(P)
            BY <2>2, InsertAdds
          <5>2. Cardinality(Live(f)) + Cardinality(P) <= capacity[f]
            BY <2>5 DEF Fits
          <5>3. /\ Cardinality(Live(f)) \in Nat /\ Cardinality(P) \in Nat
                /\ capacity[f] \in Nat /\ Cardinality(Live(f)') \in Nat
            <6>1. IsFiniteSet(P) /\ IsFiniteSet(Live(f)')
              BY SeatsAssumption, FS_Subset DEF Live, Rows
            <6>2. QED
              BY <6>1, LiveFinite, FS_CardinalityType DEF CaptainInv, Inv, TypeOK
          <5>4. QED BY <2>2, <4>2, <5>1, <5>2, <5>3
        <4>3. QED BY <4>1, <4>2
      <3>2. QED BY <3>1 DEF NeverOversold
    <2>9. ASSUME NEW d \in Clients PROVE CheckHolds(d)'
      <3>1. CASE d = c
        BY <1>2, <3>1
      <3>2. CASE d # c /\ req[d] # NoReq
        <4>1. req'[d] = req[d] /\ CheckHolds(d) /\ RequestOK(d)
          BY <1>2, <3>2 DEF CaptainInv, Inv
        <4>2. PICK e \in Events : e = req[d].event /\ e = req'[d].event
          BY <3>2, <4>1 DEF CaptainInv, Inv, TypeOK, ActiveRequest
        <4>3. ASSUME req[d].op = "team", req[d].pc \in {"find", "once", "save"}
              PROVE  e # f
          <5>1. req[d].pc \in Holding
            BY <4>3 DEF Holding
          <5>2. lock[e] = {d}
            BY <3>2, <4>1, <4>2, <4>3, <5>1 DEF RequestOK
          <5>3. QED BY <2>3, <3>2, <5>2
        <4>4. e # f => Live(e)' = Live(e) /\ \A p : Seats(p, e)' = Seats(p, e)
          <5>1. \A r \in Live(e) : reg'[r] = reg[r]
            BY <2>2, InsertAdds DEF Live
          <5>2. e # f => Live(e)' = Live(e)
            BY <2>2, InsertAdds
          <5>3. QED BY <5>1, <5>2 DEF Seats
        <4>5. QED BY <2>2, <4>1, <4>2, <4>3, <4>4 DEF CheckHolds, Fits
      <3>3. CASE d # c /\ req[d] = NoReq
        BY <1>2, <3>3 DEF CheckHolds
      <3>4. QED BY <3>1, <3>2, <3>3
    <2>10. QED BY <2>6, <2>7, <2>8, <2>9 DEF CaptainInv
  <1>5. QED BY <1>3, <1>4

(* A team on its way to the COMMIT. *)
LEMMA TeamCaptain ==
  ASSUME CaptainInv, Inv', NEW c \in Clients,
         \/ LockEvent(c) \/ CountSeats(c) \/ FindAttendees(c)
         \/ \E p \in People : CheckOnce(c, p)
  PROVE  CaptainInv'
  <1>1. /\ req[c] \in ActiveRequest /\ req[c] # NoReq
        /\ RequestOK(c) /\ CheckHolds(c)
    BY Active DEF LockEvent, CountSeats, FindAttendees, CheckOnce, CaptainInv, Inv
  <1>2. UNCHANGED <<reg, attendees, capacity>>
    BY DEF LockEvent, CountSeats, FindAttendees, CheckOnce, tables
  <1>3. CASE Done(c)
    BY <1>2, <1>3, DoneCaptain, QuietCaptain
  <1>4. CASE ~Done(c)
    <2>1. PICK f \in Events, P \in SUBSET People : f = req[c].event /\ P = req[c].who
      BY <1>1 DEF ActiveRequest
    <2>2. \A d \in Clients \ {c} : req'[d] = req[d]
      BY <1>4 DEF LockEvent, CountSeats, FindAttendees, CheckOnce, Goto, CaptainInv, Inv, TypeOK
    <2>3. req[c].op = "team"
      BY <1>1 DEF LockEvent, CountSeats, FindAttendees, CheckOnce, RequestOK, Phases,
                  CheckHolds, CaptainOps, ActiveRequest
    <2>4. Live(f)' = Live(f) /\ \A p : Seats(p, f)' = Seats(p, f)
      BY <1>2 DEF Live, Rows, Seats
    <2>5. CheckHolds(c)'
      <3>1. CASE LockEvent(c)
        <4>1. req'[c] = [req[c] EXCEPT !.pc = "count"]
          BY <3>1 DEF LockEvent, Goto, CaptainInv, Inv, TypeOK
        <4>2. QED BY <1>1, <1>2, <2>3, <4>1 DEF CheckHolds, ActiveRequest
      <3>2. CASE CountSeats(c)
        <4>1. req'[c] = [req[c] EXCEPT !.pc = "find"]
                /\ Fits(f, Cardinality(P), req[c].seats)
          BY <1>4, <2>1, <2>3, <3>2 DEF CountSeats, Goto, CaptainInv, Inv, TypeOK
        <4>2. req[c].seats = capacity[f]
          BY <1>1, <2>1, <2>3 DEF CheckHolds
        <4>3. req'[c].event = f /\ req'[c].who = P /\ req'[c].op = "team"
                /\ req'[c].seats = req[c].seats /\ req'[c].pc = "find"
          BY <1>1, <2>1, <2>3, <4>1 DEF ActiveRequest
        <4>4. QED
          BY <1>1, <1>2, <2>4, <4>1, <4>2, <4>3 DEF CheckHolds, Fits
      <3>3. CASE FindAttendees(c)
        <4> DEFINE known == req[c].who \cap attendees
        <4>1. req'[c] = [req[c] EXCEPT !.pc = Asking(known), !.found = known, !.ask = known]
          BY <3>3 DEF FindAttendees, CaptainInv, Inv, TypeOK
        <4>2. req'[c].event = f /\ req'[c].who = P /\ req'[c].op = "team"
                /\ req'[c].seats = req[c].seats /\ req'[c].pc = Asking(known)
                /\ req'[c].found = known /\ req'[c].ask = known
          BY <1>1, <2>1, <2>3, <4>1 DEF ActiveRequest
        <4>3. req[c].pc = "find"
          BY <3>3 DEF FindAttendees
        <4>4. QED
          BY <1>1, <1>2, <2>1, <2>3, <2>4, <4>2, <4>3 DEF CheckHolds, Fits, Asking
      <3>4. ASSUME NEW p \in People, CheckOnce(c, p) PROVE CheckHolds(c)'
        <4> DEFINE rest == req[c].ask \ {p}
        <4>1. /\ req'[c] = [req[c] EXCEPT !.pc = Asking(rest), !.ask = rest]
              /\ ~Blocked(p, f)
          BY <1>4, <2>1, <3>4 DEF CheckOnce, CaptainInv, Inv, TypeOK
        <4>2. req'[c].event = f /\ req'[c].who = P /\ req'[c].op = "team"
                /\ req'[c].seats = req[c].seats /\ req'[c].pc = Asking(rest)
                /\ req'[c].found = req[c].found /\ req'[c].ask = rest
          BY <1>1, <2>1, <2>3, <4>1 DEF ActiveRequest
        <4>3. req[c].pc = "once" /\ Seats(p, f) = {}
          BY <3>4, <4>1 DEF CheckOnce, Blocked
        <4>4. QED
          BY <1>1, <1>2, <2>1, <2>3, <2>4, <4>2, <4>3 DEF CheckHolds, Fits, Asking
      <3>5. QED BY <3>1, <3>2, <3>3, <3>4
    <2>6. QED BY <1>2, <2>2, <2>5, QuietCaptain
  <1>5. QED BY <1>3, <1>4

(* No captain edits a capacity, so the one written back is the one stored.   *)
LEMMA SaveEventKeeps ==
  ASSUME CaptainInv, NEW c \in Clients, SaveEvent(c)
  PROVE  capacity' = capacity
  <1>1. req[c] \in ActiveRequest /\ req[c].pc \in Phases(req[c].op) /\ CheckHolds(c)
    BY Active DEF SaveEvent, CaptainInv, Inv, RequestOK
  <1>2. req[c].op = "ackLock" /\ req[c] # NoReq
    BY <1>1, Active DEF SaveEvent, Phases, CaptainInv, Inv, CheckHolds, CaptainOps,
                        ActiveRequest, AllOps
  <1>3. req[c].seats = capacity[req[c].event]
    BY <1>1, <1>2 DEF CheckHolds
  <1>4. capacity = [capacity EXCEPT ![req[c].event] = req[c].seats]
    BY <1>3 DEF CaptainInv, Inv, TypeOK
  <1>5. QED BY <1>4 DEF SaveEvent

LEMMA CaptainStep ==
  ASSUME Ops \subseteq CaptainOps, CaptainInv, [Next]_vars
  PROVE  CaptainInv'
  <1> USE DEF tables
  <1>1. Inv'
    BY NextInv DEF CaptainInv
  <1>2. ASSUME NEW c \in Clients, NEW op, NEW pc, NEW P, NEW e \in Events, NEW row,
               Start(c, op, pc, P, e, row), UNCHANGED <<tables, lock>>,
               op = "team" => pc = "lock"
        PROVE  CaptainInv'
    <2>1. op \in CaptainOps
      BY <1>2 DEF Start
    <2>2. /\ req'[c] = [pc |-> pc, op |-> op, who |-> P, event |-> e,
                        seats |-> SeatsAt(op, e), found |-> {}, ask |-> {}, row |-> row]
          /\ \A d \in Clients \ {c} : req'[d] = req[d]
      BY <1>2 DEF Start, CaptainInv, Inv, TypeOK
    <2>3. CheckHolds(c)'
      BY <1>2, <2>1, <2>2 DEF CheckHolds, SeatsAt
    <2>4. QED BY <1>1, <1>2, <2>2, <2>3, QuietCaptain
  <1>3. ASSUME NEW c \in Clients, RegisterStep(c) PROVE CaptainInv'
    <2>1. ASSUME NEW P \in SUBSET People, NEW e \in Events, StartTeam(c, P, e)
          PROVE  CaptainInv'
      BY <1>2, <2>1 DEF StartTeam
    <2>2. ASSUME NEW p \in People, NEW e \in Events, StartRegister(c, p, e)
          PROVE  CaptainInv'
      BY <2>2 DEF StartRegister, Start, CaptainOps
    <2>3. ~SaveAttendee(c) /\ ~InsertSolo(c)
      <3>1. req[c].pc # "idle" =>
              req[c] \in ActiveRequest /\ req[c].pc \in Phases(req[c].op)
                /\ req[c].op \in CaptainOps
        BY Active DEF CaptainInv, Inv, RequestOK, CheckHolds, CaptainOps
      <3>2. QED BY <3>1 DEF SaveAttendee, InsertSolo, Phases, CaptainOps
    <2>4. QED
      BY <1>1, <1>3, <2>1, <2>2, <2>3, TeamCaptain, CommitCaptain DEF RegisterStep
  <1>4. ASSUME NEW c \in Clients, DeletionStep(c) PROVE CaptainInv'
    <2>1. ASSUME NEW r \in Regs, StartDelete(c, r) PROVE CaptainInv'
      <3>1. reg[r].event \in Events
        BY <2>1 DEF StartDelete, Rows, CaptainInv, Inv, TypeOK, Registration
      <3>2. QED BY <1>2, <2>1, <3>1 DEF StartDelete
    <2>2. ASSUME NEW r \in Regs, StartRestore(c, r) PROVE CaptainInv'
      BY <2>2 DEF StartRestore, Start, CaptainOps
    <2>3. ~ReadEvent(c) /\ ~SaveRestored(c)
      <3>1. req[c].pc # "idle" =>
              req[c] \in ActiveRequest /\ req[c].pc \in Phases(req[c].op)
                /\ req[c].op \in CaptainOps
        BY Active DEF CaptainInv, Inv, RequestOK, CheckHolds, CaptainOps
      <3>2. QED BY <3>1 DEF ReadEvent, SaveRestored, Phases, CaptainOps
    <2>4. ASSUME SaveDeleted(c) PROVE CaptainInv'
      <3>1. /\ req[c] \in ActiveRequest /\ req[c] # NoReq /\ RequestOK(c)
        BY <2>4, Active DEF SaveDeleted, CaptainInv, Inv
      <3>2. req[c].op = "delete"
        BY <2>4, <3>1 DEF SaveDeleted, RequestOK, Phases, ActiveRequest, AllOps
      <3>3. PICK r \in Regs : r = req[c].row /\ reg[r] \in Registration
        BY <3>1, <3>2 DEF RequestOK
      <3>4. reg' = [reg EXCEPT ![r] = [reg[r] EXCEPT !.deleted = TRUE]]
        BY <2>4, <3>3 DEF SaveDeleted, CaptainInv, Inv, TypeOK
      <3>5. reg'[r].deleted /\ reg'[r].who = reg[r].who /\ reg[r] # NoRow
        BY <3>3, <3>4 DEF Registration, NoRow, CaptainInv, Inv, TypeOK
      <3>6. \A s \in Regs \ {r} : reg'[s] = reg[s]
        BY <3>4 DEF CaptainInv, Inv, TypeOK
      <3>7. \A e \in Events : Live(e)' \subseteq Live(e)
        BY <3>5, <3>6 DEF Live, Rows
      <3>8. \A s \in Rows' : s \in Rows /\ reg'[s].who = reg[s].who
        BY <3>5, <3>6 DEF Rows
      <3>9. UNCHANGED <<attendees, capacity>> /\ CheckHolds(c)'
              /\ \A d \in Clients \ {c} : req'[d] = req[d]
        BY <2>4, DoneCaptain DEF SaveDeleted
      <3>10. QED BY <1>1, <3>7, <3>8, <3>9, Shrinking
    <2>5. QED BY <1>4, <2>1, <2>2, <2>3, <2>4 DEF DeletionStep
  <1>5. ASSUME NEW c \in Clients PROVE ~ExceptionStep(c) /\ (EventStep(c) => CaptainInv')
    <2>1. req[c].pc # "idle" =>
            req[c] \in ActiveRequest /\ req[c].pc \in Phases(req[c].op)
              /\ req[c].op \in CaptainOps
      BY Active DEF CaptainInv, Inv, RequestOK, CheckHolds, CaptainOps
    <2>2. ~InsertException(c) /\ ~SaveDecision(c) /\ ~InsertApproved(c)
      BY <2>1 DEF InsertException, SaveDecision, InsertApproved, Phases, CaptainOps
    <2>3. ~ExceptionStep(c)
      BY <2>2 DEF ExceptionStep, StartSubmit, StartDecision, Start, CaptainOps
    <2>4. Settable = {}
      BY DEF Settable, CaptainOps
    <2>5. ASSUME NEW e \in Events, StartAckLock(c, e) PROVE CaptainInv'
      BY <1>2, <2>5 DEF StartAckLock
    <2>6. ASSUME SaveEvent(c) PROVE CaptainInv'
      <3>1. capacity' = capacity
        BY <2>6, SaveEventKeeps
      <3>2. QED BY <1>1, <2>6, <3>1, DoneCaptain, QuietCaptain DEF SaveEvent
    <2>7. QED BY <2>3, <2>4, <2>5, <2>6 DEF EventStep
  <1>6. ASSUME NEW c \in Clients, Abort(c) PROVE CaptainInv'
    BY <1>1, <1>6, DoneCaptain, QuietCaptain DEF Abort
  <1>7. ASSUME UNCHANGED <<reg, attendees, capacity, req>> PROVE CaptainInv'
    <2>1. Rows' = Rows
      BY <1>7 DEF Rows
    <2>2. \A e : Live(e)' = Live(e) /\ \A p : Seats(p, e)' = Seats(p, e)
      BY <1>7, <2>1 DEF Live, Seats
    <2>3. RegisteredAreAttendees' /\ NobodyTwice' /\ NeverOversold'
      BY <1>7, <2>1, <2>2 DEF CaptainInv, RegisteredAreAttendees, NobodyTwice, NeverOversold
    <2>4. \A c \in Clients : CheckHolds(c)'
      BY <1>7, <2>2 DEF CaptainInv, CheckHolds, Fits
    <2>5. QED BY <1>1, <2>3, <2>4 DEF CaptainInv
  <1>8. (\E e \in Events : SetStatus(e)) \/ UNCHANGED vars => CaptainInv'
    BY <1>7 DEF SetStatus, vars
  <1>9. QED BY <1>3, <1>4, <1>5, <1>6, <1>7, <1>8 DEF Next

(* Captains never oversell an event and never register anybody twice for it: *)
(* registerTeam() is right when only captains register.                     *)
THEOREM CaptainsCorrect ==
  ASSUME Ops \subseteq CaptainOps
  PROVE  Spec => [](NobodyTwice /\ NeverOversold)
  <1>1. Init => CaptainInv
    BY CaptainInit
  <1>2. CaptainInv /\ [Next]_vars => CaptainInv'
    BY CaptainStep
  <1>3. CaptainInv => NobodyTwice /\ NeverOversold
    BY DEF CaptainInv
  <1>4. QED BY <1>1, <1>2, <1>3, PTL DEF Spec
=============================================================================
