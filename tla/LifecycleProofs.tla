--------------------------- MODULE LifecycleProofs ---------------------------
(* Proofs about RegistrationLifecycle, for any registrations, any number of *)
(* requests in flight and any mix of operations.                            *)
EXTENDS RegistrationLifecycle, TLAPS

(* The phases in which a handler still has a registration to store. *)
Holding == {"save", "write", "update"}

(* What an operation may make of the row it loaded: a status the rules      *)
(* allow; and an expiry that stays, and that nobody confirmed gets.         *)
ByTheRules(op, old, new) ==
  /\ new.status # old.status =>
       \/ op \in {"status", "expire"} /\ MayBecome(old, new.status)
       \/ op = "scan" /\ new.status = "attended"
  /\ old.expired => new.expired
  /\ new.expired /\ new.acknowledged => old.expired /\ old.acknowledged

(* A request that holds a registration is about one, and what it is going   *)
(* to make of the row follows the rules, or it checks in somebody who may,  *)
(* unless another request has changed the row since.                        *)
HeldOK(q, rows) ==
  q.pc \in Holding =>
    /\ \E r \in Regs : q.id = {r}
    /\ q.pc = "update" => q.op = "self"
    /\ ~q.stale => \A r \in q.id :
         /\ q.pc = "update" => MaySelfCheckin(rows[r])
         /\ q.pc = "save" => ByTheRules(q.op, rows[r], q.ent)
         /\ q.pc = "write" =>
              ByTheRules(q.op, rows[r], UpdateColumns(rows[r], q.ent, q.cols))

Inv == TypeOK /\ \A h \in Handlers : HeldOK(req[h], row)

-----------------------------------------------------------------------------
LEMMA NewRows == NewReg \in RegRow /\ OpenEvent \in EventRow
  BY DEF NewReg, RegRow, RegStatuses, OpenEvent, EventRow

LEMMA IdleType == NoReq.pc = "idle" /\ "idle" \notin Holding
  BY DEF NoReq, Holding

LEMMA ActiveType ==
  ASSUME TypeOK, NEW h \in Handlers, req[h].pc # "idle"
  PROVE  req[h] \in ActiveRequest
  BY DEF TypeOK, NoReq

(* What repository.save writes is a row again. *)
LEMMA UpdatedRow ==
  ASSUME NEW old \in RegRow, NEW ent \in RegRow, NEW cols
  PROVE  UpdateColumns(old, ent, cols) \in RegRow
  BY DEF UpdateColumns, RegRow

LEMMA UpdatedEvent ==
  ASSUME NEW old \in EventRow, NEW ent \in EventRow, NEW cols
  PROVE  UpdateColumns(old, ent, cols) \in EventRow
  BY DEF UpdateColumns, EventRow

(* The columns that differ are all an UPDATE needs to turn the row into the  *)
(* entity that was edited.                                                   *)
LEMMA SavedAsEdited ==
  ASSUME NEW old \in RegRow, NEW ent \in RegRow,
         NEW cols, cols = ChangedColumns(ent, old)
  PROVE  UpdateColumns(old, UpdateColumns(NewReg, ent, cols), cols) = ent
  <1>1. DOMAIN old = DOMAIN ent /\ DOMAIN old = DOMAIN NewReg
    BY DEF RegRow, NewReg
  <1> DEFINE new == UpdateColumns(old, UpdateColumns(NewReg, ent, cols), cols)
  <1>2. ASSUME NEW f \in DOMAIN old PROVE new[f] = ent[f]
    BY <1>1, <1>2 DEF UpdateColumns, ChangedColumns
  <1>3. new \in RegRow
    BY NewRows, UpdatedRow
  <1>4. new = [f \in DOMAIN old |-> new[f]] /\ ent = [f \in DOMAIN old |-> ent[f]]
    BY <1>1, <1>3 DEF UpdateColumns, RegRow
  <1>5. QED BY <1>2, <1>4

LEMMA InitInv == Init => Inv
  <1> SUFFICES ASSUME Init PROVE Inv
    OBVIOUS
  <1>1. TypeOK
    BY LifecycleAssumption, NewRows DEF Init, TypeOK
  <1>2. QED BY <1>1, IdleType DEF Init, Inv, HeldOK

(* A handler takes another step of its own; the rows stay. *)
LEMMA MoveInv ==
  ASSUME Inv, NEW h \in Handlers, NEW new \in ActiveRequest \cup {NoReq},
         req' = [req EXCEPT ![h] = new], event' \in EventRow, UNCHANGED row,
         HeldOK(new, row)
  PROVE  Inv'
  <1>1. req'[h] = new /\ \A g \in Handlers \ {h} : req'[g] = req[g]
    BY DEF Inv, TypeOK
  <1>2. TypeOK'
    BY DEF Inv, TypeOK
  <1>3. \A g \in Handlers : HeldOK(req'[g], row)
    BY <1>1 DEF Inv
  <1>4. QED BY <1>2, <1>3 DEF Inv

LEMMA BeginInv ==
  ASSUME Inv, NEW h \in Handlers, NEW op \in RowOps \cup EventOps,
         NEW pc \in {"save", "update", "eventSave"}, NEW id \in SUBSET Regs,
         NEW ent \in RegRow, NEW ev \in EventRow, Begin(h, pc, op, id, ent, ev),
         pc = "update" => op = "self",
         pc # "eventSave" =>
           \E r \in Regs :
             /\ id = {r}
             /\ pc = "save" => ByTheRules(op, row[r], ent)
             /\ pc = "update" => MaySelfCheckin(row[r])
  PROVE  Inv'
  <1> DEFINE new == [pc |-> pc, op |-> op, id |-> id, ent |-> ent, ev |-> ev,
                     cols |-> {}, stale |-> FALSE]
  <1>1. new \in ActiveRequest
    BY DEF ActiveRequest
  <1>2. HeldOK(new, row)
    <2>1. /\ new.pc = pc /\ new.op = op /\ new.id = id /\ new.ent = ent
          /\ pc # "write"
      OBVIOUS
    <2> HIDE DEF new
    <2>2. CASE pc = "eventSave"
      BY <2>1, <2>2 DEF HeldOK, Holding
    <2>3. CASE pc # "eventSave"
      <3>1. PICK r \in Regs :
              /\ id = {r}
              /\ pc = "save" => ByTheRules(op, row[r], ent)
              /\ pc = "update" => MaySelfCheckin(row[r])
        BY <2>3
      <3>2. QED BY <2>1, <3>1 DEF HeldOK
    <2>4. QED BY <2>2, <2>3
  <1>3. req' = [req EXCEPT ![h] = new] /\ UNCHANGED <<row, event>>
    BY DEF Begin
  <1>4. QED BY <1>1, <1>2, <1>3, MoveInv DEF Inv, TypeOK

(* A request about registration r begins. *)
LEMMA LoadInv ==
  ASSUME Inv, NEW h \in Handlers, NEW r \in Regs, NEW op \in RowOps,
         NEW ent \in RegRow, LoadRow(h, op, r, ent), ByTheRules(op, row[r], ent)
  PROVE  Inv'
  <1>1. Begin(h, "save", op, {r}, ent, OpenEvent)
    BY DEF LoadRow
  <1>2. QED BY <1>1, NewRows, BeginInv

(* A handler stores rows: the requests that hold one of those are stale. *)
LEMMA StoreInv ==
  ASSUME Inv, NEW h \in Handlers, NEW newRow \in [Regs -> RegRow], Store(h, newRow)
  PROVE  Inv'
  <1> DEFINE changed == {r \in Regs : newRow[r] # row[r]}
  <1>1. row' = newRow /\ UNCHANGED event /\ Outdate(h, changed)
    BY DEF Store
  <1>2. ASSUME NEW g \in Handlers
        PROVE  req'[g] \in ActiveRequest \cup {NoReq} /\ HeldOK(req'[g], newRow)
    <2>0. req[g] \in ActiveRequest \cup {NoReq} /\ HeldOK(req[g], row)
      BY DEF Inv, TypeOK
    <2>1. CASE g = h
      BY <1>1, <2>1, IdleType DEF Outdate, HeldOK
    <2>2. CASE g # h /\ req[g].pc \in Holding /\ req[g].id \cap changed # {}
      <3>1. req'[g] = [req[g] EXCEPT !.stale = TRUE]
        BY <1>1, <2>2 DEF Outdate, Holding
      <3>2. req[g] \in ActiveRequest
        BY <2>0, <2>2, IdleType
      <3>3. /\ req'[g] \in ActiveRequest /\ req'[g].stale
            /\ req'[g].pc = req[g].pc /\ req'[g].op = req[g].op /\ req'[g].id = req[g].id
        BY <3>1, <3>2 DEF ActiveRequest
      <3>4. QED BY <2>0, <2>2, <3>3 DEF HeldOK
    <2>3. CASE g # h /\ ~(req[g].pc \in Holding /\ req[g].id \cap changed # {})
      <3>1. req'[g] = req[g]
        BY <1>1, <2>3 DEF Outdate, Holding
      <3>2. req[g].pc \in Holding => \A r \in req[g].id : newRow[r] = row[r]
        BY <2>0, <2>3 DEF HeldOK
      <3>3. QED BY <2>0, <3>1, <3>2 DEF HeldOK
    <2>4. QED BY <2>1, <2>2, <2>3
  <1>3. req' = [g \in Handlers |-> req'[g]]
    BY <1>1 DEF Outdate
  <1>4. TypeOK'
    BY <1>1, <1>2, <1>3 DEF Inv, TypeOK
  <1>5. QED BY <1>1, <1>2, <1>4 DEF Inv

-----------------------------------------------------------------------------
(* What each operation makes of a row. *)
LEMMA EditedRow ==
  ASSUME NEW old \in RegRow, NEW s \in RegStatuses, NEW b \in BOOLEAN
  PROVE  /\ WithStatus(old, s) \in RegRow
         /\ [old EXCEPT !.acknowledged = b] \in RegRow
         /\ [old EXCEPT !.expired = b] \in RegRow
         /\ [old EXCEPT !.expired = b, !.status = s] \in RegRow
         /\ [old EXCEPT !.status = s, !.checkedIn = b] \in RegRow
         /\ [old EXCEPT !.checkedIn = b] \in RegRow
         /\ [old EXCEPT !.deleted = b] \in RegRow
  BY DEF RegRow, WithStatus

LEMMA AdminStepInv ==
  ASSUME Inv, NEW h \in Handlers, NEW r \in Regs, AdminStep(h, r)
  PROVE  Inv'
  <1> DEFINE old == row[r]
  <1>0. old \in RegRow
    BY DEF Inv, TypeOK
  <1>1. CASE \E s \in Asked : SetStatus(h, r, s)
    <2> PICK s \in Asked : SetStatus(h, r, s)
      BY <1>1
    <2>1. MayBecome(old, s) /\ LoadRow(h, "status", r, WithStatus(old, s))
      BY DEF SetStatus
    <2>2. s # "shortlisted" => (WithStatus(old, s).acknowledged => old.acknowledged)
      BY <1>0 DEF WithStatus, RegRow
    <2>3. /\ WithStatus(old, s).status = s
          /\ WithStatus(old, s).expired = old.expired
          /\ WithStatus(old, s).acknowledged => old.acknowledged
      BY <1>0 DEF WithStatus, RegRow
    <2>4. ByTheRules("status", old, WithStatus(old, s))
      BY <2>1, <2>3 DEF ByTheRules
    <2>5. QED BY <1>0, <2>1, <2>4, EditedRow, LoadInv, LifecycleAssumption DEF RowOps
  <1>2. CASE \E alsoReject \in BOOLEAN : Expire(h, r, alsoReject)
    <2> PICK alsoReject \in BOOLEAN : Expire(h, r, alsoReject)
      BY <1>2
    <2> DEFINE s   == IF alsoReject /\ old.status = "shortlisted" THEN "rejected"
                      ELSE old.status
               new == [old EXCEPT !.expired = TRUE, !.status = s]
    <2>1. s \in RegStatuses
      BY <1>0 DEF RegRow, RegStatuses
    <2>2. ~old.acknowledged /\ LoadRow(h, "expire", r, new)
      BY DEF Expire
    <2>3. /\ new.status = s /\ new.expired /\ ~new.acknowledged
      BY <1>0, <2>2 DEF RegRow
    <2>4. s # old.status => MayBecome(old, s)
      BY DEF MayBecome, ValidTransitions
    <2>5. new \in RegRow
      BY <1>0, <2>1, EditedRow
    <2>6. ByTheRules("expire", old, new)
      BY <2>3, <2>4 DEF ByTheRules
    <2> HIDE DEF new
    <2>7. QED BY <2>2, <2>5, <2>6, LoadInv DEF RowOps
  <1>3. CASE Touch(h, r)
    <2>1. ByTheRules("touch", old, old)
      BY DEF ByTheRules
    <2>2. QED BY <1>0, <1>3, <2>1, LoadInv DEF Touch, RowOps
  <1>4. CASE Delete(h, r) \/ Restore(h, r)
    <2> PICK b \in BOOLEAN, op \in {"delete", "restore"} :
               LoadRow(h, op, r, [old EXCEPT !.deleted = b])
      BY <1>4 DEF Delete, Restore
    <2> DEFINE new == [old EXCEPT !.deleted = b]
    <2>1. new \in RegRow /\ ByTheRules(op, old, new)
      BY <1>0 DEF ByTheRules, RegRow
    <2> HIDE DEF new
    <2>2. QED BY <2>1, LoadInv DEF RowOps, new
  <1>5. QED BY <1>1, <1>2, <1>3, <1>4 DEF AdminStep

LEMMA CheckinStepInv ==
  ASSUME Inv, NEW h \in Handlers, NEW r \in Regs, CheckinStep(h, r)
  PROVE  Inv'
  <1> DEFINE old == row[r]
  <1>0. old \in RegRow
    BY DEF Inv, TypeOK
  <1>1. CASE Scan(h, r)
    <2> DEFINE new == [old EXCEPT !.status = "attended", !.checkedIn = TRUE]
    <2>1. new \in RegRow /\ ByTheRules("scan", old, new)
      BY <1>0 DEF ByTheRules, RegRow, RegStatuses
    <2>2. LoadRow(h, "scan", r, new)
      BY <1>1 DEF Scan
    <2> HIDE DEF new
    <2>3. QED BY <2>1, <2>2, LoadInv DEF RowOps
  <1>2. CASE ToggleCheckin(h, r) \/ Uncheck(h, r)
    <2>1. PICK b \in BOOLEAN : LoadRow(h, "toggle", r, [old EXCEPT !.checkedIn = b])
      BY <1>0, <1>2 DEF ToggleCheckin, Uncheck, RegRow
    <2> DEFINE new == [old EXCEPT !.checkedIn = b]
    <2>2. new \in RegRow /\ ByTheRules("toggle", old, new)
      BY <1>0 DEF ByTheRules, RegRow
    <2> HIDE DEF new
    <2>3. QED BY <2>1, <2>2, LoadInv DEF RowOps, new
  <1>3. QED BY <1>1, <1>2 DEF CheckinStep

LEMMA AttendeeStepInv ==
  ASSUME Inv, NEW h \in Handlers, NEW r \in Regs, AttendeeStep(h, r)
  PROVE  Inv'
  <1> DEFINE old == row[r]
  <1>0. old \in RegRow
    BY DEF Inv, TypeOK
  <1>1. CASE Acknowledge(h, r)
    <2> DEFINE new == [old EXCEPT !.acknowledged = TRUE]
    <2>1. ~old.expired /\ LoadRow(h, "ack", r, new)
      BY <1>1 DEF Acknowledge
    <2>2. new \in RegRow /\ ByTheRules("ack", old, new)
      BY <1>0, <2>1 DEF ByTheRules, RegRow
    <2> HIDE DEF new
    <2>3. QED BY <2>1, <2>2, LoadInv DEF RowOps
  <1>2. CASE SelfCheckin(h, r)
    <2>1. MaySelfCheckin(old) /\ Begin(h, "update", "self", {r}, NewReg, OpenEvent)
      BY <1>2 DEF SelfCheckin
    <2>2. QED BY <2>1, NewRows, BeginInv DEF RowOps
  <1>3. QED BY <1>1, <1>2 DEF AttendeeStep

(* The SELECT of repository.save: what is left to write makes the same of    *)
(* the row as the whole entity would.                                        *)
LEMMA SaveRowInv ==
  ASSUME Inv, NEW h \in Handlers, SaveRow(h)
  PROVE  Inv'
  <1>1. req[h] \in ActiveRequest /\ req[h].pc = "save" /\ HeldOK(req[h], row)
    BY ActiveType DEF SaveRow, Inv
  <1>2. PICK r \in Regs : req[h].id = {r}
    BY <1>1 DEF HeldOK, Holding
  <1> DEFINE cols == ChangedColumns(req[h].ent, row[r])
             ent  == UpdateColumns(NewReg, req[h].ent, cols)
             new  == [req[h] EXCEPT !.pc = "write", !.cols = cols, !.ent = ent]
  <1>3. row[r] \in RegRow /\ req[h].ent \in RegRow
    BY <1>1 DEF Inv, TypeOK, ActiveRequest
  <1>4. cols \subseteq DOMAIN NewReg /\ ent \in RegRow
    BY <1>3, NewRows, UpdatedRow DEF ChangedColumns, RegRow, NewReg
  <1>5. /\ new \in ActiveRequest /\ new.pc = "write" /\ new.cols = cols /\ new.ent = ent
        /\ new.op = req[h].op /\ new.id = {r} /\ new.stale = req[h].stale
    BY <1>1, <1>2, <1>4 DEF ActiveRequest
  <1>6. UpdateColumns(row[r], ent, cols) = req[h].ent
    BY <1>3, SavedAsEdited
  <1>7. HeldOK(new, row)
    BY <1>1, <1>2, <1>5, <1>6 DEF HeldOK, Holding
  <1>8. /\ req' = [req EXCEPT ![h] = NoReq] \/ req' = [req EXCEPT ![h] = new]
        /\ UNCHANGED <<row, event>>
    BY <1>2 DEF SaveRow
  <1>9. HeldOK(NoReq, row)
    BY IdleType DEF HeldOK
  <1> HIDE DEF new
  <1>10. QED BY <1>5, <1>7, <1>8, <1>9, MoveInv DEF Inv, TypeOK

(* The row a handler writes in this step. *)
LEMMA Written ==
  ASSUME Inv, NEW h \in Handlers, WriteRow(h) \/ SelfUpdate(h)
  PROVE  /\ req[h] \in ActiveRequest /\ req[h].pc \in {"write", "update"}
         /\ \E r \in Regs, new \in RegRow :
              /\ req[h].id = {r}
              /\ Store(h, [row EXCEPT ![r] = new])
              /\ req[h].pc = "write" =>
                   new = UpdateColumns(row[r], req[h].ent, req[h].cols)
              /\ req[h].pc = "update" =>
                   new = [row[r] EXCEPT !.status = "attended", !.checkedIn = TRUE]
  <1>1. req[h] \in ActiveRequest /\ req[h].pc \in {"write", "update"}
        /\ HeldOK(req[h], row)
    BY ActiveType DEF WriteRow, SelfUpdate, Inv
  <1>2. PICK r \in Regs : req[h].id = {r}
    BY <1>1 DEF HeldOK, Holding
  <1>3. row[r] \in RegRow /\ req[h].ent \in RegRow
    BY <1>1 DEF Inv, TypeOK, ActiveRequest
  <1>4. CASE WriteRow(h)
    BY <1>1, <1>2, <1>3, <1>4, UpdatedRow DEF WriteRow
  <1>5. CASE SelfUpdate(h)
    <2> DEFINE new == [row[r] EXCEPT !.status = "attended", !.checkedIn = TRUE]
    <2>1. new \in RegRow
      BY <1>3 DEF RegRow, RegStatuses
    <2>2. [row EXCEPT ![r].status = "attended", ![r].checkedIn = TRUE]
            = [row EXCEPT ![r] = new]
      BY DEF Inv, TypeOK
    <2>3. Store(h, [row EXCEPT ![r] = new])
      BY <1>2, <1>5, <2>2 DEF SelfUpdate
    <2> HIDE DEF new
    <2>4. QED BY <1>1, <1>2, <1>5, <2>1, <2>3 DEF SelfUpdate, new
  <1>6. QED BY <1>4, <1>5

LEMMA WriteInv ==
  ASSUME Inv, NEW h \in Handlers, WriteRow(h) \/ SelfUpdate(h)
  PROVE  Inv'
  <1>1. PICK r \in Regs, new \in RegRow : Store(h, [row EXCEPT ![r] = new])
    BY Written
  <1>2. [row EXCEPT ![r] = new] \in [Regs -> RegRow]
    BY DEF Inv, TypeOK
  <1>3. QED BY <1>1, <1>2, StoreInv

LEMMA EventStepInv ==
  ASSUME Inv, NEW h \in Handlers, EventStep(h)
  PROVE  Inv'
  <1>0. event \in EventRow /\ row \in [Regs -> RegRow]
    BY DEF Inv, TypeOK
  <1>1. CASE LockAcknowledgements(h) \/ UnlockAcknowledgements(h)
    <2> PICK op \in {"lock", "unlock"}, ev \in EventRow :
               Begin(h, "eventSave", op, {}, NewReg, ev)
      BY <1>0, <1>1, NewRows DEF LockAcknowledgements, UnlockAcknowledgements, EventRow
    <2>1. QED BY NewRows, BeginInv DEF EventOps
  <1>2. CASE SaveEvent(h)
    <2>1. req[h] \in ActiveRequest
      BY <1>2, ActiveType DEF SaveEvent, Inv
    <2> DEFINE cols == ChangedColumns(req[h].ev, event)
               new  == [req[h] EXCEPT !.pc = "eventWrite", !.cols = cols]
    <2>2. cols \subseteq DOMAIN OpenEvent
      BY <1>0 DEF ChangedColumns, EventRow, OpenEvent
    <2>3. new \in ActiveRequest /\ new.pc = "eventWrite"
      BY <2>1, <2>2 DEF ActiveRequest
    <2>4. req' = [req EXCEPT ![h] = new] /\ UNCHANGED <<row, event>>
      BY <1>2 DEF SaveEvent
    <2> HIDE DEF new
    <2>5. QED BY <1>0, <2>3, <2>4, MoveInv DEF HeldOK, Holding
  <1>3. CASE WriteEvent(h)
    <2>1. req[h] \in ActiveRequest
      BY <1>3, ActiveType DEF WriteEvent, Inv
    <2> DEFINE new == [req[h] EXCEPT !.pc = "expireAll", !.cols = {}]
    <2>2. new \in ActiveRequest /\ new.pc = "expireAll"
      BY <2>1 DEF ActiveRequest
    <2>3. HeldOK(NoReq, row) /\ HeldOK(new, row)
      BY <2>2, IdleType DEF HeldOK, Holding
    <2>4. event' \in EventRow
      BY <1>0, <1>3, <2>1, UpdatedEvent DEF WriteEvent, ActiveRequest
    <2>5. /\ req' = [req EXCEPT ![h] = NoReq] \/ req' = [req EXCEPT ![h] = new]
          /\ UNCHANGED row
      BY <1>3 DEF WriteEvent
    <2> HIDE DEF new
    <2>6. QED BY <2>2, <2>3, <2>4, <2>5, MoveInv
  <1>4. CASE ExpireAll(h)
    <2> DEFINE newRow == [r \in Regs |->
                 [row[r] EXCEPT !.expired =
                    @ \/ (row[r].status = "shortlisted" /\ ~row[r].acknowledged)]]
    <2>1. ASSUME NEW r \in Regs PROVE newRow[r] \in RegRow
      BY <1>0 DEF RegRow
    <2>2. newRow \in [Regs -> RegRow]
      BY <2>1
    <2>3. Store(h, newRow)
      BY <1>4 DEF ExpireAll
    <2> HIDE DEF newRow
    <2>4. QED BY <2>2, <2>3, StoreInv
  <1>5. QED BY <1>1, <1>2, <1>3, <1>4 DEF EventStep

LEMMA NextInv == Inv /\ [Next]_vars => Inv'
  <1> SUFFICES ASSUME Inv, [Next]_vars PROVE Inv'
    OBVIOUS
  <1>1. CASE MoveDeadline
    <2>1. event' \in EventRow /\ UNCHANGED <<row, req>>
      BY <1>1 DEF MoveDeadline, EventRow, Inv, TypeOK
    <2>2. QED BY <2>1 DEF Inv, TypeOK
  <1>2. ASSUME NEW h \in Handlers, NEW r \in Regs,
               AdminStep(h, r) \/ CheckinStep(h, r) \/ AttendeeStep(h, r)
        PROVE  Inv'
    BY <1>2, AdminStepInv, CheckinStepInv, AttendeeStepInv
  <1>3. ASSUME NEW h \in Handlers,
               SaveRow(h) \/ WriteRow(h) \/ SelfUpdate(h) \/ EventStep(h)
        PROVE  Inv'
    BY <1>3, SaveRowInv, WriteInv, EventStepInv
  <1>4. ASSUME NEW h \in Handlers, Crash(h) PROVE Inv'
    <2>1. HeldOK(NoReq, row)
      BY IdleType DEF HeldOK
    <2>2. QED BY <1>4, <2>1, MoveInv DEF Crash, Inv, TypeOK
  <1>5. CASE UNCHANGED vars
    BY <1>5 DEF vars, Inv, TypeOK
  <1>6. QED BY <1>1, <1>2, <1>3, <1>4, <1>5 DEF Next

LEMMA Invariance == Spec => []Inv
  BY InitInv, NextInv, PTL DEF Spec

-----------------------------------------------------------------------------
(* The state of the rows, the event and the requests is always well typed. *)
THEOREM TypeCorrect == Spec => []TypeOK
  <1>1. Inv => TypeOK
    BY DEF Inv
  <1>2. QED BY <1>1, Invariance, PTL

(* Who writes the rows: a handler that stores one, or the UPDATE of          *)
(* lockAcknowledgements.                                                     *)
LEMMA WritesRows ==
  ASSUME Inv, Next
  PROVE  \/ UNCHANGED row
         \/ \E h \in Handlers : WriteRow(h) \/ SelfUpdate(h) \/ ExpireAll(h)
  <1> USE DEF LoadRow, Begin
  <1>1. ASSUME NEW h \in Handlers, NEW r \in Regs,
               AdminStep(h, r) \/ CheckinStep(h, r) \/ AttendeeStep(h, r)
        PROVE  UNCHANGED row
    <2>1. CASE AdminStep(h, r)
      BY <2>1 DEF AdminStep, SetStatus, Expire, Touch, Delete, Restore
    <2>2. CASE CheckinStep(h, r)
      BY <2>2 DEF CheckinStep, Scan, ToggleCheckin, Uncheck
    <2>3. CASE AttendeeStep(h, r)
      BY <2>3 DEF AttendeeStep, Acknowledge, SelfCheckin
    <2>4. QED BY <1>1, <2>1, <2>2, <2>3
  <1>2. ASSUME NEW h \in Handlers, SaveRow(h) \/ Crash(h) PROVE UNCHANGED row
    BY <1>2 DEF SaveRow, Crash
  <1>3. ASSUME NEW h \in Handlers, EventStep(h) PROVE UNCHANGED row \/ ExpireAll(h)
    BY <1>3 DEF EventStep, LockAcknowledgements, UnlockAcknowledgements, SaveEvent, WriteEvent
  <1>4. CASE MoveDeadline
    BY <1>4 DEF MoveDeadline
  <1>5. QED BY <1>1, <1>2, <1>3, <1>4 DEF Next

(* A handler that stores a row nobody else changed follows the rules, or is  *)
(* the self check-in of somebody who may.                                    *)
LEMMA FreshStore ==
  ASSUME Inv, NEW h \in Handlers, WriteRow(h) \/ SelfUpdate(h),
         NEW r \in Regs, row'[r] # row[r]
  PROVE  /\ Stores(h, r)
         /\ \/ req[h].stale
            \/ ByTheRules(req[h].op, row[r], row'[r])
            \/ /\ req[h].op = "self" /\ row'[r].status = "attended"
               /\ MaySelfCheckin(row[r])
               /\ row'[r].expired = row[r].expired
               /\ row'[r].acknowledged = row[r].acknowledged
  <1>1. req[h] \in ActiveRequest /\ req[h].pc \in {"write", "update"}
    BY Written
  <1>2. PICK q \in Regs, new \in RegRow :
          /\ req[h].id = {q}
          /\ Store(h, [row EXCEPT ![q] = new])
          /\ req[h].pc = "write" => new = UpdateColumns(row[q], req[h].ent, req[h].cols)
          /\ req[h].pc = "update" =>
               new = [row[q] EXCEPT !.status = "attended", !.checkedIn = TRUE]
    BY Written
  <1>3. row' = [row EXCEPT ![q] = new] /\ req'[h] = NoReq
    BY <1>2 DEF Store, Outdate
  <1>4. q = r /\ row'[r] = new /\ row[r] \in RegRow
    BY <1>3 DEF Inv, TypeOK
  <1>5. Stores(h, r)
    BY <1>1, <1>2, <1>3, <1>4 DEF Stores
  <1>6. HeldOK(req[h], row)
    BY DEF Inv
  <1>7. CASE req[h].pc = "write"
    BY <1>2, <1>4, <1>5, <1>6, <1>7 DEF HeldOK, Holding
  <1>8. CASE req[h].pc = "update"
    BY <1>2, <1>4, <1>5, <1>6, <1>8 DEF HeldOK, Holding, RegRow
  <1>9. QED BY <1>1, <1>7, <1>8

(* However status changes, scans, check-ins and deletions overlap, a status  *)
(* moves along VALID_TRANSITIONS, to attended by a scan, or to attended by   *)
(* the self check-in of somebody seated, but for a request that had loaded   *)
(* the row before another one changed it.                                    *)
THEOREM StatusMovesByRules == Spec => StatusByRules
  <1> DEFINE A == \A r \in Regs : row'[r].status # row[r].status =>
        \E h \in Handlers :
          /\ Stores(h, r)
          /\ \/ req[h].stale
             \/ req[h].op \in {"status", "expire"} /\ MayBecome(row[r], row'[r].status)
             \/ /\ row'[r].status = "attended"
                /\ \/ req[h].op = "scan"
                   \/ req[h].op = "self" /\ MaySelfCheckin(row[r])
  <1>1. Inv /\ [Next]_vars => [A]_vars
    <2> SUFFICES ASSUME Inv, Next, NEW r \in Regs, row'[r].status # row[r].status
                 PROVE  \E h \in Handlers :
                          /\ Stores(h, r)
                          /\ \/ req[h].stale
                             \/ /\ req[h].op \in {"status", "expire"}
                                /\ MayBecome(row[r], row'[r].status)
                             \/ /\ row'[r].status = "attended"
                                /\ \/ req[h].op = "scan"
                                   \/ req[h].op = "self" /\ MaySelfCheckin(row[r])
      BY DEF vars
    <2>1. ASSUME NEW h \in Handlers, ExpireAll(h) PROVE FALSE
      <3>1. row[r] \in RegRow /\ row' = [q \in Regs |->
              [row[q] EXCEPT !.expired =
                 @ \/ (row[q].status = "shortlisted" /\ ~row[q].acknowledged)]]
        BY <2>1 DEF ExpireAll, Store, Inv, TypeOK
      <3>2. QED BY <3>1 DEF RegRow
    <2>2. PICK h \in Handlers : WriteRow(h) \/ SelfUpdate(h)
      BY <2>1, WritesRows
    <2>3. QED BY <2>2, FreshStore DEF ByTheRules
  <1>2. QED BY <1>1, Invariance, PTL DEF Spec, StatusByRules

(* Whatever order locks, unlocks, deadlines, status changes and              *)
(* acknowledgements come in, an expiry is never taken back, nobody confirms  *)
(* after it and nobody who confirmed is expired, but for a request that had  *)
(* loaded the row before another one changed it.                             *)
THEOREM ExpiryStays == Spec => ExpiryIsFinal
  <1> DEFINE A == \A r \in Regs :
        \/ StaleStore(r)
        \/ /\ row[r].expired => row'[r].expired
           /\ row'[r].expired /\ row'[r].acknowledged
                => row[r].expired /\ row[r].acknowledged
  <1>1. Inv /\ [Next]_vars => [A]_vars
    <2> SUFFICES ASSUME Inv, Next, NEW r \in Regs, ~StaleStore(r), row'[r] # row[r]
                 PROVE  /\ row[r].expired => row'[r].expired
                        /\ row'[r].expired /\ row'[r].acknowledged
                             => row[r].expired /\ row[r].acknowledged
      BY DEF vars
    <2>1. CASE \E h \in Handlers : ExpireAll(h)
      <3>1. row[r] \in RegRow /\ row' = [q \in Regs |->
              [row[q] EXCEPT !.expired =
                 @ \/ (row[q].status = "shortlisted" /\ ~row[q].acknowledged)]]
        BY <2>1 DEF ExpireAll, Store, Inv, TypeOK
      <3>2. QED BY <3>1 DEF RegRow
    <2>2. ASSUME NEW h \in Handlers, WriteRow(h) \/ SelfUpdate(h)
          PROVE  /\ row[r].expired => row'[r].expired
                 /\ row'[r].expired /\ row'[r].acknowledged
                      => row[r].expired /\ row[r].acknowledged
      <3>1. ~req[h].stale
        BY <2>2, FreshStore DEF StaleStore
      <3>2. QED BY <2>2, <3>1, FreshStore DEF ByTheRules
    <2>3. QED BY <2>1, <2>2, WritesRows
  <1>2. QED BY <1>1, Invariance, PTL DEF Spec, ExpiryIsFinal
=============================================================================
