---------------------------- MODULE DepositProofs ----------------------------
(* Proofs about TeamDeposit, for any roster, any number of requests in      *)
(* flight and any window.                                                   *)
EXTENDS TeamDeposit, TLAPS

(* The phases in which a handler still has a team to store. *)
Holding == {"mail", "save", "write"}

(* A row is submitted when a window was open. *)
InTime(row) == \A t \in row.at : openEnded \/ \E d \in told : t <= d

(* No window ends later than one that begins now. *)
Begun(row) == row.deadline <= now + Window

(* The entity a handler is about to store: its deadline was told, it was     *)
(* submitted in time, it is under review only if the team was asked, and    *)
(* unless another request changed the row since, it keeps what was paid and *)
(* reported and the window that is open.                                    *)
EntOK(h) ==
  req[h].pc \in Holding =>
    /\ InTime(req[h].ent) /\ Begun(req[h].ent)
    /\ req[h].pc # "mail" =>
         req[h].ent.deadline = NoDeadline \/ req[h].ent.deadline \in told
    /\ req[h].pc # "mail" /\ req[h].ent.payment \in {"requested", "submitted", "rejected"}
         => told # {}
    /\ ~req[h].stale =>
         /\ team.payment = "paid" => req[h].ent.payment = "paid"
         /\ team.ref # NoRef => req[h].ent.ref # NoRef
         /\ req[h].ent.deadline >= team.deadline

AskedTeam ==
  /\ team.payment \in {"requested", "submitted", "rejected"} => told # {}
  /\ InTime(team) /\ Begun(team) /\ (OpenEnded(team) => openEnded)

Inv == TypeOK /\ ClockNeedsMail /\ AskedTeam /\ \A h \in Handlers : EntOK(h)

-----------------------------------------------------------------------------
(* What repository.save makes of a row: each column is the old or the new. *)
LEMMA UpdatedTeam ==
  ASSUME NEW row \in TeamRow, NEW ent \in TeamRow, NEW cols
  PROVE  /\ UpdateColumns(row, ent, cols) \in TeamRow
         /\ UpdateColumns(row, ent, cols).payment \in {row.payment, ent.payment}
         /\ UpdateColumns(row, ent, cols).deadline \in {row.deadline, ent.deadline}
         /\ UpdateColumns(row, ent, cols).ref \in {row.ref, ent.ref}
         /\ UpdateColumns(row, ent, cols).at \in {row.at, ent.at}
  BY DEF UpdateColumns, TeamRow

LEMMA UpdatedReg ==
  ASSUME NEW row \in RegRow, NEW reg \in RegRow, NEW cols
  PROVE  UpdateColumns(row, reg, cols) \in RegRow
  BY DEF UpdateColumns, RegRow

LEMMA NewRows == NewTeam \in TeamRow /\ NewReg \in RegRow
  BY DepositAssumption DEF NewTeam, TeamRow, NewReg, RegRow, PayStatuses, Deadlines,
     NoDeadline, RegStatuses

LEMMA StatusType ==
  ASSUME NEW row \in RegRow, NEW s \in RegStatuses
  PROVE  WithStatus(row, s) \in RegRow
  BY DEF WithStatus, RegRow

LEMMA InitInv == Init => Inv
  <1> SUFFICES ASSUME Init PROVE Inv
    OBVIOUS
  <1>1. [NewReg EXCEPT !.deleted = TRUE] \in RegRow
    BY NewRows DEF RegRow
  <1>2. TypeOK
    <2>1. member \in [Members -> RegRow]
      BY <1>1, NewRows DEF Init
    <2>2. now \in Times
      BY DepositAssumption DEF Init, Times
    <2>3. told \subseteq Deadlines /\ openEnded \in BOOLEAN
      BY DEF Init
    <2>4. req \in [Handlers -> ActiveRequest \cup {NoReq}]
      BY DEF Init
    <2>5. QED BY <2>1, <2>2, <2>3, <2>4, NewRows DEF Init, TypeOK
  <1>3. QED
    BY <1>2, DepositAssumption
       DEF Init, Inv, ClockNeedsMail, AskedTeam, EntOK, NewTeam, NoReq, Holding, InTime,
           Begun, OpenEnded, NoDeadline

-----------------------------------------------------------------------------
(* A request that begins. *)
LEMMA BeginInv ==
  ASSUME Inv, NEW h \in Handlers, NEW op \in AllOps, NEW pc \in Active,
         NEW ent \in TeamRow, NEW reg \in RegRow, NEW id \in SUBSET Members,
         NEW todo \in SUBSET Members,
         Begin(h, op, pc, ent, reg, id, todo),
         pc \in Holding =>
           /\ pc # "mail" => ent.deadline = NoDeadline \/ ent.deadline \in told
           /\ pc # "mail" /\ ent.payment \in {"requested", "submitted", "rejected"}
                => told # {}
           /\ team.payment = "paid" => ent.payment = "paid"
           /\ team.ref # NoRef => ent.ref # NoRef
           /\ InTime(ent) /\ Begun(ent) /\ ent.deadline >= team.deadline
  PROVE  Inv'
  <1> DEFINE new == [pc |-> pc, op |-> op, ent |-> ent, reg |-> reg, id |-> id,
                     cols |-> {}, todo |-> todo, stale |-> FALSE]
  <1>1. new \in ActiveRequest
    BY DEF ActiveRequest
  <1>2. req' = [req EXCEPT ![h] = new] /\ UNCHANGED <<team, member, now, told, openEnded>>
    BY DEF Begin
  <1>3. req'[h] = new /\ \A g \in Handlers \ {h} : req'[g] = req[g]
    BY <1>2 DEF Inv, TypeOK
  <1>4. TypeOK'
    BY <1>1, <1>2 DEF Inv, TypeOK
  <1>5. ASSUME NEW g \in Handlers PROVE EntOK(g)'
    <2>1. CASE g = h
      BY <2>1, <1>2, <1>3 DEF EntOK, InTime, Begun
    <2>2. CASE g # h
      BY <2>2, <1>2, <1>3 DEF Inv, EntOK, InTime, Begun
    <2>3. QED BY <2>1, <2>2
  <1>6. QED BY <1>2, <1>4, <1>5 DEF Inv, ClockNeedsMail, AskedTeam, InTime, Begun

(* A handler that moves on without touching the team or the mail. *)
LEMMA MoveInv ==
  ASSUME Inv, NEW h \in Handlers, NEW new \in ActiveRequest \cup {NoReq},
         req' = [req EXCEPT ![h] = new],
         member' \in [Members -> RegRow], UNCHANGED <<team, now, told, openEnded>>,
         new.pc \in Holding =>
           /\ req[h].pc \in Holding \ {"mail"} /\ new.pc # "mail"
           /\ new.ent = req[h].ent /\ new.stale = req[h].stale
  PROVE  Inv'
  <1>1. req'[h] = new /\ \A g \in Handlers \ {h} : req'[g] = req[g]
    BY DEF Inv, TypeOK
  <1>2. TypeOK'
    BY DEF Inv, TypeOK
  <1>3. ASSUME NEW g \in Handlers PROVE EntOK(g)'
    <2>1. CASE g = h
      BY <2>1, <1>1 DEF Inv, EntOK, InTime, Begun
    <2>2. CASE g # h
      BY <2>2, <1>1 DEF Inv, EntOK, InTime, Begun
    <2>3. QED BY <2>1, <2>2
  <1>4. QED BY <1>2, <1>3 DEF Inv, ClockNeedsMail, AskedTeam, InTime, Begun

LEMMA ActiveType ==
  ASSUME TypeOK, NEW h \in Handlers, req[h].pc # "idle"
  PROVE  req[h] \in ActiveRequest
  BY DEF TypeOK, NoReq

LEMMA IdleType == NoReq.pc = "idle" /\ "idle" \notin Holding
  BY DEF NoReq, Holding

(* A window that begins now ends within the bound on deadlines. *)
LEMMA AskedDeadline ==
  ASSUME TypeOK
  PROVE  /\ now + Window \in Deadlines
         /\ team.payment \in PayStatuses /\ team.deadline \in Deadlines
         /\ team.ref \in Refs \cup {NoRef} /\ team.at \in SUBSET Times
         /\ now \in Nat /\ now + Window \in Nat /\ team.deadline \in Nat
  <1>1. now + Window \in Deadlines /\ now \in Nat /\ now + Window \in Nat
    BY DepositAssumption DEF TypeOK, Deadlines, Times
  <1>2. QED BY <1>1, DepositAssumption DEF TypeOK, TeamRow, Deadlines

-----------------------------------------------------------------------------
LEMMA TeamStepInv ==
  ASSUME Inv, NEW h \in Handlers, TeamStep(h)
  PROVE  Inv'
  <1>0. /\ TypeOK /\ ClockNeedsMail /\ AskedTeam /\ EntOK(h)
        /\ team \in TeamRow /\ team.deadline \in Nat
    BY AskedDeadline DEF Inv, TypeOK
  <1>1. CASE Request(h)
    <2> DEFINE ent == [team EXCEPT !.payment = "requested", !.deadline = now + Window]
    <2>1. /\ ent \in TeamRow /\ ent.ref = team.ref /\ ent.at = team.at
          /\ ent.deadline = now + Window
      BY <1>0, AskedDeadline DEF TeamRow, PayStatuses
    <2>2. Begin(h, "request", "mail", ent, NewReg, {}, {}) /\ team.payment # "paid"
      BY <1>1 DEF Request, BeginTeam
    <2> HIDE DEF ent
    <2>3. InTime(ent) /\ Begun(ent) /\ ent.deadline >= team.deadline
      BY <1>0, <2>1, AskedDeadline DEF AskedTeam, InTime, Begun
    <2>4. QED BY <2>1, <2>2, <2>3, NewRows, BeginInv DEF AllOps, Active, Holding
  <1>2. CASE MailCaptain(h)
    <2>1. req[h] \in ActiveRequest /\ req[h].pc = "mail"
      BY <1>0, <1>2, ActiveType DEF MailCaptain
    <2>2. told \subseteq told' /\ told' \subseteq Deadlines
      BY <1>0, <1>2, <2>1 DEF MailCaptain, ActiveRequest, TeamRow, TypeOK
    <2>3. UNCHANGED <<team, member, now, openEnded>>
      BY <1>2 DEF MailCaptain
    <2>4. ASSUME NEW g \in Handlers, g # h PROVE EntOK(g)'
      <3>1. req'[g] = req[g]
        BY <1>0, <1>2, <2>4 DEF MailCaptain, Done, Goto, TypeOK
      <3>2. QED BY <3>1, <2>2, <2>3 DEF EntOK, Inv, InTime, Begun
    <2>5. ClockNeedsMail' /\ AskedTeam'
      BY <1>0, <2>2, <2>3 DEF ClockNeedsMail, AskedTeam, InTime, Begun
    <2>6. CASE Done(h)
      <3>1. TypeOK'
        BY <1>0, <2>2, <2>3, <2>6 DEF Done, TypeOK
      <3>2. req'[h] = NoReq
        BY <1>0, <2>6 DEF Done, TypeOK
      <3>3. EntOK(h)'
        BY <3>2, IdleType DEF EntOK
      <3>4. QED BY <3>1, <3>3, <2>4, <2>5 DEF Inv
    <2>7. CASE Goto(h, "save") /\ told' = told \cup {req[h].ent.deadline}
      <3>1. req'[h] = [req[h] EXCEPT !.pc = "save"]
        BY <1>0, <2>7 DEF Goto, TypeOK
      <3>2. req'[h] \in ActiveRequest /\ req'[h].ent = req[h].ent
            /\ req'[h].stale = req[h].stale /\ req'[h].pc = "save"
        BY <3>1, <2>1 DEF ActiveRequest, Active
      <3>3. TypeOK'
        BY <1>0, <2>2, <2>3, <2>7, <3>1, <3>2 DEF Goto, TypeOK
      <3>4. EntOK(h)'
        BY <1>0, <2>1, <2>2, <2>3, <2>7, <3>2 DEF EntOK, Holding, InTime, Begun
      <3>5. QED BY <3>3, <3>4, <2>4, <2>5 DEF Inv
    <2>8. QED BY <1>2, <2>6, <2>7 DEF MailCaptain
  <1>3. CASE \E ref \in Refs : Submit(h, ref)
    <2> PICK ref \in Refs : Submit(h, ref)
      BY <1>3
    <2> DEFINE ent == [team EXCEPT !.payment = "submitted", !.ref = ref, !.at = {now}]
    <2>1. /\ ent \in TeamRow /\ ent.deadline = team.deadline /\ ent.ref # NoRef
          /\ ent.at = {now}
      BY <1>0, DepositAssumption DEF TeamRow, PayStatuses, TypeOK
    <2>2. Begin(h, "submit", "save", ent, NewReg, {}, {}) /\ CanSubmitPayment
      BY DEF Submit, BeginTeam
    <2>3. team.payment \in {"requested", "rejected"}
      BY <2>2 DEF CanSubmitPayment, PaymentState
    <2>4. openEnded \/ (team.deadline \in told /\ now <= team.deadline)
      <3>1. CASE OpenEnded(team)  BY <1>0, <3>1 DEF AskedTeam
      <3>2. CASE ~OpenEnded(team)
        <4>1. team.payment = "requested" /\ team.deadline # NoDeadline
          BY <2>3, <3>2 DEF OpenEnded
        <4>2. ~(team.deadline < now)  BY <2>2, <4>1 DEF CanSubmitPayment, PaymentState
        <4>3. QED BY <1>0, <4>1, <4>2, AskedDeadline DEF ClockNeedsMail
      <3>3. QED BY <3>1, <3>2
    <2> HIDE DEF ent
    <2>5. InTime(ent) /\ Begun(ent) /\ ent.deadline >= team.deadline
      BY <1>0, <2>1, <2>4 DEF AskedTeam, InTime, Begun
    <2>6. QED
      BY <1>0, <2>1, <2>2, <2>3, <2>5, NewRows, BeginInv
         DEF AllOps, Active, Holding, ClockNeedsMail, AskedTeam
  <1>4. CASE Confirm(h)
    <2> DEFINE ent == [team EXCEPT !.payment = "paid"]
    <2>1. ent \in TeamRow /\ ent.deadline = team.deadline /\ ent.ref = team.ref
          /\ ent.payment = "paid" /\ ent.at = team.at
      BY <1>0 DEF TeamRow, PayStatuses
    <2>2. Begin(h, "confirm", "save", ent, NewReg, {}, MemberIds)
      BY <1>4 DEF Confirm, BeginTeam
    <2>3. MemberIds \in SUBSET Members
      BY DEF MemberIds, LiveMembers
    <2> HIDE DEF ent
    <2>4. InTime(ent) /\ Begun(ent) /\ ent.deadline >= team.deadline
      BY <1>0, <2>1 DEF AskedTeam, InTime, Begun
    <2>5. QED
      BY <1>0, <2>1, <2>2, <2>3, <2>4, NewRows, BeginInv
         DEF AllOps, Active, Holding, ClockNeedsMail
  <1>5. CASE Reject(h)
    <2> DEFINE ent == [team EXCEPT !.payment = "rejected"]
    <2>1. /\ ent \in TeamRow /\ ent.deadline = team.deadline /\ ent.ref = team.ref
          /\ ent.at = team.at
      BY <1>0 DEF TeamRow, PayStatuses
    <2>2. Begin(h, "reject", "save", ent, NewReg, {}, {}) /\ team.payment = "submitted"
      BY <1>5 DEF Reject, BeginTeam
    <2> HIDE DEF ent
    <2>3. InTime(ent) /\ Begun(ent) /\ ent.deadline >= team.deadline
      BY <1>0, <2>1 DEF AskedTeam, InTime, Begun
    <2>4. QED
      BY <1>0, <2>1, <2>2, <2>3, NewRows, BeginInv
         DEF AllOps, Active, Holding, ClockNeedsMail, AskedTeam
  <1>6. CASE LockTeam(h)
    <2>1. Begin(h, "lock", "save", team, NewReg, {}, {})
      BY <1>6 DEF LockTeam, BeginTeam
    <2>2. InTime(team) /\ Begun(team) /\ team.deadline >= team.deadline
      BY <1>0 DEF AskedTeam
    <2>3. QED
      BY <1>0, <2>1, <2>2, NewRows, BeginInv
         DEF AllOps, Active, Holding, ClockNeedsMail, AskedTeam
  <1>7. CASE SaveTeam(h)
    <2> DEFINE cols == ChangedColumns(req[h].ent, team)
               new  == [req[h] EXCEPT !.pc = "write", !.cols = cols]
    <2>1. req[h] \in ActiveRequest /\ req[h].pc = "save"
      BY <1>0, <1>7, ActiveType DEF SaveTeam
    <2>2. cols \subseteq DOMAIN NewTeam
      BY <1>0 DEF ChangedColumns, TeamRow, NewTeam
    <2>3. new \in ActiveRequest /\ new.pc = "write" /\ new.ent = req[h].ent
          /\ new.stale = req[h].stale
      BY <2>1, <2>2 DEF ActiveRequest, Active
    <2>4. req' = [req EXCEPT ![h] = new] /\ UNCHANGED <<team, member, now, told, openEnded>>
      BY <1>7 DEF SaveTeam
    <2>5. QED BY <1>0, <2>1, <2>3, <2>4, MoveInv DEF Holding, TypeOK
  <1>8. CASE WriteTeam(h)
    <2>1. req[h] \in ActiveRequest /\ req[h].pc = "write"
      BY <1>0, <1>8, ActiveType DEF WriteTeam
    <2>2. team' = UpdateColumns(team, req[h].ent, req[h].cols)
          /\ UNCHANGED <<member, now, told>>
          /\ openEnded' = (openEnded \/ OpenEnded(team'))
      BY <1>8 DEF WriteTeam
    <2>3. req[h].ent \in TeamRow
      BY <2>1 DEF ActiveRequest
    <2>4. /\ team' \in TeamRow
          /\ team'.payment \in {team.payment, req[h].ent.payment}
          /\ team'.deadline \in {team.deadline, req[h].ent.deadline}
          /\ team'.at \in {team.at, req[h].ent.at}
      BY <1>0, <2>2, <2>3, UpdatedTeam
    <2>5. ClockNeedsMail' /\ AskedTeam'
      <3>1. InTime(team) /\ InTime(req[h].ent) /\ Begun(team) /\ Begun(req[h].ent)
        BY <1>0, <2>1 DEF AskedTeam, EntOK, Holding
      <3>2. InTime(team)' /\ Begun(team)'
        BY <2>2, <2>4, <3>1 DEF InTime, Begun
      <3>3. OpenEnded(team)' => openEnded'
        BY <2>2 DEF OpenEnded
      <3>4. QED BY <1>0, <2>1, <2>2, <2>4, <3>2, <3>3 DEF ClockNeedsMail, AskedTeam, EntOK, Holding
    <2>6. req'[h] \in ActiveRequest \cup {NoReq} /\ req'[h].pc \notin Holding
      BY <1>8, <2>1, NewRows DEF WriteTeam, ActiveRequest, Active, Holding, NoReq
    <2>7. ASSUME NEW g \in Handlers, g # h
          PROVE  req'[g] \in ActiveRequest \cup {NoReq} /\ EntOK(g)'
      <3>0. req[g] \in ActiveRequest \cup {NoReq} /\ EntOK(g)
        BY <1>0 DEF Inv, TypeOK
      <3>1. CASE req[g].pc \in Holding /\ team' # team
        <4>1. req'[g] = [req[g] EXCEPT !.stale = TRUE] /\ req[g] \in ActiveRequest
          BY <1>8, <2>7, <3>0, <3>1, IdleType DEF WriteTeam, Holding
        <4>2. /\ req'[g] \in ActiveRequest /\ req'[g].stale
              /\ req'[g].pc = req[g].pc /\ req'[g].ent = req[g].ent
          BY <4>1 DEF ActiveRequest
        <4>3. QED BY <2>2, <3>0, <4>2 DEF EntOK, InTime, Begun
      <3>2. CASE ~(req[g].pc \in Holding /\ team' # team)
        <4>1. req'[g] = req[g]
          BY <1>8, <2>7, <3>2 DEF WriteTeam, Holding
        <4>2. QED BY <2>2, <3>0, <3>2, <4>1 DEF EntOK, InTime, Begun
      <3>3. QED BY <3>1, <3>2
    <2>8. req' = [g \in Handlers |-> req'[g]]
      BY <1>8 DEF WriteTeam
    <2>9. TypeOK'
      BY <1>0, <2>2, <2>4, <2>6, <2>7, <2>8 DEF TypeOK
    <2>10. EntOK(h)'
      BY <2>6 DEF EntOK
    <2>11. QED BY <2>5, <2>7, <2>9, <2>10 DEF Inv
  <1>9. QED
    BY <1>1, <1>2, <1>3, <1>4, <1>5, <1>6, <1>7, <1>8 DEF TeamStep

LEMMA MemberStepInv ==
  ASSUME Inv, NEW h \in Handlers, MemberStep(h)
  PROVE  Inv'
  <1>0. TypeOK /\ member \in [Members -> RegRow]
    BY DEF Inv, TypeOK
  <1>1. CASE \E m \in Members, s \in Asked : SetStatus(h, m, s)
    <2> PICK m \in Members, s \in Asked : SetStatus(h, m, s)
      BY <1>1
    <2>1. Begin(h, "status", "regSave", NewTeam, WithStatus(member[m], s), {m}, {})
      BY DEF SetStatus
    <2>2. WithStatus(member[m], s) \in RegRow
      BY <1>0, StatusType, DepositAssumption
    <2>3. QED BY <2>1, <2>2, NewRows, BeginInv DEF AllOps, Active, Holding
  <1>2. CASE NextMember(h)
    <2>1. req[h] \in ActiveRequest /\ req[h].pc = "members"
      BY <1>0, <1>2, ActiveType DEF NextMember
    <2>2. PICK m \in req[h].todo :
            req' = IF MayBecome(member[m], "shortlisted")
                   THEN [req EXCEPT ![h].pc = "regSave", ![h].todo = @ \ {m},
                                    ![h].id = {m},
                                    ![h].reg = WithStatus(member[m], "shortlisted")]
                   ELSE [req EXCEPT ![h].todo = @ \ {m}]
      BY <1>2 DEF NextMember
    <2>3. m \in Members /\ WithStatus(member[m], "shortlisted") \in RegRow
      BY <1>0, <2>1, StatusType DEF ActiveRequest, RegStatuses
    <2> DEFINE go   == [req[h] EXCEPT !.pc = "regSave", !.todo = @ \ {m}, !.id = {m},
                                      !.reg = WithStatus(member[m], "shortlisted")]
               skip == [req[h] EXCEPT !.todo = @ \ {m}]
               new  == IF MayBecome(member[m], "shortlisted") THEN go ELSE skip
    <2>4. go \in ActiveRequest /\ go.pc = "regSave" /\ skip \in ActiveRequest
          /\ skip.pc = "members"
      BY <2>1, <2>3 DEF ActiveRequest, Active
    <2>5. req' = [req EXCEPT ![h] = new]
      BY <2>2
    <2>6. new \in ActiveRequest \cup {NoReq} /\ new.pc \notin Holding
      BY <2>4 DEF Holding
    <2> HIDE DEF new
    <2>7. UNCHANGED <<team, member, now, told, openEnded>>
      BY <1>2 DEF NextMember
    <2>8. QED BY <1>0, <2>5, <2>6, <2>7, MoveInv
  <1>3. CASE Confirmed(h)
    <2>1. req' = [req EXCEPT ![h] = NoReq] /\ UNCHANGED <<team, member, now, told, openEnded>>
      BY <1>3 DEF Confirmed, Done
    <2>2. QED BY <1>0, <2>1, IdleType, MoveInv
  <1>4. CASE SaveMember(h)
    <2>1. req[h] \in ActiveRequest /\ req[h].pc = "regSave"
      BY <1>0, <1>4, ActiveType DEF SaveMember
    <2>2. PICK m \in req[h].id :
            req' = [req EXCEPT ![h].pc = "regWrite",
                               ![h].cols = ChangedColumns(req[h].reg, member[m])]
      BY <1>4 DEF SaveMember
    <2> DEFINE cols == ChangedColumns(req[h].reg, member[m])
               new  == [req[h] EXCEPT !.pc = "regWrite", !.cols = cols]
    <2>3. m \in Members /\ member[m] \in RegRow
      BY <1>0, <2>1 DEF ActiveRequest
    <2>4. cols \subseteq DOMAIN NewReg
      BY <2>3 DEF ChangedColumns, RegRow, NewReg
    <2>5. new \in ActiveRequest /\ new.pc = "regWrite"
      BY <2>1, <2>4 DEF ActiveRequest, Active
    <2>6. req' = [req EXCEPT ![h] = new] /\ UNCHANGED <<team, member, now, told, openEnded>>
      BY <1>4, <2>2 DEF SaveMember
    <2>7. QED BY <1>0, <2>5, <2>6, MoveInv DEF Holding
  <1>5. CASE WriteMember(h)
    <2>1. req[h] \in ActiveRequest /\ req[h].pc = "regWrite"
      BY <1>0, <1>5, ActiveType DEF WriteMember
    <2>2. PICK m \in req[h].id :
            member' = [member EXCEPT ![m] = UpdateColumns(@, req[h].reg, req[h].cols)]
      BY <1>5 DEF WriteMember
    <2>3. m \in Members /\ UpdateColumns(member[m], req[h].reg, req[h].cols) \in RegRow
      BY <1>0, <2>1, UpdatedReg DEF ActiveRequest
    <2>4. member' \in [Members -> RegRow]
      BY <1>0, <2>2, <2>3
    <2> DEFINE back == [req[h] EXCEPT !.pc = "members", !.id = {}, !.reg = NewReg,
                                      !.cols = {}]
    <2>5. back \in ActiveRequest /\ back.pc = "members"
      BY <2>1, NewRows DEF ActiveRequest, Active
    <2>6. UNCHANGED <<team, now, told, openEnded>>
          /\ (req' = [req EXCEPT ![h] = back] \/ req' = [req EXCEPT ![h] = NoReq])
      BY <1>5 DEF WriteMember, Done
    <2>7. CASE req' = [req EXCEPT ![h] = back]
      BY <2>4, <2>5, <2>6, <2>7, MoveInv DEF Holding
    <2>8. CASE req' = [req EXCEPT ![h] = NoReq]
      BY <2>4, <2>6, <2>8, IdleType, MoveInv
    <2>9. QED BY <2>6, <2>7, <2>8
  <1>6. QED BY <1>1, <1>2, <1>3, <1>4, <1>5 DEF MemberStep

LEMMA NextInv == Inv /\ [Next]_vars => Inv'
  <1> SUFFICES ASSUME Inv, [Next]_vars PROVE Inv'
    OBVIOUS
  <1>1. CASE Tick
    <2>1. UNCHANGED <<team, member, told, openEnded, req>> /\ now' \in Times /\ now' = now + 1
      BY <1>1, DepositAssumption DEF Tick, Inv, TypeOK, Times
    <2>2. now \in Nat /\ Window \in Nat
      BY DepositAssumption DEF Inv, TypeOK, Times
    <2>3. TypeOK'  BY <2>1 DEF Inv, TypeOK
    <2>4. team.deadline \in Nat /\ Begun(team)'
      BY <2>1, <2>2, AskedDeadline DEF Inv, AskedTeam, Begun
    <2>5. ClockNeedsMail' /\ AskedTeam'
      BY <2>1, <2>4 DEF Inv, ClockNeedsMail, AskedTeam, InTime, OpenEnded
    <2>6. ASSUME NEW h \in Handlers PROVE EntOK(h)'
      <3>1. SUFFICES ASSUME req[h].pc \in Holding PROVE EntOK(h)'
        BY <2>1 DEF EntOK
      <3>2. req[h].ent.deadline \in Nat
        BY <3>1, IdleType, DepositAssumption DEF Inv, TypeOK, ActiveRequest, TeamRow, Deadlines, NoReq
      <3>3. Begun(req[h].ent)'
        BY <2>1, <2>2, <3>1, <3>2 DEF Inv, EntOK, Begun
      <3>4. QED BY <2>1, <3>3 DEF Inv, EntOK, InTime
    <2>7. QED BY <2>3, <2>5, <2>6 DEF Inv
  <1>2. ASSUME NEW h \in Handlers, TeamStep(h) PROVE Inv'
    BY <1>2, TeamStepInv
  <1>3. ASSUME NEW h \in Handlers, MemberStep(h) PROVE Inv'
    BY <1>3, MemberStepInv
  <1>4. ASSUME NEW h \in Handlers, Crash(h) PROVE Inv'
    <2>1. req' = [req EXCEPT ![h] = NoReq] /\ UNCHANGED <<team, member, now, told, openEnded>>
      BY <1>4 DEF Crash, Done
    <2>2. member' \in [Members -> RegRow]
      BY <2>1 DEF Inv, TypeOK
    <2>3. QED BY <2>1, <2>2, IdleType, MoveInv
  <1>5. CASE UNCHANGED vars
    BY <1>5 DEF vars, Inv, TypeOK, ClockNeedsMail, AskedTeam, EntOK, InTime, Begun, OpenEnded
  <1>6. QED BY <1>1, <1>2, <1>3, <1>4, <1>5 DEF Next

LEMMA Invariance == Spec => []Inv
  <1>1. QED BY InitInv, NextInv, PTL DEF Spec

-----------------------------------------------------------------------------
(* Every state of the deposit has the types TypeOK says. *)
THEOREM TypeCorrect == Spec => []TypeOK
  <1>1. Inv => TypeOK
    BY DEF Inv
  <1>2. QED BY <1>1, Invariance, PTL

(* However many requests overlap and whatever crashes, a deadline runs only  *)
(* against a team that was mailed it (requestTeamPayment).                   *)
THEOREM ToldFirst == Spec => []ClockNeedsMail
  <1>1. Inv => ClockNeedsMail
    BY DEF Inv
  <1>2. QED BY <1>1, Invariance, PTL

(* A deposit is reviewed or sent back only of a team that was asked, and was  *)
(* submitted while a window was open that the team was told of, unless it was *)
(* free to submit at any time (requestTeamPayment, canSubmitPayment).        *)
THEOREM SubmittedInTime == Spec => []ReviewedInTime
  <1>1. Inv => ReviewedInTime
    BY DEF Inv, AskedTeam, InTime, ReviewedInTime
  <1>2. QED BY <1>1, Invariance, PTL

(* Only a handler that writes back a row loaded before another request       *)
(* changed it can undo a payment, forget a reported transaction or cut a       *)
(* window short.                                                             *)
THEOREM PaymentKept == Spec => LostOnlyToStaleSave
  <1> DEFINE Lost  == \/ team.payment = "paid" /\ team'.payment # "paid"
                      \/ team.ref # NoRef /\ team'.ref = NoRef
                      \/ team'.deadline < team.deadline
             Stale == \E h \in Handlers :
                        req[h].pc = "write" /\ req'[h].pc # "write" /\ req[h].stale
  <1>1. Inv /\ [Next]_vars => [Lost => Stale]_vars
    <2> SUFFICES ASSUME Inv, Next, Lost PROVE Stale
      BY DEF vars
    <2>0. team' # team
      <3>1. ~(team.deadline < team.deadline)
        BY AskedDeadline DEF Inv
      <3>2. QED BY <3>1
    <2>1. PICK h \in Handlers : WriteTeam(h)
      BY <2>0 DEF Next, Tick, Crash, TeamStep, MemberStep, Request, MailCaptain, Submit,
             Confirm, Reject, LockTeam, BeginTeam, Begin, SaveTeam, SetStatus,
             NextMember, Confirmed, SaveMember, WriteMember
    <2>2. req[h] \in ActiveRequest /\ req[h].pc = "write" /\ EntOK(h)
      BY <2>1, ActiveType DEF WriteTeam, Inv
    <2>3. team \in TeamRow /\ req[h].ent \in TeamRow
          /\ team' = UpdateColumns(team, req[h].ent, req[h].cols)
      BY <2>1, <2>2 DEF WriteTeam, Inv, TypeOK, ActiveRequest
    <2>4. /\ team'.payment \in {team.payment, req[h].ent.payment}
          /\ team'.ref \in {team.ref, req[h].ent.ref}
          /\ team'.deadline \in {team.deadline, req[h].ent.deadline}
          /\ team.deadline \in Nat /\ req[h].ent.deadline \in Nat
      BY <2>3, UpdatedTeam, DepositAssumption DEF TeamRow, Deadlines
    <2>5. req[h].stale
      BY <2>2, <2>4 DEF EntOK, Holding
    <2>6. req'[h].pc # "write"
      BY <2>1, <2>2 DEF WriteTeam, NoReq, ActiveRequest
    <2>7. QED BY <2>2, <2>5, <2>6
  <1>2. QED BY <1>1, Invariance, PTL DEF Spec, LostOnlyToStaleSave
=============================================================================
