---------------------------- MODULE CreditsProofs ----------------------------
(* Proofs about CreditsQueue, for any number of registrations, workers and *)
(* concurrent requests.                                                     *)
EXTENDS CreditsQueue, FiniteSetTheorems, TLAPS

(* Every variable keeps its type.  The statements on a row come first. *)
LEMMA InitType == Init => TypeOK
  <1> SUFFICES ASSUME Init PROVE TypeOK
    OBVIOUS
  <1>1. RowType
    BY CreditsAssumption DEF Init, RowType, Status
  <1>2. SenderType
    BY DEF Init, SenderType
  <1>3. QED BY <1>1, <1>2 DEF Init, TypeOK, Request, NoReq

LEMMA EnqueueType ==
  ASSUME RowType, NEW r \in Regs, Enqueue(r)
  PROVE  RowType'
  <1> USE DEF RowType, Enqueue, Status
  <1>1. status' \in [Regs -> Status] /\ attempts' \in [Regs -> Nat]
    OBVIOUS
  <1>2. due' \in [Regs -> BOOLEAN] /\ stale' \in [Regs -> BOOLEAN]
    OBVIOUS
  <1>3. cooled' \in [Regs -> BOOLEAN]
    OBVIOUS
  <1>4. QED BY <1>1, <1>2, <1>3

LEMMA SetRedeemedType ==
  ASSUME RowType, NEW r \in Regs, NEW via \in {"no", "attendee", "volunteer"},
         SetRedeemed(r, via)
  PROVE  RowType'
  BY DEF RowType, SetRedeemed

LEMMA RequeueType ==
  ASSUME RowType, NEW r \in Regs, NEW cooldown \in BOOLEAN,
         CanRequeue(r, cooldown), Requeue(r, cooldown)
  PROVE  RowType'
  <1> USE DEF RowType, Status, Requeue
  <1>1. gen' \in [Regs -> 1..MaxGen]
    BY CreditsAssumption
  <1>2. status' \in [Regs -> Status] /\ attempts' \in [Regs -> Nat]
    OBVIOUS
  <1>3. due' \in [Regs -> BOOLEAN] /\ stale' \in [Regs -> BOOLEAN]
    OBVIOUS
  <1>4. cooled' \in [Regs -> BOOLEAN]
    OBVIOUS
  <1>7. reclaims' \in [Regs -> Nat]
    OBVIOUS
  <1>5. redeemed' \in [Regs -> {"no", "attendee", "volunteer"}]
    OBVIOUS
  <1>6. QED BY <1>1, <1>2, <1>3, <1>4, <1>5, <1>7 DEF RowType

LEMMA InsertRowType ==
  ASSUME RowType, NEW r \in Regs, NEW st \in {"pending", "not_sent"},
         InsertRow(r, st)
  PROVE  RowType'
  BY DEF RowType, InsertRow, Status, rowVars

(* A request in progress has all its fields. *)
LEMMA Active ==
  ASSUME TypeOK, NEW c \in Clients, req[c].pc \notin {"idle", "select"}
  PROVE  req[c] \in ActiveRequest
  BY DEF TypeOK, Request, NoReq, Selecting

(* The statements a client runs keep the row's type. *)
LEMMA InsertFirstType ==
  ASSUME TypeOK, NEW c \in Clients, InsertFirst(c)
  PROVE  TypeOK'
  <1>1. req[c] \in ActiveRequest
    BY Active DEF InsertFirst
  <1>2. RowType'
    BY <1>1, InsertRowType DEF InsertFirst, TypeOK, ActiveRequest
  <1>3. req' \in [Clients -> Request]
    <2>1. [req[c] EXCEPT !.pc = "inserted", !.created = status[req[c].reg] = "none"]
            \in ActiveRequest
      BY <1>1 DEF ActiveRequest
    <2>2. req' = [req EXCEPT ![c] = [req[c] EXCEPT !.pc = "inserted",
                                        !.created = status[req[c].reg] = "none"]]
      BY DEF InsertFirst
    <2>3. QED BY <2>1, <2>2 DEF TypeOK, Request
  <1>4. QED
    BY <1>2, <1>3 DEF InsertFirst, TypeOK, regVars, senderVars, mailVars, SenderType

LEMMA FinishRow ==
  ASSUME TypeOK, NEW c \in Clients, Finish(c)
  PROVE  /\ req[c].reg \in Regs
         /\ \/ Enqueue(req[c].reg) /\ status[req[c].reg] \in {"none", "not_sent"}
            \/ \E cooldown \in BOOLEAN :
                 CanRequeue(req[c].reg, cooldown) /\ Requeue(req[c].reg, cooldown)
            \/ \E via \in {"no", "attendee", "volunteer"} : SetRedeemed(req[c].reg, via)
            \/ InsertRow(req[c].reg, "not_sent")
            \/ UNCHANGED rowVars
  <1>1. req[c].reg \in Regs
    BY Active DEF Finish, ActiveRequest
  <1>2. redeemed[req[c].reg] \in {"no", "attendee", "volunteer"}
    BY <1>1 DEF TypeOK, RowType
  <1>3. QED
    BY <1>1, <1>2 DEF Finish, UpsertOnCheckin, VolunteerConfirm, AttendeeRedeem, Requeue

LEMMA FinishType ==
  ASSUME TypeOK, NEW c \in Clients, Finish(c)
  PROVE  TypeOK'
  <1>1. RowType'
    <2>1. CASE UNCHANGED rowVars
      BY <2>1 DEF TypeOK, RowType, rowVars
    <2>2. QED
      BY <2>1, FinishRow, EnqueueType, RequeueType, SetRedeemedType, InsertRowType DEF TypeOK
  <1>2. req' \in [Clients -> Request]
    <2>1. req[c] \in ActiveRequest
      BY Active DEF Finish
    <2>2. [req[c] EXCEPT !.pc = "bulk"] \in ActiveRequest
      BY <2>1 DEF ActiveRequest
    <2>3. QED BY <2>2 DEF Finish, DoneWith, TypeOK, Request
  <1>3. QED
    BY <1>1, <1>2 DEF Finish, TypeOK, regVars, senderVars, mailVars, SenderType

LEMMA BulkNextType ==
  ASSUME TypeOK, NEW c \in Clients, NEW r \in Regs, BulkNext(c, r)
  PROVE  TypeOK'
  <1> DEFINE rest == req[c].todo \ {r}
  <1>1. req[c] \in ActiveRequest
    BY Active DEF BulkNext
  <1>2. [req[c] EXCEPT !.pc = "loaded", !.reg = r, !.todo = rest, !.created = FALSE]
          \in ActiveRequest
    BY <1>1 DEF ActiveRequest
  <1>3. [req[c] EXCEPT !.todo = rest] \in ActiveRequest
    BY <1>1 DEF ActiveRequest
  <1>4. req' \in [Clients -> Request]
    BY <1>2, <1>3 DEF BulkNext, TypeOK, Request
  <1>5. QED
    BY <1>4 DEF BulkNext, TypeOK, rowVars, regVars, senderVars, mailVars, RowType, SenderType

LEMMA LoadType ==
  ASSUME TypeOK, NEW c \in Clients, NEW r \in Regs, NEW op \in ClientOps, Load(c, op, r)
  PROVE  TypeOK'
  <1>1. [pc |-> "loaded", op |-> op, reg |-> r, todo |-> {}, created |-> FALSE]
             \in ActiveRequest
    BY DEF ActiveRequest, ClientOps
  <1>2. req' \in [Clients -> Request]
    BY <1>1 DEF Load, TypeOK, Request
  <1>3. QED
    BY <1>2 DEF Load, TypeOK, rowVars, regVars, senderVars, mailVars, RowType, SenderType

LEMMA BulkType ==
  ASSUME TypeOK, NEW c \in Clients,
         BulkSelect(c) \/ \E ids \in SUBSET Regs : BulkStart(c, ids)
  PROVE  TypeOK'
  <1>1. \A r \in Regs, ids \in SUBSET Regs : BulkOf(r, ids) \in ActiveRequest
    BY DEF BulkOf, ActiveRequest, ClientOps
  <1>2. BulkTargets \in SUBSET Regs
    BY DEF BulkTargets, TypeOK
  <1>3. \E q \in Request : req' = [req EXCEPT ![c] = q]
    <2>1. CASE BulkSelect(c)
      BY <1>1, <1>2, <2>1 DEF BulkSelect, Request
    <2>2. CASE \E ids \in SUBSET Regs : BulkStart(c, ids)
      BY <1>1, <2>2 DEF BulkStart, Request
    <2>3. QED BY <2>1, <2>2
  <1>4. req' \in [Clients -> Request]
    BY <1>3 DEF TypeOK
  <1>5. UNCHANGED <<rowVars, regVars, senderVars, mailVars>>
    BY DEF BulkSelect, BulkStart
  <1>6. QED
    BY <1>4, <1>5 DEF TypeOK, rowVars, regVars, senderVars, mailVars, RowType, SenderType

LEMMA AdminType == ASSUME TypeOK, AdminStep PROVE TypeOK'
  <1> USE DEF TypeOK, RowType, SenderType, rowVars, senderVars, mailVars
  <1>1. ASSUME NEW r \in Regs, CheckIn(r) \/ Uncheck(r) \/ SoftDelete(r) \/ Restore(r)
        PROVE  TypeOK'
    BY <1>1 DEF CheckIn, Uncheck, SoftDelete, Restore
  <1>2. ASSUME EditEvent PROVE TypeOK'
    <2>1. event' \in [enabled : BOOLEAN, claimUrl : BOOLEAN]
      BY <1>2 DEF EditEvent
    <2>2. QED BY <1>2, <2>1 DEF EditEvent
  <1>3. QED BY <1>1, <1>2 DEF AdminStep

LEMMA TimeType == ASSUME TypeOK, TimeStep PROVE TypeOK'
  <1> USE DEF TypeOK, RowType, SenderType, regVars, senderVars, mailVars
  <1>1. ASSUME NEW r \in Regs, GoesStale(r) PROVE TypeOK'
    BY <1>1 DEF GoesStale
  <1>2. ASSUME NEW r \in Regs, BackoffElapses(r) PROVE TypeOK'
    BY <1>2 DEF BackoffElapses
  <1>3. ASSUME NEW r \in Regs, CooldownElapses(r) PROVE TypeOK'
    BY <1>3 DEF CooldownElapses
  <1>4. QED BY <1>1, <1>2, <1>3 DEF TimeStep

LEMMA ReclaimType == ASSUME TypeOK, NEW s \in Senders, Reclaim(s) PROVE TypeOK'
  <1>1. RowType'
    <2> USE DEF TypeOK, RowType, Reclaim, Status
    <2>1. status' \in [Regs -> Status]
      OBVIOUS
    <2>2. stale' \in [Regs -> BOOLEAN]
      OBVIOUS
    <2>3. reclaims' \in [Regs -> Nat]
      OBVIOUS
    <2>4. QED BY <2>1, <2>2, <2>3
  <1>2. SenderType'
    BY DEF TypeOK, SenderType, Reclaim
  <1>3. QED BY <1>1, <1>2 DEF TypeOK, Reclaim, regVars, mailVars

LEMMA ClaimRowsType ==
  ASSUME TypeOK, NEW s \in Senders, NEW R \in SUBSET Due, ClaimRows(s, R)
  PROVE  TypeOK'
  <1>1. RowType'
    <2> USE DEF TypeOK, RowType, ClaimRows, Status
    <2>1. status' \in [Regs -> Status]
      OBVIOUS
    <2>2. stale' \in [Regs -> BOOLEAN]
      OBVIOUS
    <2>3. attempts' \in [Regs -> Nat]
      OBVIOUS
    <2>4. QED BY <2>1, <2>2, <2>3
  <1>2. SenderType'
    <2>1. {[reg |-> r, attempts |-> attempts[r] + 1, gen |-> gen[r]] : r \in R}
            \in SUBSET Claim
      BY DEF Claim, Due, TypeOK, RowType
    <2>2. QED BY <2>1 DEF TypeOK, SenderType, ClaimRows
  <1>3. QED BY <1>1, <1>2 DEF TypeOK, ClaimRows, regVars, mailVars

LEMMA RecordType == ASSUME TypeOK, NEW s \in Senders, Record(s) PROVE TypeOK'
  <1>1. PICK claim \in cur[s] :
          IF ~RecordApplies(claim) THEN UNCHANGED <<status, due, stale>>
          ELSE /\ status' = [status EXCEPT ![claim.reg] = Outcome(claim, result[s])]
               /\ due' = [due EXCEPT ![claim.reg] = ~WillRetry(claim, result[s])]
               /\ stale' = [stale EXCEPT ![claim.reg] = FALSE]
    BY DEF Record
  <1>2. RowType'
    <2> USE DEF TypeOK, RowType
    <2>1. status' \in [Regs -> Status]
      BY <1>1 DEF Status, Outcome
    <2>2. due' \in [Regs -> BOOLEAN]
      BY <1>1 DEF WillRetry
    <2>3. stale' \in [Regs -> BOOLEAN]
      BY <1>1
    <2>4. QED BY <2>1, <2>2, <2>3 DEF Record
  <1>3. SenderType'
    BY DEF TypeOK, SenderType, Record
  <1>4. QED BY <1>2, <1>3 DEF TypeOK, Record, regVars, mailVars

LEMMA LookupType ==
  ASSUME TypeOK, NEW s \in Senders, NEW claim \in batch[s], Lookup(s, claim)
  PROVE  TypeOK'
  <1>1. SenderType'
    BY DEF TypeOK, SenderType, Lookup, LookupOutcomes
  <1>2. QED
    BY <1>1 DEF TypeOK, RowType, Lookup, rowVars, regVars, mailVars

LEMMA CallType ==
  ASSUME TypeOK, NEW s \in Senders,
         \/ SendWithoutKey(s) \/ Call(s) \/ ReplyOk(s) \/ ReplyError(s)
         \/ Timeout(s) \/ Abandon(s)
  PROVE  TypeOK'
  <1> USE DEF TypeOK, SenderType, RowType, rowVars, regVars, mailVars
  <1>1. CASE SendWithoutKey(s)
    BY <1>1 DEF SendWithoutKey
  <1>2. CASE Call(s)
    <2>1. {KeyOf(claim) : claim \in cur[s]} \subseteq Key
      BY DEF KeyOf, Key, Claim
    <2>2. QED BY <1>2, <2>1 DEF Call
  <1>3. CASE ReplyOk(s)
    BY <1>3 DEF ReplyOk
  <1>4. CASE ReplyError(s)
    BY <1>4 DEF ReplyError
  <1>5. CASE Timeout(s)
    BY <1>5 DEF Timeout
  <1>6. CASE Abandon(s)
    BY <1>6 DEF Abandon
  <1>7. QED BY <1>1, <1>2, <1>3, <1>4, <1>5, <1>6

LEMMA AcceptType == ASSUME TypeOK, NEW k \in wire, Accept(k) PROVE TypeOK'
  BY DEF TypeOK, SenderType, RowType, Accept, rowVars, regVars, senderVars

(* Every variable keeps its type in every reachable state. *)
THEOREM TypeCorrect == Spec => []TypeOK
  <1>1. ASSUME TypeOK, [Next]_vars PROVE TypeOK'
    <2>1. CASE ClientStep
      BY <1>1, <2>1, LoadType, BulkType, BulkNextType, InsertFirstType, FinishType
      DEF ClientStep, ClientOps
    <2>2. CASE \E s \in Senders : SenderStep(s) \/ Abandon(s)
      BY <1>1, <2>2, ReclaimType, ClaimRowsType, LookupType, CallType, RecordType
      DEF SenderStep
    <2>3. CASE UNCHANGED vars
      BY <1>1, <2>3 DEF vars, rowVars, regVars, senderVars, mailVars, TypeOK,
                        RowType, SenderType
    <2>4. QED
      BY <1>1, <2>1, <2>2, <2>3, AdminType, TimeType, AcceptType DEF Next
  <1>2. QED BY InitType, <1>1, PTL DEF Spec

-----------------------------------------------------------------------------
(* The queue invariant.  A statement on a row that leaves the workers and   *)
(* the provider alone keeps it when it closes no generation, keeps or       *)
(* freshly opens the generation of a row it queues, and settles nothing.    *)
LEMMA InitInv == Init => QueueInv
  BY DEF Init, QueueInv, KeysOpened, HeldOpened, OkMeansAccepted, SendingHasAttempt,
         SentWasAccepted, QueuedIsFresh, Held

LEMMA RowStep ==
  ASSUME TypeOK, QueueInv, RowType', UNCHANGED <<senderVars, mailVars>>,
         NEW r \in Regs,
         \A q \in Regs \ {r} :
           status'[q] = status[q] /\ attempts'[q] = attempts[q] /\ gen'[q] = gen[q],
         \/ /\ status'[r] = status[r] /\ attempts'[r] = attempts[r]
            /\ gen'[r] = gen[r]
         \/ /\ status[r] \in {"none", "not_sent"} /\ status'[r] \in {"not_sent", "pending"}
            /\ gen'[r] = gen[r]
         \/ /\ status[r] \in {"sent", "failed"} /\ status'[r] = "pending"
            /\ gen'[r] = gen[r] + 1
  PROVE  QueueInv'
  <1> USE DEF TypeOK, RowType, SenderType, senderVars, mailVars
  <1>1. \A q \in Regs : /\ Opened(q) \in Nat /\ Opened(q)' \in Nat
                         /\ Opened(q) <= Opened(q)'
    BY DEF Opened, Status
  <1>2. KeysOpened'
    BY <1>1 DEF QueueInv, KeysOpened, Key
  <1>3. HeldOpened'
    BY <1>1 DEF QueueInv, HeldOpened, Held, Claim
  <1>4. OkMeansAccepted'
    BY DEF QueueInv, OkMeansAccepted, KeyOf
  <1>5. SendingHasAttempt' /\ SentWasAccepted'
    BY DEF QueueInv, SendingHasAttempt, SentWasAccepted
  <1>6. QueuedIsFresh'
    <2> SUFFICES ASSUME NEW q \in Regs, status'[q] = "pending", attempts'[q] = 0
                 PROVE  /\ <<q, gen'[q]>> \notin wire \cup accepted
                        /\ \A s \in Senders : \A claim \in Held(s) :
                             KeyOf(claim) # <<q, gen'[q]>>
      BY DEF QueuedIsFresh, Held, KeyOf
    <2>1. CASE status[q] = "pending" /\ attempts[q] = 0 /\ gen'[q] = gen[q]
      BY <2>1 DEF QueueInv, QueuedIsFresh
    <2>2. CASE gen'[q] > Opened(q)
      BY <2>2, <1>1 DEF QueueInv, KeysOpened, HeldOpened, KeyOf, Held, Claim
    <2>3. QED
      BY <2>1, <2>2 DEF Opened
  <1>7. QED
    BY <1>2, <1>3, <1>4, <1>5, <1>6 DEF QueueInv

LEMMA ClientInv ==
  ASSUME TypeOK, QueueInv, NEW c \in Clients, InsertFirst(c) \/ Finish(c)
  PROVE  QueueInv'
  <1>1. /\ RowType' /\ req[c].reg \in Regs
    BY InsertFirstType, FinishType, Active DEF TypeOK, ActiveRequest, InsertFirst, Finish
  <1> DEFINE r == req[c].reg
  <1> USE DEF TypeOK, RowType
  <1>2. ASSUME NEW st \in {"pending", "not_sent"}, InsertRow(r, st),
               UNCHANGED <<senderVars, mailVars>>
        PROVE  QueueInv'
    BY <1>1, <1>2, RowStep DEF InsertRow, rowVars
  <1>3. CASE InsertFirst(c)
    BY <1>2, <1>3 DEF InsertFirst
  <1>4. CASE Finish(c)
    <2>1. UNCHANGED <<senderVars, mailVars>>
      BY <1>4 DEF Finish
    <2>2. CASE Enqueue(r) /\ status[r] \in {"none", "not_sent"}
      BY <1>1, <2>1, <2>2, RowStep DEF Enqueue
    <2>3. ASSUME NEW cooldown \in BOOLEAN, CanRequeue(r, cooldown), Requeue(r, cooldown)
          PROVE  QueueInv'
      BY <1>1, <2>1, <2>3, RowStep DEF CanRequeue, Requeue
    <2>4. ASSUME NEW via \in {"no", "attendee", "volunteer"}, SetRedeemed(r, via)
          PROVE  QueueInv'
      BY <1>1, <2>1, <2>4, RowStep DEF SetRedeemed
    <2>5. CASE UNCHANGED rowVars
      BY <1>1, <2>1, <2>5, RowStep DEF rowVars
    <2>6. QED
      BY <1>2, <1>4, <2>1, <2>2, <2>3, <2>4, <2>5, FinishRow
  <1>5. QED BY <1>3, <1>4

(* A step that touches none of what the invariant speaks of. *)
LEMMA OtherInv ==
  ASSUME TypeOK, QueueInv,
         UNCHANGED <<status, attempts, gen, batch, cur, result, wire, accepted>>
  PROVE  QueueInv'
  BY DEF QueueInv, KeysOpened, HeldOpened, OkMeansAccepted, SendingHasAttempt,
         SentWasAccepted, QueuedIsFresh, Held, Opened, KeyOf

LEMMA ReclaimInv ==
  ASSUME TypeOK, QueueInv, NEW s \in Senders, Reclaim(s)
  PROVE  QueueInv'
  <1> USE DEF TypeOK, RowType, Reclaim, mailVars
  <1>1. \A q \in Regs : Opened(q)' = Opened(q)
    BY DEF Opened
  <1>2. KeysOpened' /\ HeldOpened'
    BY <1>1 DEF QueueInv, KeysOpened, HeldOpened, Held, SenderType, Key, Claim
  <1>3. OkMeansAccepted' /\ SendingHasAttempt' /\ SentWasAccepted'
    BY DEF QueueInv, OkMeansAccepted, SendingHasAttempt, SentWasAccepted, KeyOf
  <1>4. QueuedIsFresh'
    BY DEF QueueInv, SendingHasAttempt, QueuedIsFresh, Held, KeyOf
  <1>5. QED BY <1>2, <1>3, <1>4 DEF QueueInv

LEMMA ClaimRowsInv ==
  ASSUME TypeOK, QueueInv, NEW s \in Senders, NEW R \in SUBSET Due, ClaimRows(s, R)
  PROVE  QueueInv'
  <1> DEFINE new == {[reg |-> r, attempts |-> attempts[r] + 1, gen |-> gen[r]] : r \in R}
  <1> USE DEF TypeOK, RowType, mailVars
  <1>1. R \subseteq Regs /\ \A r \in R : status[r] = "pending"
    BY DEF Due
  <1>2. \A q \in Regs : Opened(q)' = Opened(q)
    BY <1>1 DEF Opened, ClaimRows
  <1>3. \A t \in Senders : Held(t)' \subseteq Held(t) \cup new
    BY DEF ClaimRows, Held, SenderType
  <1>4. KeysOpened'
    BY <1>2 DEF QueueInv, KeysOpened, Key, ClaimRows
  <1>5. HeldOpened'
    <2>1. \A claim \in new : claim.reg \in Regs /\ claim.gen \in 1..Opened(claim.reg)
      BY <1>1 DEF Opened
    <2>2. \A t \in Senders : \A claim \in Held(t) \cup new :
            claim.reg \in Regs /\ claim.gen \in 1..Opened(claim.reg)
      BY <2>1 DEF QueueInv, HeldOpened, Held, SenderType, Claim
    <2>3. QED BY <1>2, <1>3, <2>2 DEF HeldOpened
  <1>6. OkMeansAccepted' /\ SentWasAccepted'
    BY DEF QueueInv, OkMeansAccepted, SentWasAccepted, KeyOf, ClaimRows
  <1>7. SendingHasAttempt'
    BY DEF QueueInv, SendingHasAttempt, ClaimRows
  <1>8. QueuedIsFresh'
    <2> SUFFICES ASSUME NEW q \in Regs, status'[q] = "pending", attempts'[q] = 0
                 PROVE  /\ <<q, gen'[q]>> \notin wire \cup accepted
                        /\ \A t \in Senders : \A claim \in Held(t)' :
                             KeyOf(claim) # <<q, gen'[q]>>
      BY DEF QueuedIsFresh, KeyOf, ClaimRows
    <2>1. q \notin R /\ status[q] = "pending" /\ attempts[q] = 0 /\ gen'[q] = gen[q]
      BY DEF ClaimRows
    <2>2. \A claim \in new : KeyOf(claim) # <<q, gen[q]>>
      BY <2>1 DEF KeyOf
    <2>3. QED BY <1>3, <2>1, <2>2 DEF QueueInv, QueuedIsFresh
  <1>9. QED BY <1>4, <1>5, <1>6, <1>7, <1>8 DEF QueueInv

(* Worker steps that only move or drop claims and set a verdict other than ok. *)
LEMMA HeldShrinks ==
  ASSUME TypeOK, QueueInv, UNCHANGED <<status, attempts, gen, accepted>>,
         wire' \subseteq wire, NEW s \in Senders,
         \A t \in Senders : Held(t)' \subseteq Held(t),
         \A t \in Senders \ {s} : cur'[t] = cur[t] /\ result'[t] = result[t],
         result'[s] # "ok"
  PROVE  QueueInv'
  <1>1. KeysOpened' /\ HeldOpened'
    BY DEF QueueInv, KeysOpened, HeldOpened, Opened
  <1>2. OkMeansAccepted' /\ SentWasAccepted' /\ SendingHasAttempt'
    BY DEF QueueInv, OkMeansAccepted, SentWasAccepted, SendingHasAttempt, KeyOf
  <1>3. QueuedIsFresh'
    BY DEF QueueInv, QueuedIsFresh, KeyOf
  <1>4. QED BY <1>1, <1>2, <1>3 DEF QueueInv

LEMMA WorkerInv ==
  ASSUME TypeOK, QueueInv, NEW s \in Senders,
         \/ \E claim \in batch[s] : Lookup(s, claim)
         \/ SendWithoutKey(s) \/ ReplyError(s) \/ Timeout(s) \/ Abandon(s)
  PROVE  QueueInv'
  <1> USE DEF TypeOK, SenderType, Held, rowVars, mailVars
  <1>1. ASSUME NEW claim \in batch[s], Lookup(s, claim) PROVE QueueInv'
    BY <1>1, HeldShrinks DEF Lookup, LookupOutcomes
  <1>2. CASE SendWithoutKey(s)
    BY <1>2, HeldShrinks DEF SendWithoutKey
  <1>3. CASE ReplyError(s)
    BY <1>3, HeldShrinks DEF ReplyError
  <1>4. CASE Timeout(s)
    BY <1>4, HeldShrinks DEF Timeout
  <1>5. CASE Abandon(s)
    BY <1>5, HeldShrinks DEF Abandon
  <1>6. QED BY <1>1, <1>2, <1>3, <1>4, <1>5

LEMMA MailInv ==
  ASSUME TypeOK, QueueInv, NEW s \in Senders,
         Call(s) \/ ReplyOk(s) \/ \E k \in wire : Accept(k)
  PROVE  QueueInv'
  <1> USE DEF TypeOK, SenderType
  <1>1. CASE Call(s)
    <2> USE <1>1 DEF Call, rowVars
    <2>1. \A claim \in cur[s] : claim \in Held(s) /\ claim \in Claim
      BY DEF Held
    <2>2. KeysOpened'
      BY <2>1 DEF QueueInv, KeysOpened, HeldOpened, KeyOf, Opened
    <2>3. HeldOpened' /\ OkMeansAccepted' /\ SentWasAccepted' /\ SendingHasAttempt'
      BY DEF QueueInv, HeldOpened, OkMeansAccepted, SentWasAccepted, SendingHasAttempt,
             Held, KeyOf, Opened
    <2>4. QueuedIsFresh'
      BY <2>1 DEF QueueInv, QueuedIsFresh, Held, KeyOf
    <2>5. QED BY <2>2, <2>3, <2>4 DEF QueueInv
  <1>2. CASE ReplyOk(s)
    <2> USE <1>2 DEF ReplyOk, rowVars, mailVars
    <2>1. KeysOpened' /\ HeldOpened' /\ SentWasAccepted' /\ SendingHasAttempt' /\ QueuedIsFresh'
      BY DEF QueueInv, KeysOpened, HeldOpened, SentWasAccepted, SendingHasAttempt,
             QueuedIsFresh, Held, Opened, KeyOf
    <2>2. OkMeansAccepted'
      BY DEF QueueInv, OkMeansAccepted, KeyOf
    <2>3. QED BY <2>1, <2>2 DEF QueueInv
  <1>3. ASSUME NEW k \in wire, Accept(k) PROVE QueueInv'
    BY <1>3 DEF Accept, rowVars, senderVars, QueueInv, KeysOpened, HeldOpened, OkMeansAccepted,
                SentWasAccepted, SendingHasAttempt, QueuedIsFresh, Held, Opened, KeyOf
  <1>4. QED BY <1>1, <1>2, <1>3

LEMMA RecordInv ==
  ASSUME TypeOK, QueueInv, NEW s \in Senders, Record(s)
  PROVE  QueueInv'
  <1> USE DEF TypeOK, RowType, SenderType, mailVars
  <1>1. PICK claim \in cur[s] :
          IF ~RecordApplies(claim) THEN UNCHANGED <<status, due, stale>>
          ELSE status' = [status EXCEPT ![claim.reg] = Outcome(claim, result[s])]
    BY DEF Record
  <1>2. claim \in Claim /\ claim.reg \in Regs
    BY DEF Claim
  <1>3. \A t \in Senders : Held(t)' \subseteq Held(t)
    BY DEF Record, Held
  <1>4. CASE ~RecordApplies(claim)
    BY <1>1, <1>3, <1>4, HeldShrinks DEF Record
  <1>5. CASE RecordApplies(claim)
    <2> USE <1>1, <1>2, <1>5 DEF Record, RecordApplies
    <2>1. status'[claim.reg] \in {"sent", "pending", "failed"}
      BY DEF Outcome
    <2>2. \A q \in Regs : Opened(q)' = Opened(q)
      BY <2>1 DEF Opened
    <2>3. KeysOpened' /\ HeldOpened'
      BY <1>3, <2>2 DEF QueueInv, KeysOpened, HeldOpened, Key, Claim, Held
    <2>4. OkMeansAccepted' /\ SendingHasAttempt'
      BY <2>1 DEF QueueInv, OkMeansAccepted, SendingHasAttempt, KeyOf
    <2>5. SentWasAccepted'
      <3>1. Outcome(claim, result[s]) = "sent" => <<claim.reg, gen[claim.reg]>> \in accepted
        BY DEF Outcome, QueueInv, OkMeansAccepted, KeyOf
      <3>2. QED BY <3>1 DEF QueueInv, SentWasAccepted
    <2>6. QueuedIsFresh'
      BY <1>3 DEF QueueInv, QueuedIsFresh, SendingHasAttempt, KeyOf
    <2>7. QED BY <2>3, <2>4, <2>5, <2>6 DEF QueueInv
  <1>6. QED BY <1>4, <1>5

LEMMA QueueInductive == Spec => [](TypeOK /\ QueueInv)
  <1>1. ASSUME TypeOK, QueueInv, [Next]_vars PROVE QueueInv'
    <2>1. CASE ClientStep
      BY <1>1, <2>1, ClientInv, OtherInv
      DEF ClientStep, Load, BulkStart, BulkSelect, BulkNext, rowVars, senderVars, mailVars
    <2>2. CASE AdminStep \/ TimeStep \/ UNCHANGED vars
      BY <1>1, <2>2, OtherInv
      DEF AdminStep, CheckIn, Uncheck, SoftDelete, Restore, EditEvent, TimeStep,
          GoesStale, BackoffElapses, CooldownElapses, vars, rowVars, senderVars, mailVars
    <2>3. ASSUME NEW s \in Senders, SenderStep(s) \/ Abandon(s) PROVE QueueInv'
      BY <1>1, <2>3, ReclaimInv, ClaimRowsInv, WorkerInv, MailInv, RecordInv DEF SenderStep
    <2>4. ASSUME NEW k \in wire, Accept(k) PROVE QueueInv'
      BY <1>1, <2>4 DEF Accept, rowVars, senderVars, QueueInv, KeysOpened, HeldOpened,
                OkMeansAccepted, SentWasAccepted, SendingHasAttempt, QueuedIsFresh,
                Held, Opened, KeyOf
    <2>5. QED BY <1>1, <2>1, <2>2, <2>3, <2>4 DEF Next
  <1>2. QED BY InitInv, TypeCorrect, <1>1, PTL DEF Spec

(* A row says "sent" only if the provider took the mail of its generation, in *)
(* every reachable state, for any number of rows, workers, crashes and        *)
(* resends.                                                                 *)
THEOREM SentTruthfully == Spec => []SentWasAccepted
  <1>1. QueueInv => SentWasAccepted
    BY DEF QueueInv
  <1>2. QED BY QueueInductive, <1>1, PTL

(* And what is queued has not been taken yet: no worker that comes late puts   *)
(* a mail that went out back in the queue.                                   *)
THEOREM QueuedFreshly == Spec => []QueuedIsFresh
  <1>1. QueueInv => QueuedIsFresh
    BY DEF QueueInv
  <1>2. QED BY QueueInductive, <1>1, PTL

-----------------------------------------------------------------------------
(* An attendee gets at most one mail per generation opened for them: the     *)
(* accepted keys of a registration are among its generations.                *)
THEOREM OneMail == Spec => []OneMailPerGeneration
  <1>1. ASSUME TypeOK, KeysOpened PROVE OneMailPerGeneration
    <2> SUFFICES ASSUME NEW r \in Regs
                 PROVE  Cardinality({k \in accepted : k[1] = r}) <= Opened(r)
      BY DEF OneMailPerGeneration
    <2> DEFINE mine == {k \in accepted : k[1] = r}
               f == [g \in 1..Opened(r) |-> <<r, g>>]
    <2>1. Opened(r) \in Nat
      BY <1>1 DEF Opened, TypeOK, RowType
    <2>2. IsFiniteSet(1..Opened(r)) /\ Cardinality(1..Opened(r)) = Opened(r)
      BY <2>1, FS_Interval
    <2>3. f \in Surjection(1..Opened(r), {<<r, g>> : g \in 1..Opened(r)})
      BY DEF Surjection
    <2>4. IsFiniteSet({<<r, g>> : g \in 1..Opened(r)})
          /\ Cardinality({<<r, g>> : g \in 1..Opened(r)}) <= Opened(r)
      BY <2>2, <2>3, FS_Surjection
    <2>5. mine \subseteq {<<r, g>> : g \in 1..Opened(r)}
      BY <1>1 DEF KeysOpened, TypeOK, Key
    <2>6. Cardinality(mine) <= Cardinality({<<r, g>> : g \in 1..Opened(r)})
      BY <2>4, <2>5, FS_Subset
    <2>7. Cardinality(mine) \in Nat /\ Cardinality({<<r, g>> : g \in 1..Opened(r)}) \in Nat
      BY <2>4, <2>5, FS_Subset, FS_CardinalityType
    <2>8. QED BY <2>1, <2>4, <2>6, <2>7
  <1>2. QED BY QueueInductive, <1>1, PTL DEF QueueInv

-----------------------------------------------------------------------------
(* The queue implements CreditsPromise: a step of one row opens or settles   *)
(* its generation or leaves the promise alone, Accept delivers, and every    *)
(* other step is a stutter.                                                  *)
LEMMA PhaseOf ==
  ASSUME RowType, NEW r \in Regs
  PROVE  /\ Phase[r] = "quiet" <=> status[r] \in {"none", "not_sent"}
         /\ Phase[r] = "open" <=> status[r] \in {"pending", "sending"}
         /\ Phase[r] = "sent" <=> status[r] = "sent"
         /\ Phase[r] = "failed" <=> status[r] = "failed"
  BY DEF Phase, RowType, Status

(* Only the phase of r changes when only the status of r does. *)
LEMMA PhaseStep ==
  ASSUME RowType, RowType', NEW r \in Regs,
         \A q \in Regs \ {r} : status'[q] = status[q]
  PROVE  Phase' = [Phase EXCEPT ![r] = Phase'[r]]
  BY DEF Phase

LEMMA StutterStep ==
  ASSUME UNCHANGED <<gen, accepted>>, RowType, RowType',
         \A q \in Regs : Phase'[q] = Phase[q]
  PROVE  UNCHANGED Promise!promiseVars
  BY DEF Promise!promiseVars, Phase

LEMMA RowPromise ==
  ASSUME TypeOK, RowType', UNCHANGED accepted, NEW r \in Regs,
         \A q \in Regs \ {r} : status'[q] = status[q],
         \/ UNCHANGED <<status, gen>>
         \/ /\ status[r] \in {"none", "not_sent"} /\ status'[r] \in {"not_sent", "pending"}
            /\ gen' = gen
         \/ /\ status[r] \in {"sent", "failed"} /\ status'[r] = "pending"
            /\ gen' = [gen EXCEPT ![r] = @ + 1]
  PROVE  [Promise!Next]_(Promise!promiseVars)
  <1> USE DEF TypeOK
  <1>1. CASE UNCHANGED <<status, gen>>
    BY <1>1 DEF Phase, Promise!promiseVars
  <1>2. CASE status[r] \in {"none", "not_sent"} /\ status'[r] = "not_sent" /\ gen' = gen
    BY <1>2, PhaseOf, StutterStep DEF Phase
  <1>3. CASE /\ status[r] \in {"none", "not_sent", "sent", "failed"}
             /\ status'[r] = "pending"
             /\ gen' = [gen EXCEPT ![r] =
                         IF status[r] \in {"none", "not_sent"} THEN @ ELSE @ + 1]
    <2>1. Phase[r] # "open" /\ Phase'[r] = "open"
          /\ (Phase[r] = "quiet" <=> status[r] \in {"none", "not_sent"})
      BY <1>3, PhaseOf DEF Phase
    <2>2. Promise!Open(r)
      BY <1>3, <2>1, PhaseStep DEF Promise!Open
    <2>3. QED BY <2>2 DEF Promise!Next
  <1>4. QED BY <1>1, <1>2, <1>3 DEF RowType

LEMMA ClientPromise ==
  ASSUME TypeOK, NEW c \in Clients, InsertFirst(c) \/ Finish(c)
  PROVE  [Promise!Next]_(Promise!promiseVars)
  <1>1. /\ RowType' /\ req[c].reg \in Regs /\ UNCHANGED accepted
    BY InsertFirstType, FinishType, Active
    DEF TypeOK, ActiveRequest, InsertFirst, Finish, mailVars
  <1> DEFINE r == req[c].reg
  <1> USE DEF TypeOK, RowType
  <1>2. ASSUME NEW st \in {"pending", "not_sent"}, InsertRow(r, st)
        PROVE  [Promise!Next]_(Promise!promiseVars)
    BY <1>1, <1>2, RowPromise DEF InsertRow, rowVars
  <1>3. CASE InsertFirst(c)
    BY <1>2, <1>3 DEF InsertFirst
  <1>4. CASE Finish(c)
    <2>1. CASE Enqueue(r) /\ status[r] \in {"none", "not_sent"}
      BY <1>1, <2>1, RowPromise DEF Enqueue
    <2>2. ASSUME NEW cooldown \in BOOLEAN, CanRequeue(r, cooldown), Requeue(r, cooldown)
          PROVE  [Promise!Next]_(Promise!promiseVars)
      BY <1>1, <2>2, RowPromise DEF CanRequeue, Requeue
    <2>3. CASE UNCHANGED <<status, gen>>
      BY <1>1, <2>3, RowPromise
    <2>4. QED
      BY <1>2, <1>4, <2>1, <2>2, <2>3, FinishRow DEF SetRedeemed, rowVars
  <1>5. QED BY <1>3, <1>4

LEMMA SenderPromise ==
  ASSUME TypeOK, TypeOK', QueueInv, NEW s \in Senders, SenderStep(s) \/ Abandon(s)
  PROVE  [Promise!Next]_(Promise!promiseVars)
  <1> USE DEF TypeOK, mailVars
  <1>1. CASE Reclaim(s)
    BY <1>1, StutterStep DEF Reclaim, Phase
  <1>2. ASSUME NEW R \in SUBSET Due, ClaimRows(s, R)
        PROVE  [Promise!Next]_(Promise!promiseVars)
    BY <1>2, StutterStep DEF ClaimRows, Phase, Due
  <1>3. CASE Record(s)
    <2>1. PICK claim \in cur[s] :
            IF ~RecordApplies(claim) THEN UNCHANGED <<status, due, stale>>
            ELSE status' = [status EXCEPT ![claim.reg] = Outcome(claim, result[s])]
      BY <1>3 DEF Record
    <2>2. claim.reg \in Regs /\ UNCHANGED <<gen, accepted>>
      BY <1>3 DEF Record, SenderType, Claim
    <2>3. CASE UNCHANGED status
      BY <2>2, <2>3 DEF Phase, Promise!promiseVars
    <2>4. CASE RecordApplies(claim) /\ Outcome(claim, result[s]) = "pending"
      BY <2>1, <2>2, <2>4, StutterStep DEF RecordApplies, Phase, RowType
    <2>5. CASE RecordApplies(claim) /\ Outcome(claim, result[s]) \in {"sent", "failed"}
      <3> DEFINE r == claim.reg
                 outcome == Outcome(claim, result[s])
      <3>1. /\ \A q \in Regs \ {r} : status'[q] = status[q]
            /\ status[r] = "sending" /\ status'[r] = outcome /\ gen[r] = claim.gen
        BY <2>1, <2>2, <2>5 DEF RecordApplies, RowType
      <3>2. Phase[r] = "open" /\ Phase'[r] = outcome
        BY <2>2, <2>5, <3>1 DEF Phase
      <3>3. Phase' = [Phase EXCEPT ![r] = outcome]
        BY <2>2, <3>1, <3>2, PhaseStep
      <3>4. outcome = "sent" => <<r, gen[r]>> \in accepted
        BY <3>1 DEF Outcome, QueueInv, OkMeansAccepted, KeyOf
      <3>5. Promise!Settle(r, outcome)
        BY <2>2, <3>2, <3>3, <3>4 DEF Promise!Settle
      <3>6. QED BY <2>2, <2>5, <3>5 DEF Promise!Next
    <2>6. QED BY <2>1, <2>3, <2>4, <2>5 DEF Outcome
  <1>4. CASE UNCHANGED <<status, gen, accepted>>
    BY <1>4 DEF Phase, Promise!promiseVars
  <1>5. QED
    BY <1>1, <1>2, <1>3, <1>4
    DEF SenderStep, Lookup, SendWithoutKey, Call, ReplyOk, ReplyError, Timeout, Abandon, rowVars

(* Every behaviour of the queue, its workers and the provider is one that    *)
(* CreditsPromise allows.                                                    *)
THEOREM QueueKeepsPromise == Spec => KeepsPromise
  <1>1. Init => Promise!Init
    BY DEF Init, Promise!Init, Phase
  <1>2. ASSUME TypeOK, TypeOK', QueueInv, [Next]_vars
        PROVE  [Promise!Next]_(Promise!promiseVars)
    <2>1. CASE UNCHANGED <<status, gen, accepted>>
      BY <2>1 DEF Phase, Promise!promiseVars
    <2>2. CASE ClientStep
      BY <1>2, <2>1, <2>2, ClientPromise
      DEF ClientStep, Load, BulkStart, BulkSelect, BulkNext, rowVars, mailVars
    <2>3. CASE AdminStep \/ TimeStep \/ UNCHANGED vars
      BY <2>1, <2>3
      DEF AdminStep, CheckIn, Uncheck, SoftDelete, Restore, EditEvent, TimeStep,
          GoesStale, BackoffElapses, CooldownElapses, vars, rowVars, mailVars
    <2>4. ASSUME NEW k \in wire, Accept(k)
          PROVE  [Promise!Next]_(Promise!promiseVars)
      <3>1. PICK r \in Regs, g \in Nat : k = <<r, g>>
        BY <1>2 DEF TypeOK, Key
      <3>2. g \in 1..Opened(r)
        BY <1>2, <3>1 DEF QueueInv, KeysOpened
      <3>3. status[r] \notin {"none", "not_sent"} /\ g \in 1..gen[r]
        BY <3>2 DEF Opened
      <3>4. CASE k \in accepted
        BY <2>1, <2>4, <3>4 DEF Accept, rowVars
      <3>5. CASE k \notin accepted
        <4>1. Phase[r] # "quiet"
          BY <1>2, <3>3, PhaseOf DEF TypeOK
        <4>2. UNCHANGED <<Phase, gen>>
          BY <2>4 DEF Accept, rowVars, Phase
        <4>3. Promise!Deliver(r, g)
          BY <2>4, <3>1, <3>3, <3>5, <4>1, <4>2 DEF Accept, Promise!Deliver
        <4>4. QED BY <3>3, <4>3 DEF Promise!Next
      <3>6. QED BY <3>4, <3>5
    <2>5. ASSUME NEW s \in Senders, SenderStep(s) \/ Abandon(s)
          PROVE  [Promise!Next]_(Promise!promiseVars)
      BY <1>2, <2>5, SenderPromise
    <2>6. QED BY <1>2, <2>2, <2>3, <2>4, <2>5 DEF Next
  <1>3. QED
    BY QueueInductive, <1>1, <1>2, PTL DEF Spec, KeepsPromise, Promise!Spec

-----------------------------------------------------------------------------
(* Exclusive claims: a held row is `sending` and fresh, hence out of reach   *)
(* of Reclaim, ClaimRows and the HTTP handlers.                              *)
LEMMA HeldKept ==
  ASSUME TypeOK, ClaimInv,
         \A s \in Senders : Held(s)' \subseteq Held(s),
         \A s \in Senders : batch'[s] \cap cur'[s] = {},
         \A r \in Regs : (\E s \in Senders : \E claim \in Held(s)' : claim.reg = r)
                          => status'[r] = status[r] /\ (stale'[r] => stale[r])
  PROVE  ClaimInv'
  <1> USE DEF ClaimInv
  <1>1. \A s \in Senders : \A claim \in Held(s) : claim.reg \in Regs
    BY DEF TypeOK, SenderType, Held, Claim
  <1>2. \A s \in Senders : \A claim \in Held(s)' :
          status'[claim.reg] = "sending" /\ ~stale'[claim.reg]
    BY <1>1
  <1>3. \A s, t \in Senders : \A c \in Held(s)', d \in Held(t)' :
          c.reg = d.reg => c = d /\ s = t
    OBVIOUS
  <1>4. QED BY <1>2, <1>3

LEMMA ClientClaims ==
  ASSUME TypeOK, ClaimInv, NEW c \in Clients, InsertFirst(c) \/ Finish(c)
  PROVE  ClaimInv'
  <1> DEFINE r == req[c].reg
  <1>1. UNCHANGED senderVars
    BY DEF InsertFirst, Finish
  <1>2. \A s \in Senders : Held(s)' = Held(s)
    BY <1>1 DEF Held, senderVars
  <1>3. r \in Regs
    BY Active DEF ActiveRequest, InsertFirst, Finish
  <1>4. \A q \in Regs : status[q] = "sending" => status'[q] = status[q] /\ (stale'[q] => stale[q])
    <2> USE <1>3 DEF TypeOK, RowType
    <2>1. ASSUME NEW st \in {"pending", "not_sent"}, InsertRow(r, st) PROVE <1>4
      BY <2>1 DEF InsertRow, rowVars
    <2>2. CASE Enqueue(r) /\ status[r] \in {"none", "not_sent"}
      BY <2>2 DEF Enqueue
    <2>3. ASSUME NEW cooldown \in BOOLEAN, CanRequeue(r, cooldown), Requeue(r, cooldown)
          PROVE  <1>4
      BY <2>3 DEF CanRequeue, Requeue
    <2>4. ASSUME NEW via \in {"no", "attendee", "volunteer"}, SetRedeemed(r, via)
          PROVE  <1>4
      BY <2>4 DEF SetRedeemed
    <2>5. CASE UNCHANGED rowVars
      BY <2>5 DEF rowVars
    <2>6. QED
      BY <2>1, <2>2, <2>3, <2>4, <2>5, FinishRow DEF InsertFirst
  <1>5. \A s \in Senders : batch'[s] \cap cur'[s] = {}
    BY <1>1 DEF ClaimInv, senderVars
  <1>6. QED
    BY <1>2, <1>4, <1>5, HeldKept DEF ClaimInv

LEMMA SenderClaims ==
  ASSUME TypeOK, ClaimInv, NEW s \in Senders, SenderStep(s) \/ Abandon(s)
  PROVE  ClaimInv'
  <1> USE DEF TypeOK, RowType, SenderType
  <1>1. \A t \in Senders : \A claim \in Held(t) : claim.reg \in Regs
    BY DEF Held, Claim
  <1>2. CASE Reclaim(s)
    <2>1. \A t \in Senders : Held(t)' = Held(t) /\ batch'[t] \cap cur'[t] = {}
      BY <1>2 DEF Reclaim, Held, ClaimInv
    <2>2. \A t \in Senders : \A claim \in Held(t) :
            status'[claim.reg] = status[claim.reg] /\ stale'[claim.reg] = stale[claim.reg]
      BY <1>1, <1>2 DEF Reclaim, ClaimInv
    <2>3. QED BY <2>1, <2>2, HeldKept
  <1>3. ASSUME NEW R \in SUBSET Due, ClaimRows(s, R) PROVE ClaimInv'
    <2> DEFINE new == {[reg |-> r, attempts |-> attempts[r] + 1, gen |-> gen[r]] : r \in R}
    <2> USE <1>3 DEF ClaimRows
    <2>1. \A r \in R : r \in Regs /\ status[r] = "pending"
      BY DEF Due
    <2>2. \A t \in Senders : \A claim \in Held(t) : claim.reg \notin R
      BY <2>1 DEF ClaimInv
    <2>3. \A t \in Senders \ {s} : Held(t)' = Held(t)
      BY DEF Held
    <2>4. Held(s)' \subseteq new \cup cur[s] /\ cur[s] \subseteq Held(s)
      BY DEF Held
    <2>5. \A claim \in new : claim.reg \in R
      OBVIOUS
    <2>6. \A t \in Senders : \A claim \in Held(t)' :
            status'[claim.reg] = "sending" /\ ~stale'[claim.reg]
      BY <1>1, <2>1, <2>2, <2>3, <2>4, <2>5 DEF ClaimInv
    <2>7. \A c, d \in new : c.reg = d.reg => c = d
      OBVIOUS
    <2>8. ASSUME NEW t \in Senders, NEW u \in Senders, NEW c \in Held(t)', NEW d \in Held(u)',
                 c.reg = d.reg
          PROVE  c = d /\ t = u
      <3>1. \A v \in Senders : \A e \in Held(v)' : e \in Held(v) \/ (v = s /\ e \in new)
        BY <2>3, <2>4
      <3>2. CASE c \in Held(t) /\ d \in Held(u)
        BY <2>8, <3>2 DEF ClaimInv
      <3>3. CASE t = s /\ c \in new
        <4>1. d \notin Held(u) BY <2>2, <2>5, <2>8, <3>3
        <4>2. QED BY <2>7, <2>8, <3>1, <3>3, <4>1
      <3>4. CASE u = s /\ d \in new
        <4>1. c \notin Held(t) BY <2>2, <2>5, <2>8, <3>4
        <4>2. QED BY <2>7, <2>8, <3>1, <3>4, <4>1
      <3>5. QED BY <2>8, <3>1, <3>2, <3>3, <3>4
    <2>9. \A t \in Senders : batch'[t] \cap cur'[t] = {}
      BY <2>2, <2>4, <2>5 DEF ClaimInv
    <2>10. QED BY <2>6, <2>8, <2>9 DEF ClaimInv
  <1>4. CASE Record(s)
    <2>1. PICK claim \in cur[s] :
            IF ~RecordApplies(claim) THEN UNCHANGED <<status, due, stale>>
            ELSE /\ status' = [status EXCEPT ![claim.reg] = Outcome(claim, result[s])]
                 /\ stale' = [stale EXCEPT ![claim.reg] = FALSE]
      BY <1>4 DEF Record
    <2>2. Held(s)' = batch[s] /\ batch[s] \subseteq Held(s) /\ claim \in Held(s)
          /\ claim \notin batch[s] /\ \A t \in Senders \ {s} : Held(t)' = Held(t)
      BY <1>4 DEF Record, Held, ClaimInv
    <2>3. \A t \in Senders : \A d \in Held(t)' : d.reg # claim.reg
      BY <2>2 DEF ClaimInv
    <2>4. \A t \in Senders : Held(t)' \subseteq Held(t) /\ batch'[t] \cap cur'[t] = {}
      BY <1>4, <2>2 DEF Record, ClaimInv
    <2>5. \A r \in Regs : r # claim.reg => status'[r] = status[r] /\ stale'[r] = stale[r]
      BY <2>1
    <2>6. QED BY <2>3, <2>4, <2>5, HeldKept
  <1>5. ASSUME UNCHANGED <<status, stale>>,
               \A t \in Senders : Held(t)' \subseteq Held(t),
               \A t \in Senders : batch'[t] \cap cur'[t] = {}
        PROVE  ClaimInv'
    BY <1>5, HeldKept
  <1>6. ASSUME NEW claim \in batch[s], Lookup(s, claim) PROVE ClaimInv'
    BY <1>5, <1>6 DEF Lookup, Held, ClaimInv, rowVars
  <1>7. CASE SendWithoutKey(s) \/ Call(s) \/ ReplyOk(s) \/ ReplyError(s) \/ Timeout(s)
    BY <1>5, <1>7 DEF SendWithoutKey, Call, ReplyOk, ReplyError, Timeout, Held, ClaimInv, rowVars
  <1>8. CASE Abandon(s)
    BY <1>5, <1>8 DEF Abandon, Held, ClaimInv, rowVars
  <1>9. QED BY <1>2, <1>3, <1>4, <1>6, <1>7, <1>8 DEF SenderStep

(* As long as a batch of sends ends before its rows count as stale, no two   *)
(* workers ever hold the same row, whatever crashes (the class comment of    *)
(* CreditsSender).                                                           *)
THEOREM ClaimsExclusive ==
  ASSUME ~BatchMayOutliveStale PROVE Spec => []ExclusiveClaim
  <1>1. Init => ClaimInv
    BY DEF Init, ClaimInv, Held
  <1>2. ASSUME TypeOK, ClaimInv, [Next]_vars PROVE ClaimInv'
    <2>1. CASE UNCHANGED <<status, stale, batch, cur>>
      BY <1>2, <2>1 DEF ClaimInv, Held
    <2>2. CASE ClientStep
      BY <1>2, <2>1, <2>2, ClientClaims
      DEF ClientStep, Load, BulkStart, BulkSelect, BulkNext, rowVars, senderVars
    <2>3. CASE AdminStep \/ UNCHANGED vars \/ \E k \in wire : Accept(k)
      BY <2>1, <2>3
      DEF AdminStep, CheckIn, Uncheck, SoftDelete, Restore, EditEvent, Accept,
          vars, rowVars, senderVars
    <2>4. ASSUME NEW r \in Regs, GoesStale(r) PROVE ClaimInv'
      <3>1. \A s \in Senders : \A claim \in Held(s) : claim.reg # r
        BY <2>4 DEF GoesStale
      <3>2. UNCHANGED <<status, batch, cur>> /\ stale' = [stale EXCEPT ![r] = TRUE]
        BY <2>4 DEF GoesStale, senderVars
      <3>3. \A q \in Regs \ {r} : stale'[q] = stale[q]
        BY <1>2, <3>2 DEF TypeOK, RowType
      <3>4. /\ \A s \in Senders : Held(s)' = Held(s)
            /\ \A s \in Senders : batch'[s] \cap cur'[s] = {}
        BY <1>2, <3>2 DEF ClaimInv, Held
      <3>5. QED BY <1>2, <3>1, <3>2, <3>3, <3>4, HeldKept
    <2>5. CASE TimeStep
      BY <2>1, <2>4, <2>5 DEF TimeStep, BackoffElapses, CooldownElapses, senderVars
    <2>6. QED
      BY <1>2, <2>2, <2>3, <2>5, SenderClaims DEF Next
  <1>3. ClaimInv => ExclusiveClaim
    BY DEF ClaimInv, ExclusiveClaim
  <1>4. QED BY TypeCorrect, <1>1, <1>2, <1>3, PTL DEF Spec

-----------------------------------------------------------------------------
(* The budget of attempts.  A `sending` row goes back to `pending` when it    *)
(* is reclaimed, or when a worker records a failed attempt below the limit;  *)
(* every reclaim may leave one worker behind with such an attempt.  So those *)
(* that are still held, and the attempts spent above the limit, are paid for *)
(* by reclaims.                                                              *)
Trying(r, n) ==
  \E s \in Senders : \E claim \in Held(s) :
    claim.reg = r /\ claim.gen = gen[r] /\ claim.attempts = n

(* The attempts below the limit whose answer is still to be recorded. *)
Tries(r) == {n \in 1..(MaxAttempts - 1) : Trying(r, n)}
Spent(r) == IF attempts[r] < MaxAttempts THEN 0 ELSE attempts[r] + 1 - MaxAttempts

RowBudget(r) ==
  /\ attempts[r] <= MaxAttempts + reclaims[r]
  /\ status[r] = "pending" => Cardinality(Tries(r)) + Spent(r) <= reclaims[r]
  /\ status[r] = "sending" => Cardinality(Tries(r)) + Spent(r) <= reclaims[r] + 1

(* An attempt is held once, and none before it was made. *)
TriesApart ==
  /\ \A s, t \in Senders : \A c \in Held(s), d \in Held(t) :
       c.reg = d.reg /\ c.gen = d.gen /\ c.attempts = d.attempts => s = t
  /\ \A s \in Senders : batch[s] \cap cur[s] = {}
  /\ \A s \in Senders : \A c \in Held(s) :
       c.gen = gen[c.reg] => c.attempts \in 1..attempts[c.reg]

BudgetInv ==
  /\ TriesApart
  /\ \A r \in Regs : RowBudget(r) /\ (status[r] = "none" => attempts[r] = 0)

LEMMA TriesFinite ==
  ASSUME NEW r \in Regs
  PROVE  /\ IsFiniteSet(Tries(r)) /\ Cardinality(Tries(r)) \in Nat
         /\ IsFiniteSet(Tries(r)') /\ Cardinality(Tries(r)') \in Nat
  <1>1. IsFiniteSet(1..(MaxAttempts - 1))
    BY CreditsAssumption, FS_Interval
  <1>2. Tries(r) \subseteq 1..(MaxAttempts - 1) /\ Tries(r)' \subseteq 1..(MaxAttempts - 1)
    BY DEF Tries
  <1>3. QED BY <1>1, <1>2, FS_Subset, FS_CardinalityType

LEMMA BudgetInit == ASSUME Init PROVE BudgetInv
  BY CreditsAssumption DEF Init, BudgetInv, TriesApart, RowBudget, Held

(* What a step other than a claim may make of a row. *)
RowMove(r) ==
  \/ /\ attempts'[r] = attempts[r] /\ gen'[r] = gen[r]
     /\ \/ status'[r] = status[r] /\ reclaims'[r] = reclaims[r]
        \/ status'[r] \in {"sent", "failed"} /\ reclaims'[r] = reclaims[r]
        \/ /\ status[r] = "sending" /\ status'[r] = "pending"
           /\ \/ reclaims'[r] = reclaims[r] + 1
              \/ reclaims'[r] = reclaims[r] /\ \E n \in Tries(r) : ~Trying(r, n)'
  \/ status'[r] \in {"not_sent", "pending"} /\ attempts'[r] = 0 /\ gen'[r] > Opened(r)

LEMMA BudgetStep ==
  ASSUME TypeOK, RowType', QueueInv, BudgetInv,
         \A s \in Senders : Held(s)' \subseteq Held(s) /\ batch'[s] \cap cur'[s] = {},
         \A r \in Regs : RowMove(r)
  PROVE  BudgetInv'
  <1>1. ASSUME NEW s \in Senders, NEW c \in Held(s)
        PROVE  /\ c \in Claim /\ c.reg \in Regs /\ c.gen \in Nat /\ c.attempts \in Nat
               /\ c.gen \in 1..Opened(c.reg)
    BY DEF TypeOK, SenderType, Held, Claim, QueueInv, HeldOpened
  <1>2. ASSUME NEW r \in Regs
        PROVE  /\ attempts[r] \in Nat /\ attempts'[r] \in Nat /\ reclaims[r] \in Nat
               /\ reclaims'[r] \in Nat /\ gen[r] \in Nat /\ gen'[r] \in Nat
               /\ Opened(r) \in Nat
    BY DEF TypeOK, RowType, Opened
  <1>3. TriesApart'
    <2>1. ASSUME NEW s \in Senders, NEW c \in Held(s)', c.gen = gen'[c.reg]
          PROVE  c.attempts \in 1..attempts'[c.reg]
      <3>1. c \in Held(s) /\ RowMove(c.reg)
        BY <1>1
      <3>2. ~(gen'[c.reg] > Opened(c.reg))
        BY <1>1, <1>2, <2>1, <3>1
      <3>3. attempts'[c.reg] = attempts[c.reg] /\ gen'[c.reg] = gen[c.reg]
        BY <3>1, <3>2 DEF RowMove
      <3>4. QED BY <2>1, <3>1, <3>3 DEF BudgetInv, TriesApart
    <2>2. QED BY <2>1 DEF BudgetInv, TriesApart
  <1>4. ASSUME NEW r \in Regs
        PROVE  RowBudget(r)' /\ (status'[r] = "none" => attempts'[r] = 0)
    <2>0. RowMove(r) /\ RowBudget(r) /\ (status[r] = "none" => attempts[r] = 0)
      BY DEF BudgetInv
    <2>1. CASE attempts'[r] = attempts[r] /\ gen'[r] = gen[r]
      <3>1. Tries(r)' \subseteq Tries(r)
        BY <2>1 DEF Tries, Trying
      <3>2. Cardinality(Tries(r)') <= Cardinality(Tries(r))
        BY <3>1, TriesFinite, FS_Subset
      <3>3. Spent(r)' = Spent(r) /\ Spent(r) \in Nat
        BY <1>2, <2>1, CreditsAssumption DEF Spent
      <3>4. (\E n \in Tries(r) : ~Trying(r, n)')
              => Cardinality(Tries(r)') <= Cardinality(Tries(r)) - 1
        <4> SUFFICES ASSUME NEW n \in Tries(r), ~Trying(r, n)'
                     PROVE  Cardinality(Tries(r)') <= Cardinality(Tries(r)) - 1
          OBVIOUS
        <4>1. Tries(r)' \in SUBSET (Tries(r) \ {n})
          BY <3>1 DEF Tries
        <4>2. /\ IsFiniteSet(Tries(r) \ {n})
              /\ Cardinality(Tries(r) \ {n}) = Cardinality(Tries(r)) - 1
          BY TriesFinite, FS_RemoveElement
        <4>3. QED BY <4>1, <4>2, FS_Subset
      <3>5. /\ attempts[r] <= MaxAttempts + reclaims[r]
            /\ status[r] = "pending" => Cardinality(Tries(r)) + Spent(r) <= reclaims[r]
            /\ status[r] = "sending" => Cardinality(Tries(r)) + Spent(r) <= reclaims[r] + 1
        BY <2>0 DEF RowBudget
      <3>6. reclaims'[r] >= reclaims[r] \/ attempts'[r] = 0
        BY <1>2, <2>0, <2>1 DEF RowMove
      <3>7. attempts'[r] <= MaxAttempts + reclaims'[r]
        BY <1>2, <2>1, <3>5, <3>6, CreditsAssumption
      <3>8. /\ status'[r] = "pending" => Cardinality(Tries(r)') + Spent(r) <= reclaims'[r]
            /\ status'[r] = "sending" => Cardinality(Tries(r)') + Spent(r) <= reclaims'[r] + 1
        <4>0. Cardinality(Tries(r)) \in Nat /\ Cardinality(Tries(r)') \in Nat
          BY TriesFinite
        <4>1. CASE status'[r] = status[r] /\ reclaims'[r] = reclaims[r]
          BY <1>2, <3>2, <3>3, <3>5, <4>0, <4>1
        <4>2. CASE status'[r] \in {"sent", "failed"}
          BY <4>2
        <4>3. CASE status[r] = "sending" /\ status'[r] = "pending"
                   /\ reclaims'[r] = reclaims[r] + 1
          BY <1>2, <3>2, <3>3, <3>5, <4>0, <4>3
        <4>4. CASE /\ status[r] = "sending" /\ status'[r] = "pending"
                   /\ reclaims'[r] = reclaims[r] /\ \E n \in Tries(r) : ~Trying(r, n)'
          BY <1>2, <3>3, <3>4, <3>5, <4>0, <4>4
        <4>5. CASE status'[r] \in {"not_sent", "pending"} /\ gen'[r] > Opened(r)
                   /\ attempts'[r] = 0
          <5>1. Tries(r)' = {}
            BY <1>1, <1>2, <4>5 DEF Tries, Trying
          <5>2. Cardinality(Tries(r)') = 0
            BY <5>1, FS_EmptySet
          <5>3. Spent(r) = 0
            BY <2>1, <4>5, CreditsAssumption DEF Spent
          <5>4. QED BY <1>2, <5>2, <5>3
        <4>6. QED BY <2>0, <4>1, <4>2, <4>3, <4>4, <4>5 DEF RowMove
      <3>9. QED BY <2>0, <2>1, <3>3, <3>7, <3>8 DEF RowMove, RowBudget
    <2>2. CASE status'[r] \in {"not_sent", "pending"} /\ attempts'[r] = 0
               /\ gen'[r] > Opened(r)
      <3>1. Tries(r)' = {}
        BY <1>1, <1>2, <2>2 DEF Tries, Trying
      <3>2. Cardinality(Tries(r)') = 0
        BY <3>1, FS_EmptySet
      <3>3. QED BY <1>2, <2>2, <3>2, CreditsAssumption DEF RowBudget, Spent
    <2>3. QED BY <2>0, <2>1, <2>2 DEF RowMove
  <1>5. QED BY <1>3, <1>4 DEF BudgetInv

LEMMA ClientBudget ==
  ASSUME TypeOK, QueueInv, BudgetInv, NEW c \in Clients, InsertFirst(c) \/ Finish(c)
  PROVE  BudgetInv'
  <1> DEFINE r == req[c].reg
  <1>1. RowType' /\ r \in Regs /\ UNCHANGED senderVars
    BY InsertFirstType, FinishType, Active DEF TypeOK, ActiveRequest, InsertFirst, Finish
  <1>2. \A s \in Senders : Held(s)' \subseteq Held(s) /\ batch'[s] \cap cur'[s] = {}
    BY <1>1 DEF senderVars, Held, BudgetInv, TriesApart
  <1> USE DEF TypeOK, RowType
  <1>3. \A q \in Regs \ {r} : RowMove(q)
    BY <1>1, FinishRow DEF InsertFirst, InsertRow, Enqueue, Requeue, SetRedeemed, rowVars, RowMove
  <1>4. RowMove(r)
    <2>1. ASSUME NEW st \in {"pending", "not_sent"}, InsertRow(r, st) PROVE RowMove(r)
      <3>1. status[r] = "none" => attempts[r] = 0
        BY <1>1 DEF BudgetInv
      <3>2. QED BY <1>1, <2>1, <3>1 DEF InsertRow, rowVars, RowMove, Opened
    <2>2. CASE Enqueue(r) /\ status[r] \in {"none", "not_sent"}
      BY <1>1, <2>2 DEF Enqueue, RowMove, Opened
    <2>3. ASSUME NEW cooldown \in BOOLEAN, CanRequeue(r, cooldown), Requeue(r, cooldown)
          PROVE  RowMove(r)
      BY <1>1, <2>3 DEF CanRequeue, Requeue, RowMove, Opened
    <2>4. ASSUME NEW via \in {"no", "attendee", "volunteer"}, SetRedeemed(r, via)
          PROVE  RowMove(r)
      BY <1>1, <2>4 DEF SetRedeemed, RowMove
    <2>5. CASE UNCHANGED rowVars
      BY <2>5 DEF rowVars, RowMove
    <2>6. QED BY <2>1, <2>2, <2>3, <2>4, <2>5, FinishRow DEF InsertFirst
  <1> HIDE DEF r
  <1>5. QED BY <1>1, <1>2, <1>3, <1>4, BudgetStep

(* A worker that takes rows up for another attempt: the attempts of each are *)
(* one more, and the new one counts as held only below the limit.            *)
LEMMA ClaimRowsBudget ==
  ASSUME TypeOK, TypeOK', QueueInv, BudgetInv, NEW s \in Senders, NEW R \in SUBSET Due,
         ClaimRows(s, R)
  PROVE  BudgetInv'
  <1> DEFINE new == {[reg |-> r, attempts |-> attempts[r] + 1, gen |-> gen[r]] : r \in R}
  <1>1. R \subseteq Regs /\ \A r \in R : status[r] = "pending"
    BY DEF Due
  <1>2. /\ \A t \in Senders \ {s} : Held(t)' = Held(t)
        /\ Held(s)' \subseteq cur[s] \cup new /\ cur[s] \subseteq Held(s)
        /\ \A t \in Senders \ {s} : batch'[t] \cap cur'[t] = {}
        /\ batch'[s] = new /\ cur'[s] = cur[s]
    BY DEF ClaimRows, Held, TypeOK, SenderType, BudgetInv, TriesApart
  <1>3. ASSUME NEW t \in Senders, NEW c \in Held(t)
        PROVE  /\ c \in Claim /\ c.reg \in Regs
               /\ c.gen = gen[c.reg] => c.attempts \in 1..attempts[c.reg]
    BY DEF TypeOK, SenderType, Held, Claim, BudgetInv, TriesApart
  <1>4. ASSUME NEW r \in Regs
        PROVE  /\ attempts[r] \in Nat /\ reclaims[r] \in Nat
               /\ gen'[r] = gen[r] /\ reclaims'[r] = reclaims[r]
               /\ attempts'[r] = IF r \in R THEN attempts[r] + 1 ELSE attempts[r]
               /\ status'[r] = IF r \in R THEN "sending" ELSE status[r]
    BY DEF TypeOK, RowType, ClaimRows
  <1>5. ASSUME NEW c \in new
        PROVE  /\ c.reg \in R /\ c.gen = gen[c.reg] /\ c.attempts = attempts[c.reg] + 1
    OBVIOUS
  <1> HIDE DEF new
  <1>6. ASSUME NEW t \in Senders, NEW c \in Held(t), NEW d \in new,
               c.reg = d.reg, c.gen = d.gen
        PROVE  c.attempts # d.attempts
    BY <1>1, <1>3, <1>4, <1>5, <1>6
  <1>7. TriesApart'
    <2>1. ASSUME NEW t \in Senders, NEW u \in Senders, NEW c \in Held(t)', NEW d \in Held(u)',
                 c.reg = d.reg, c.gen = d.gen, c.attempts = d.attempts
          PROVE  t = u
      <3>1. CASE c \in Held(t) /\ d \in Held(u)
        BY <2>1, <3>1 DEF BudgetInv, TriesApart
      <3>2. CASE c \in new \/ d \in new
        <4>1. c \in Held(t) \/ (c \in new /\ t = s)
          BY <1>2
        <4>2. d \in Held(u) \/ (d \in new /\ u = s)
          BY <1>2
        <4>3. QED BY <1>6, <2>1, <3>2, <4>1, <4>2
      <3>3. QED BY <1>2, <3>1, <3>2
    <2>2. batch'[s] \cap cur'[s] = {}
      BY <1>2, <1>6
    <2>3. ASSUME NEW t \in Senders, NEW c \in Held(t)', c.gen = gen'[c.reg]
          PROVE  c.attempts \in 1..attempts'[c.reg]
      <3>1. CASE c \in Held(t)
        BY <1>3, <1>4, <2>3, <3>1
      <3>2. CASE c \in new
        BY <1>1, <1>4, <1>5, <3>2
      <3>3. QED BY <1>2, <3>1, <3>2
    <2>4. QED BY <1>2, <2>1, <2>2, <2>3 DEF TriesApart
  <1>8. ASSUME NEW r \in Regs, r \notin R
        PROVE  RowBudget(r)' /\ (status'[r] = "none" => attempts'[r] = 0)
    <2>1. Tries(r)' \subseteq Tries(r)
      BY <1>2, <1>4, <1>5, <1>8 DEF Tries, Trying
    <2>2. Cardinality(Tries(r)') <= Cardinality(Tries(r))
      BY <2>1, TriesFinite, FS_Subset
    <2>3. RowBudget(r) /\ (status[r] = "none" => attempts[r] = 0)
      BY DEF BudgetInv
    <2>4. Spent(r)' = Spent(r) /\ Spent(r) \in Nat
      BY <1>4, <1>8, CreditsAssumption DEF Spent
    <2>5. QED BY <1>4, <1>8, <2>2, <2>3, <2>4, TriesFinite DEF RowBudget
  <1>9. ASSUME NEW r \in R
        PROVE  RowBudget(r)' /\ (status'[r] = "none" => attempts'[r] = 0)
    <2>0. r \in Regs
      BY <1>1
    <2>1. Tries(r)' \subseteq Tries(r) \cup {attempts[r] + 1}
      BY <1>2, <1>4, <1>5, <2>0 DEF Tries, Trying
    <2>2. attempts[r] + 1 >= MaxAttempts => Tries(r)' \subseteq Tries(r)
      BY <2>0, <1>4, <2>1, CreditsAssumption DEF Tries
    <2>3. /\ attempts[r] <= MaxAttempts + reclaims[r]
          /\ Cardinality(Tries(r)) + Spent(r) <= reclaims[r]
      BY <1>1 DEF BudgetInv, RowBudget
    <2>4. /\ Cardinality(Tries(r)') <= Cardinality(Tries(r)) + 1
          /\ attempts[r] + 1 >= MaxAttempts => Cardinality(Tries(r)') <= Cardinality(Tries(r))
      <3>1. /\ IsFiniteSet(Tries(r) \cup {attempts[r] + 1})
            /\ Cardinality(Tries(r) \cup {attempts[r] + 1}) <= Cardinality(Tries(r)) + 1
            /\ Cardinality(Tries(r) \cup {attempts[r] + 1}) \in Nat
        <4>1. IsFiniteSet(Tries(r)) /\ Cardinality(Tries(r)) \in Nat
          BY <2>0, TriesFinite
        <4>2. /\ IsFiniteSet(Tries(r) \cup {attempts[r] + 1})
              /\ Cardinality(Tries(r) \cup {attempts[r] + 1})
                   \in {Cardinality(Tries(r)), Cardinality(Tries(r)) + 1}
          BY <4>1, FS_AddElement
        <4>3. QED BY <4>1, <4>2
      <3>2. Cardinality(Tries(r)') <= Cardinality(Tries(r) \cup {attempts[r] + 1})
        BY <2>1, <3>1, FS_Subset
      <3>3. attempts[r] + 1 >= MaxAttempts => Cardinality(Tries(r)') <= Cardinality(Tries(r))
        BY <2>0, <2>2, TriesFinite, FS_Subset
      <3>4. QED BY <2>0, <3>1, <3>2, <3>3, TriesFinite
    <2>5. Cardinality(Tries(r)') + Spent(r)' <= reclaims[r] + 1
      BY <1>4, <2>0, <2>3, <2>4, TriesFinite, CreditsAssumption DEF Spent
    <2>6. attempts'[r] <= MaxAttempts + reclaims'[r]
      BY <1>4, <2>0, <2>3, TriesFinite, CreditsAssumption DEF Spent
    <2>7. QED BY <1>4, <2>0, <2>5, <2>6 DEF RowBudget
  <1>10. QED BY <1>7, <1>8, <1>9 DEF BudgetInv

LEMMA SenderBudget ==
  ASSUME TypeOK, TypeOK', QueueInv, BudgetInv, NEW s \in Senders,
         SenderStep(s) \/ Abandon(s)
  PROVE  BudgetInv'
  <1> USE DEF TypeOK, SenderType
  <1>1. CASE Reclaim(s)
    <2>1. \A t \in Senders : Held(t)' = Held(t) /\ batch'[t] \cap cur'[t] = {}
      BY <1>1 DEF Reclaim, Held, BudgetInv, TriesApart
    <2>2. \A r \in Regs : RowMove(r)
      BY <1>1 DEF Reclaim, RowMove
    <2>3. QED BY <2>1, <2>2, BudgetStep
  <1>2. ASSUME NEW R \in SUBSET Due, ClaimRows(s, R) PROVE BudgetInv'
    BY <1>2, ClaimRowsBudget
  <1>3. CASE Record(s)
    <2>1. PICK claim \in cur[s] :
            IF ~RecordApplies(claim) THEN UNCHANGED <<status, due, stale>>
            ELSE status' = [status EXCEPT ![claim.reg] = Outcome(claim, result[s])]
      BY <1>3 DEF Record
    <2>2. /\ Held(s)' = batch[s] /\ claim \in Held(s) /\ claim \notin batch[s]
          /\ \A t \in Senders \ {s} : Held(t)' = Held(t)
          /\ \A t \in Senders : Held(t)' \subseteq Held(t) /\ batch'[t] \cap cur'[t] = {}
      BY <1>3 DEF Record, Held, BudgetInv, TriesApart
    <2>3. claim \in Claim /\ claim.reg \in Regs
      BY DEF Claim
    <2>4. UNCHANGED <<attempts, gen, reclaims>>
      BY <1>3 DEF Record
    <2>5. \A r \in Regs : r # claim.reg => RowMove(r)
      BY <2>1, <2>4 DEF RowMove, RowType
    <2>6. RowMove(claim.reg)
      <3>1. CASE ~RecordApplies(claim) \/ ~WillRetry(claim, result[s])
        BY <2>1, <2>3, <2>4, <3>1 DEF RowMove, Outcome, RowType
      <3>2. CASE RecordApplies(claim) /\ WillRetry(claim, result[s])
        <4> DEFINE r == claim.reg
                   n == claim.attempts
        <4>1. n \in Tries(r)
          <5>1. n \in 1..attempts[r] /\ n < MaxAttempts /\ claim.gen = gen[r]
            BY <2>2, <3>2 DEF RecordApplies, WillRetry, BudgetInv, TriesApart
          <5>2. attempts[r] \in Nat
            BY <2>3 DEF RowType
          <5>3. QED BY <2>2, <5>1, <5>2, CreditsAssumption DEF Tries, Trying
        <4>2. ~Trying(r, n)'
          <5>1. ASSUME NEW t \in Senders, NEW d \in Held(t)',
                       d.reg = r, d.gen = gen'[r], d.attempts = n
                PROVE  FALSE
            <6>1. d \in Held(t) /\ d.gen = claim.gen
              BY <2>2, <2>4, <3>2, <5>1 DEF RecordApplies
            <6>2. t = s
              BY <2>2, <5>1, <6>1 DEF BudgetInv, TriesApart
            <6>3. d \in Claim
              BY <6>1 DEF Held
            <6>4. d = claim
              BY <2>3, <5>1, <6>1, <6>3 DEF Claim
            <6>5. QED BY <2>2, <5>1, <6>2, <6>4
          <5>2. QED BY <5>1 DEF Trying
        <4>3. status[r] = "sending" /\ status'[r] = "pending"
          BY <2>1, <2>3, <3>2 DEF RecordApplies, WillRetry, Outcome, RowType
        <4>4. QED BY <2>4, <4>1, <4>2, <4>3 DEF RowMove
      <3>3. QED BY <3>1, <3>2
    <2>7. QED BY <2>2, <2>5, <2>6, BudgetStep
  <1>4. ASSUME UNCHANGED rowVars,
               \A t \in Senders : Held(t)' \subseteq Held(t) /\ batch'[t] \cap cur'[t] = {}
        PROVE  BudgetInv'
    BY <1>4, BudgetStep DEF rowVars, RowMove
  <1>5. ASSUME NEW claim \in batch[s], Lookup(s, claim) PROVE BudgetInv'
    BY <1>4, <1>5 DEF Lookup, Held, BudgetInv, TriesApart
  <1>6. CASE SendWithoutKey(s) \/ Call(s) \/ ReplyOk(s) \/ ReplyError(s) \/ Timeout(s)
    BY <1>4, <1>6 DEF SendWithoutKey, Call, ReplyOk, ReplyError, Timeout, Held,
                      BudgetInv, TriesApart
  <1>7. CASE Abandon(s)
    BY <1>4, <1>7 DEF Abandon, Held, BudgetInv, TriesApart
  <1>8. QED BY <1>1, <1>2, <1>3, <1>5, <1>6, <1>7 DEF SenderStep

(* Crashes, reclaims, late answers and resends never make more attempts of   *)
(* one generation than the limit and one for every reclaim.                  *)
THEOREM AttemptsBounded == Spec => []AttemptBudget
  <1>1. ASSUME TypeOK, TypeOK', QueueInv, BudgetInv, [Next]_vars PROVE BudgetInv'
    <2>1. CASE UNCHANGED <<status, attempts, gen, reclaims, batch, cur>>
      <3>1. \A r \in Regs : RowMove(r)
        BY <2>1 DEF RowMove
      <3>2. \A t \in Senders : Held(t)' = Held(t) /\ batch'[t] \cap cur'[t] = {}
        BY <1>1, <2>1 DEF Held, BudgetInv, TriesApart
      <3>3. QED BY <1>1, <3>1, <3>2, BudgetStep DEF TypeOK
    <2>2. CASE ClientStep
      BY <1>1, <2>1, <2>2, ClientBudget
      DEF ClientStep, Load, BulkStart, BulkSelect, BulkNext, rowVars, senderVars
    <2>3. CASE AdminStep \/ TimeStep \/ UNCHANGED vars \/ \E k \in wire : Accept(k)
      BY <2>1, <2>3
      DEF AdminStep, CheckIn, Uncheck, SoftDelete, Restore, EditEvent, TimeStep,
          GoesStale, BackoffElapses, CooldownElapses, Accept, vars, rowVars, senderVars
    <2>4. QED BY <1>1, <2>2, <2>3, SenderBudget DEF Next
  <1>2. BudgetInv => AttemptBudget
    BY DEF BudgetInv, RowBudget, AttemptBudget
  <1>3. QED BY QueueInductive, BudgetInit, <1>1, <1>2, PTL DEF Spec

(* Whoever reports a redemption again, and in whatever order, the first one  *)
(* stays until an organizer takes it back.                                   *)
THEOREM FirstRedemptionStays == Spec => FirstRedemptionKept
  <1> DEFINE A == \A r \in Regs :
        redeemed[r] # "no" /\ redeemed'[r] # redeemed[r] => redeemed'[r] = "no"
  <1>1. ASSUME TypeOK, [Next]_vars PROVE [A]_vars
    <2>1. CASE UNCHANGED redeemed
      BY <2>1
    <2>2. ASSUME NEW c \in Clients, Finish(c) PROVE A
      <3>1. req[c].reg \in Regs
        BY <1>1, <2>2, FinishRow
      <3>2. CASE VolunteerConfirm(req[c].reg) \/ AttendeeRedeem(req[c].reg)
        BY <1>1, <3>1, <3>2
           DEF VolunteerConfirm, AttendeeRedeem, SetRedeemed, TypeOK, RowType, rowVars
      <3>3. CASE SetRedeemed(req[c].reg, "no")
        BY <1>1, <3>1, <3>3 DEF SetRedeemed, TypeOK, RowType
      <3>4. QED
        BY <2>2, <3>2, <3>3
           DEF Finish, Requeue, UpsertOnCheckin, InsertRow, Enqueue, rowVars
    <2>3. CASE ClientStep
      BY <2>1, <2>2, <2>3 DEF ClientStep, Load, BulkStart, BulkSelect, BulkNext, InsertFirst, InsertRow, rowVars
    <2>4. CASE AdminStep \/ TimeStep \/ UNCHANGED vars \/ \E k \in wire : Accept(k)
      BY <2>1, <2>4
      DEF AdminStep, CheckIn, Uncheck, SoftDelete, Restore, EditEvent, TimeStep,
          GoesStale, BackoffElapses, CooldownElapses, Accept, vars, rowVars
    <2>5. ASSUME NEW s \in Senders, SenderStep(s) \/ Abandon(s) PROVE A
      BY <2>1, <2>5
      DEF SenderStep, Reclaim, ClaimRows, Lookup, SendWithoutKey, Call, ReplyOk,
          ReplyError, Timeout, Record, Abandon, rowVars
    <2>6. QED BY <1>1, <2>3, <2>4, <2>5 DEF Next
  <1>2. QED BY TypeCorrect, <1>1, PTL DEF Spec, FirstRedemptionKept
=============================================================================
