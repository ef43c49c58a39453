---------------------------- MODULE CreditsQueue ----------------------------
(***************************************************************************)
(* The Google Cloud credits e-mail queue: the table credit_redemptions, the *)
(* HTTP handlers of CreditsService that write it, and the background worker *)
(* CreditsSender that drains it through the mail provider.                  *)
(*                                                                          *)
(* Every SQL statement is one atomic step; a handler that runs several      *)
(* statements takes several steps and keeps what it read in between in      *)
(* req[c].  Time is abstracted to three facts about a row: its backoff has  *)
(* elapsed (due), its updated_at is older than STALE_SENDING_MINUTES        *)
(* (stale), its resend cooldown has elapsed (cooled).                       *)
(***************************************************************************)
EXTENDS Naturals, FiniteSets

CONSTANTS
  Regs,         \* registrations of one event
  Senders,      \* processes running CreditsSender
  Clients,      \* HTTP requests that may be in flight at the same time
  Ops,          \* the kinds of request that arrive
  MaxAttempts,  \* MAX_EMAIL_ATTEMPTS
  Batch,        \* rows claimed by one tick: max(1, ceil(emailsPerSecond()))
  SendTimeout,  \* RESEND_TIMEOUT_MS, in the unit of StaleAfter
  StaleAfter,   \* STALE_SENDING_MINUTES
  MaxGen,       \* bound: generations opened per row
  MaxFaults,    \* bound: crashes and aborted ticks
  MaxReclaims   \* bound: reclaims per generation

ClientOps == {"scan", "send", "bulk", "qr", "confirm", "unconfirm", "redeem",
              "selfResend"}
AdminOps  == {"checkin", "uncheck", "delete", "restore", "enabled", "claimUrl"}

ASSUME CreditsAssumption ==
  /\ Ops \subseteq ClientOps \cup AdminOps
  /\ MaxAttempts \in Nat \ {0}
  /\ Batch \in Nat \ {0}
  /\ SendTimeout \in Nat /\ StaleAfter \in Nat
  /\ MaxGen \in Nat \ {0} /\ MaxFaults \in Nat /\ MaxReclaims \in Nat

VARIABLES
  (* credit_redemptions, one row per registration *)
  status,    \* email_status, "none" when there is no row
  attempts,  \* email_attempts
  gen,       \* email_generation
  due,       \* email_next_attempt_at IS NULL OR <= now()
  stale,     \* updated_at < now() - STALE_SENDING_MINUTES
  cooled,    \* email_queued_at IS NULL OR older than RESEND_COOLDOWN_MINUTES
  redeemed,  \* redeemed_via, "no" when redeemed_at IS NULL
  reclaims,  \* history: reclaims of the current generation
  (* registrations and events, written by other components *)
  live,      \* deleted_at IS NULL
  present,   \* checked_in
  event,     \* credits_enabled and credits_claim_url of the event
  (* the worker processes *)
  pc, batch, cur, result, faults,
  (* the mail provider *)
  wire,      \* requests the provider may still process
  accepted,  \* idempotency keys of the mails it has taken for delivery
  (* the HTTP handlers *)
  req

rowVars    == <<status, attempts, gen, due, stale, cooled, redeemed, reclaims>>
regVars    == <<live, present, event>>
senderVars == <<pc, batch, cur, result, faults>>
mailVars   == <<wire, accepted>>
vars       == <<rowVars, regVars, senderVars, mailVars, req>>

-----------------------------------------------------------------------------
Status == {"none", "not_sent", "pending", "sending", "sent", "failed"}
Claim  == [reg : Regs, attempts : Nat, gen : Nat]
Key    == Regs \X Nat

(* Mutant: a key per attempt, so a retry is a new mail to the provider. *)
MutKeyPerAttempt(claim) == <<claim.reg, claim.attempts>>

(* The idempotency key of a claim: `credits-<row id>-<email_generation>`. *)
KeyOf(claim) == <<claim.reg, claim.gen>>

NoReq     == [pc |-> "idle"]
Selecting == [pc |-> "select"]   \* sendBulk, about to select its targets
ActiveRequest ==
  [pc : {"bulk", "loaded", "inserted"}, op : ClientOps, reg : Regs,
   todo : SUBSET Regs, created : BOOLEAN]
Request == {NoReq, Selecting} \cup ActiveRequest

RowType ==
  /\ status \in [Regs -> Status]
  /\ attempts \in [Regs -> Nat]
  /\ gen \in [Regs -> 1..MaxGen]
  /\ due \in [Regs -> BOOLEAN]
  /\ stale \in [Regs -> BOOLEAN]
  /\ cooled \in [Regs -> BOOLEAN]
  /\ redeemed \in [Regs -> {"no", "attendee", "volunteer"}]
  /\ reclaims \in [Regs -> Nat]

SenderType ==
  /\ pc \in [Senders -> {"idle", "claiming", "next", "ready", "waiting", "record"}]
  /\ batch \in [Senders -> SUBSET Claim]
  /\ cur \in [Senders -> SUBSET Claim]
  /\ result \in [Senders -> {"none", "ok", "retry", "permanent"}]
  /\ faults \in Nat

TypeOK ==
  /\ RowType
  /\ SenderType
  /\ live \in SUBSET Regs /\ present \in SUBSET Regs
  /\ event \in [enabled : BOOLEAN, claimUrl : BOOLEAN]
  /\ wire \in SUBSET Key /\ accepted \in SUBSET Key
  /\ req \in [Clients -> Request]

Init ==
  /\ status = [r \in Regs |-> "none"]
  /\ attempts = [r \in Regs |-> 0] /\ gen = [r \in Regs |-> 1]
  /\ due = [r \in Regs |-> TRUE] /\ stale = [r \in Regs |-> FALSE]
  /\ cooled = [r \in Regs |-> TRUE]
  /\ redeemed = [r \in Regs |-> "no"] /\ reclaims = [r \in Regs |-> 0]
  /\ live = Regs /\ present \in {{}, Regs}
  /\ event = [enabled |-> TRUE, claimUrl |-> TRUE]
  /\ pc = [s \in Senders |-> "idle"]
  /\ batch = [s \in Senders |-> {}] /\ cur = [s \in Senders |-> {}]
  /\ result = [s \in Senders |-> "none"] /\ faults = 0
  /\ wire = {} /\ accepted = {}
  /\ req = [c \in Clients |-> NoReq]

-----------------------------------------------------------------------------
(* Statements on one row *)

(* A new row, or a not_sent row upgraded: queued now, to be sent at once. *)
Enqueue(r) ==
  /\ status' = [status EXCEPT ![r] = "pending"]
  /\ attempts' = [attempts EXCEPT ![r] = 0]
  /\ due' = [due EXCEPT ![r] = TRUE]
  /\ stale' = [stale EXCEPT ![r] = FALSE]
  /\ cooled' = [cooled EXCEPT ![r] = FALSE]
  /\ UNCHANGED <<gen, redeemed, reclaims>>

(* INSERT ... ON CONFLICT (registration_id) DO NOTHING. *)
InsertRow(r, st) ==
  IF status[r] # "none" THEN UNCHANGED rowVars
  ELSE /\ status' = [status EXCEPT ![r] = st]
       /\ cooled' = [cooled EXCEPT ![r] = st # "pending"]
       /\ UNCHANGED <<attempts, gen, due, stale, redeemed, reclaims>>

(* queueOnCheckin's INSERT ... ON CONFLICT DO UPDATE ... WHERE not_sent. *)
UpsertOnCheckin(r) ==
  IF status[r] \in {"none", "not_sent"} THEN Enqueue(r) ELSE UNCHANGED rowVars

(* Mutant: a resend may interrupt a send in progress. *)
MutRequeueInFlight(r, cooldown) ==
  status[r] \in {"sent", "failed", "not_sent", "sending"} /\ (cooldown => cooled[r])

(* Only a settled or never-sent row goes back in the queue. *)
CanRequeue(r, cooldown) ==
  status[r] \in {"sent", "failed", "not_sent"} /\ (cooldown => cooled[r])

(* Mutant: a resend keeps the generation. *)
MutRequeueSameGeneration(r, cooldown) ==
  IF ~CanRequeue(r, cooldown) THEN UNCHANGED rowVars ELSE Enqueue(r)

(* requeue(): a new generation, unless the row was never sent. *)
Requeue(r, cooldown) ==
  IF ~CanRequeue(r, cooldown) THEN UNCHANGED rowVars
  ELSE /\ status[r] # "not_sent" => gen[r] < MaxGen
       /\ gen' = [gen EXCEPT ![r] = IF status[r] = "not_sent" THEN @ ELSE @ + 1]
       /\ status' = [status EXCEPT ![r] = "pending"]
       /\ attempts' = [attempts EXCEPT ![r] = 0]
       /\ due' = [due EXCEPT ![r] = TRUE]
       /\ stale' = [stale EXCEPT ![r] = FALSE]
       /\ cooled' = [cooled EXCEPT ![r] = FALSE]
       /\ reclaims' = [reclaims EXCEPT ![r] = 0]
       /\ UNCHANGED redeemed

(* A redemption is written with updated_at = now(), so the row looks fresh. *)
SetRedeemed(r, via) ==
  /\ redeemed' = [redeemed EXCEPT ![r] = via]
  /\ stale' = [stale EXCEPT ![r] = FALSE]
  /\ UNCHANGED <<status, attempts, gen, due, cooled, reclaims>>

(* Mutant: a volunteer's confirmation replaces an attendee's. *)
MutConfirmOverwrites(r) == SetRedeemed(r, "volunteer")

(* UPDATE ... redeemed_via = 'volunteer' WHERE redeemed_at IS NULL. *)
VolunteerConfirm(r) ==
  IF redeemed[r] = "no" THEN SetRedeemed(r, "volunteer") ELSE UNCHANGED rowVars

(* UPDATE ... redeemed_via = COALESCE(redeemed_via, 'attendee'). *)
AttendeeRedeem(r) ==
  SetRedeemed(r, IF redeemed[r] = "no" THEN "attendee" ELSE redeemed[r])

-----------------------------------------------------------------------------
(* HTTP handlers *)

(* What the handler's first SELECT requires before it goes on. *)
MayLoad(op, r) ==
  /\ r \in live
  /\ op \in {"scan", "send", "bulk", "selfResend"} => event.enabled /\ event.claimUrl
  /\ op \in {"scan", "selfResend"} => r \in present
  /\ op \in {"unconfirm", "redeem", "selfResend"} => status[r] # "none"

(* The first SELECT of a handler on one registration. *)
Load(c, op, r) ==
  /\ req[c] = NoReq
  /\ op \in Ops \ {"bulk"}
  /\ MayLoad(op, r)
  /\ req' = [req EXCEPT ![c] =
               [pc |-> "loaded", op |-> op, reg |-> r, todo |-> {}, created |-> FALSE]]
  /\ UNCHANGED <<rowVars, regVars, senderVars, mailVars>>

(* sendBulk without ids: the checked-in, live people with no e-mail yet. *)
BulkTargets == {r \in live \cap present : status[r] \in {"none", "not_sent"}}

(* A handler that goes on with these registrations, in any order. *)
BulkOf(r, ids) ==
  [pc |-> "bulk", op |-> "bulk", reg |-> r, todo |-> ids, created |-> FALSE]

(* sendBulk's SELECT of the event.  With ids from the caller the loop comes  *)
(* next, without them the SELECT of the targets.                            *)
BulkStart(c, ids) ==
  /\ req[c] = NoReq /\ "bulk" \in Ops
  /\ event.enabled /\ event.claimUrl
  /\ \/ ids = {} /\ req' = [req EXCEPT ![c] = Selecting]
     \/ \E r \in ids : req' = [req EXCEPT ![c] = BulkOf(r, ids)]
  /\ UNCHANGED <<rowVars, regVars, senderVars, mailVars>>

(* sendBulk's SELECT of its targets; with none it has nothing to do. *)
BulkSelect(c) ==
  /\ req[c].pc = "select"
  /\ \/ BulkTargets = {} /\ req' = [req EXCEPT ![c] = NoReq]
     \/ \E r \in BulkTargets : req' = [req EXCEPT ![c] = BulkOf(r, BulkTargets)]
  /\ UNCHANGED <<rowVars, regVars, senderVars, mailVars>>

(* After one registration of the bulk list, the next, or the end. *)
DoneWith(c) ==
  req' = [req EXCEPT ![c] = IF @.todo = {} THEN NoReq ELSE [@ EXCEPT !.pc = "bulk"]]

(* sendBulk's loop: send(id) for the next id; a rejected one is skipped. *)
BulkNext(c, r) ==
  /\ req[c].pc = "bulk" /\ r \in req[c].todo
  /\ LET rest == req[c].todo \ {r} IN
       req' = [req EXCEPT ![c] =
                 IF MayLoad("send", r)
                 THEN [@ EXCEPT !.pc = "loaded", !.reg = r, !.todo = rest, !.created = FALSE]
                 ELSE IF rest = {} THEN NoReq ELSE [@ EXCEPT !.todo = rest]]
  /\ UNCHANGED <<rowVars, regVars, senderVars, mailVars>>

(* The INSERT of send() and confirm(), which another statement follows. *)
InsertFirst(c) ==
  /\ req[c].pc = "loaded" /\ req[c].op \in {"send", "bulk", "confirm"}
  /\ InsertRow(req[c].reg, IF req[c].op = "confirm" THEN "not_sent" ELSE "pending")
  /\ req' = [req EXCEPT ![c] = [@ EXCEPT !.pc = "inserted",
                                        !.created = status[req[c].reg] = "none"]]
  /\ UNCHANGED <<regVars, senderVars, mailVars>>

(* The last statement of a handler. *)
Finish(c) ==
  /\ \/ /\ req[c].pc = "inserted"
        /\ \/ req[c].op \in {"send", "bulk"} /\ Requeue(req[c].reg, FALSE)
           \/ req[c].op = "confirm" /\ VolunteerConfirm(req[c].reg)
     \/ /\ req[c].pc = "loaded"
        /\ \/ req[c].op = "scan" /\ UpsertOnCheckin(req[c].reg)
           \/ req[c].op = "qr" /\ InsertRow(req[c].reg, "not_sent")
           \/ req[c].op = "selfResend" /\ Requeue(req[c].reg, TRUE)
           \/ req[c].op = "redeem" /\ AttendeeRedeem(req[c].reg)
           \/ req[c].op = "unconfirm" /\ SetRedeemed(req[c].reg, "no")
  /\ DoneWith(c)
  /\ UNCHANGED <<regVars, senderVars, mailVars>>

-----------------------------------------------------------------------------
(* What other components write and this one reads *)

CheckIn(r) ==
  /\ "checkin" \in Ops /\ r \notin present
  /\ present' = present \cup {r}
  /\ UNCHANGED <<live, event, rowVars, senderVars, mailVars, req>>

Uncheck(r) ==
  /\ "uncheck" \in Ops /\ r \in present
  /\ present' = present \ {r}
  /\ UNCHANGED <<live, event, rowVars, senderVars, mailVars, req>>

SoftDelete(r) ==
  /\ "delete" \in Ops /\ r \in live
  /\ live' = live \ {r}
  /\ UNCHANGED <<present, event, rowVars, senderVars, mailVars, req>>

Restore(r) ==
  /\ "restore" \in Ops /\ r \notin live
  /\ live' = live \cup {r}
  /\ UNCHANGED <<present, event, rowVars, senderVars, mailVars, req>>

EditEvent ==
  /\ \/ "enabled" \in Ops /\ event' = [event EXCEPT !.enabled = ~@]
     \/ "claimUrl" \in Ops /\ event' = [event EXCEPT !.claimUrl = ~@]
  /\ UNCHANGED <<live, present, rowVars, senderVars, mailVars, req>>

-----------------------------------------------------------------------------
(* The worker: tick() *)

(* Mutant: every `sending` row is reclaimed, however fresh. *)
MutReclaimFresh(s) ==
  LET R == {r \in Regs : status[r] = "sending"} IN
  /\ pc[s] = "idle"
  /\ pc' = [pc EXCEPT ![s] = "claiming"]
  /\ status' = [r \in Regs |-> IF r \in R THEN "pending" ELSE status[r]]
  /\ UNCHANGED <<attempts, gen, due, stale, cooled, redeemed, reclaims, regVars,
                 batch, cur, result, faults, mailVars, req>>

(* Mutant: stale rows are never reclaimed. *)
MutReclaimNothing(s) ==
  /\ pc[s] = "idle"
  /\ pc' = [pc EXCEPT ![s] = "claiming"]
  /\ UNCHANGED <<rowVars, regVars, batch, cur, result, faults, mailVars, req>>

(* UPDATE ... SET pending WHERE sending AND updated_at is old. *)
Reclaim(s) ==
  LET R == {r \in Regs : status[r] = "sending" /\ stale[r]} IN
  /\ pc[s] = "idle"
  /\ pc' = [pc EXCEPT ![s] = "claiming"]
  /\ status' = [r \in Regs |-> IF r \in R THEN "pending" ELSE status[r]]
  /\ stale' = [r \in Regs |-> IF r \in R THEN FALSE ELSE stale[r]]
  /\ reclaims' = [r \in Regs |-> IF r \in R THEN reclaims[r] + 1 ELSE reclaims[r]]
  /\ UNCHANGED <<attempts, gen, due, cooled, redeemed, regVars, batch, cur,
                 result, faults, mailVars, req>>

Due == {r \in Regs : status[r] = "pending" /\ due[r]}

(* UPDATE ... SET sending WHERE id IN (SELECT ... LIMIT n FOR UPDATE SKIP   *)
(* LOCKED) RETURNING; which of the due rows come first is left open.        *)
ClaimRows(s, R) ==
  /\ pc[s] = "claiming"
  /\ Cardinality(R) <= Batch
  /\ R # Due => Cardinality(R) = Batch
  /\ pc' = [pc EXCEPT ![s] = IF R = {} THEN "idle" ELSE "next"]
  /\ status' = [r \in Regs |-> IF r \in R THEN "sending" ELSE status[r]]
  /\ attempts' = [r \in Regs |-> IF r \in R THEN attempts[r] + 1 ELSE attempts[r]]
  /\ stale' = [r \in Regs |-> IF r \in R THEN FALSE ELSE stale[r]]
  /\ batch' = [batch EXCEPT ![s] =
                 {[reg |-> r, attempts |-> attempts[r] + 1, gen |-> gen[r]] : r \in R}]
  /\ UNCHANGED <<gen, due, cooled, redeemed, reclaims, regVars, cur, result,
                 faults, mailVars, req>>

(* attempt()'s checks: a deleted registration and an event without a claim  *)
(* link fail for good; a failing query is an exception, hence retryable.    *)
LookupOutcomes(r) ==
  IF r \notin live \/ ~event.claimUrl THEN {"permanent", "retry"} ELSE {"none", "retry"}

(* attempt(): the SELECT of the next claimed row. *)
Lookup(s, claim) ==
  /\ pc[s] = "next" /\ claim \in batch[s]
  /\ batch' = [batch EXCEPT ![s] = @ \ {claim}]
  /\ cur' = [cur EXCEPT ![s] = {claim}]
  /\ \E res \in LookupOutcomes(claim.reg) :
       /\ result' = [result EXCEPT ![s] = res]
       /\ pc' = [pc EXCEPT ![s] = IF res = "none" THEN "ready" ELSE "record"]
  /\ UNCHANGED <<rowVars, regVars, faults, mailVars, req>>

(* mailer.send() without RESEND_API_KEY: fails for good, nothing is sent. *)
SendWithoutKey(s) ==
  /\ pc[s] = "ready"
  /\ pc' = [pc EXCEPT ![s] = "record"]
  /\ result' = [result EXCEPT ![s] = "permanent"]
  /\ UNCHANGED <<rowVars, regVars, batch, cur, faults, mailVars, req>>

(* mailer.send(): the request leaves for the provider. *)
Call(s) ==
  /\ pc[s] = "ready"
  /\ pc' = [pc EXCEPT ![s] = "waiting"]
  /\ wire' = wire \cup {KeyOf(claim) : claim \in cur[s]}
  /\ UNCHANGED <<rowVars, regVars, batch, cur, result, faults, accepted, req>>

(* The provider takes a mail, once per idempotency key. *)
Accept(k) ==
  /\ k \in wire
  /\ wire' = wire \ {k}
  /\ accepted' = accepted \cup {k}
  /\ UNCHANGED <<rowVars, regVars, senderVars, req>>

(* The provider answers 2xx, also when it had taken this key before. *)
ReplyOk(s) ==
  /\ pc[s] = "waiting" /\ \A claim \in cur[s] : KeyOf(claim) \in accepted
  /\ pc' = [pc EXCEPT ![s] = "record"]
  /\ result' = [result EXCEPT ![s] = "ok"]
  /\ UNCHANGED <<rowVars, regVars, batch, cur, faults, mailVars, req>>

(* The provider answers an error.  This request is then not taken, but an   *)
(* earlier one with its key may be: wire holds keys, so the key may go or    *)
(* stay.  429, 409, 5xx and transport errors are retryable, other 4xx        *)
(* permanent.                                                               *)
ReplyError(s) ==
  /\ pc[s] = "waiting"
  /\ pc' = [pc EXCEPT ![s] = "record"]
  /\ \E lost \in SUBSET {KeyOf(claim) : claim \in cur[s]} : wire' = wire \ lost
  /\ \E res \in {"retry", "permanent"} : result' = [result EXCEPT ![s] = res]
  /\ UNCHANGED <<rowVars, regVars, batch, cur, faults, accepted, req>>

(* withTimeout(): no answer in time; the provider may still take the mail. *)
Timeout(s) ==
  /\ pc[s] = "waiting"
  /\ pc' = [pc EXCEPT ![s] = "record"]
  /\ result' = [result EXCEPT ![s] = "retry"]
  /\ UNCHANGED <<rowVars, regVars, batch, cur, faults, mailVars, req>>

(* Mutant: record() does not compare the generation. *)
MutRecordAnyGeneration(claim) == status[claim.reg] = "sending"

(* The WHERE clause of record(): the row is still this claim's to settle. *)
RecordApplies(claim) ==
  status[claim.reg] = "sending" /\ gen[claim.reg] = claim.gen

(* Mutant: one attempt too many. *)
MutRetryAtTheLimit(claim, res) == res = "retry" /\ claim.attempts <= MaxAttempts

(* Another attempt is due only while the budget lasts. *)
WillRetry(claim, res) == res = "retry" /\ claim.attempts < MaxAttempts

(* Mutant: the mailer's verdict is stored as the status. *)
MutOutcomeIsVerdict(claim, res) == res

Outcome(claim, res) ==
  IF res = "ok" THEN "sent" ELSE IF WillRetry(claim, res) THEN "pending" ELSE "failed"

(* record(), then the next claim of the batch or the end of the tick. *)
Record(s) ==
  /\ pc[s] = "record"
  /\ \E claim \in cur[s] :
       IF ~RecordApplies(claim) THEN UNCHANGED <<status, due, stale>>
       ELSE /\ status' = [status EXCEPT ![claim.reg] = Outcome(claim, result[s])]
            /\ due' = [due EXCEPT ![claim.reg] = ~WillRetry(claim, result[s])]
            /\ stale' = [stale EXCEPT ![claim.reg] = FALSE]
  /\ pc' = [pc EXCEPT ![s] = IF batch[s] = {} THEN "idle" ELSE "next"]
  /\ cur' = [cur EXCEPT ![s] = {}]
  /\ result' = [result EXCEPT ![s] = "none"]
  /\ UNCHANGED <<attempts, gen, cooled, redeemed, reclaims, regVars, batch,
                 faults, mailVars, req>>

(* The process dies, or a query of tick() throws: the claims are forgotten, *)
(* their rows stay `sending`.                                               *)
Abandon(s) ==
  /\ pc[s] # "idle" /\ faults < MaxFaults
  /\ faults' = faults + 1
  /\ pc' = [pc EXCEPT ![s] = "idle"]
  /\ batch' = [batch EXCEPT ![s] = {}]
  /\ cur' = [cur EXCEPT ![s] = {}]
  /\ result' = [result EXCEPT ![s] = "none"]
  /\ UNCHANGED <<rowVars, regVars, mailVars, req>>

-----------------------------------------------------------------------------
(* Time *)

Held(s) == batch[s] \cup cur[s]

(* Sending a whole batch, each call up to its timeout, takes this long. *)
BatchMayOutliveStale == Batch * SendTimeout >= StaleAfter

(* Two minutes pass on a `sending` row.  A worker that is still alive has   *)
(* finished its batch by then, unless the batch is too long for that.       *)
GoesStale(r) ==
  /\ status[r] = "sending" /\ ~stale[r]
  /\ reclaims[r] < MaxReclaims
  /\ (\E s \in Senders : \E claim \in Held(s) : claim.reg = r) => BatchMayOutliveStale
  /\ stale' = [stale EXCEPT ![r] = TRUE]
  /\ UNCHANGED <<status, attempts, gen, due, cooled, redeemed, reclaims,
                 regVars, senderVars, mailVars, req>>

BackoffElapses(r) ==
  /\ status[r] = "pending" /\ ~due[r]
  /\ due' = [due EXCEPT ![r] = TRUE]
  /\ UNCHANGED <<status, attempts, gen, stale, cooled, redeemed, reclaims,
                 regVars, senderVars, mailVars, req>>

CooldownElapses(r) ==
  /\ ~cooled[r]
  /\ cooled' = [cooled EXCEPT ![r] = TRUE]
  /\ UNCHANGED <<status, attempts, gen, due, stale, redeemed, reclaims,
                 regVars, senderVars, mailVars, req>>

-----------------------------------------------------------------------------
ClientStep ==
  \E c \in Clients :
    \/ \E ids \in SUBSET Regs : BulkStart(c, ids)
    \/ BulkSelect(c)
    \/ \E r \in Regs : BulkNext(c, r) \/ \E op \in ClientOps : Load(c, op, r)
    \/ InsertFirst(c)
    \/ Finish(c)

AdminStep ==
  \/ \E r \in Regs : CheckIn(r) \/ Uncheck(r) \/ SoftDelete(r) \/ Restore(r)
  \/ EditEvent

SenderStep(s) ==
  \/ Reclaim(s)
  \/ \E R \in SUBSET Due : ClaimRows(s, R)
  \/ \E claim \in batch[s] : Lookup(s, claim)
  \/ SendWithoutKey(s)
  \/ Call(s)
  \/ ReplyOk(s) \/ ReplyError(s) \/ Timeout(s)
  \/ Record(s)

TimeStep == \E r \in Regs : GoesStale(r) \/ BackoffElapses(r) \/ CooldownElapses(r)

Next ==
  \/ ClientStep
  \/ AdminStep
  \/ \E s \in Senders : SenderStep(s) \/ Abandon(s)
  \/ \E k \in wire : Accept(k)
  \/ TimeStep

Spec == Init /\ [][Next]_vars

(* setInterval keeps every living process ticking, every provider call ends  *)
(* (withTimeout), and time passes; nothing is assumed of the provider.        *)
Fairness ==
  /\ \A s \in Senders : WF_vars(SenderStep(s))
  /\ \A r \in Regs : WF_vars(GoesStale(r)) /\ WF_vars(BackoffElapses(r))

FairSpec == Spec /\ Fairness

-----------------------------------------------------------------------------
(* Properties *)

(* A row says `sent` only when the provider took the mail of the row's      *)
(* current generation: a late record() of an older claim cannot settle it   *)
(* (the guard of credits-sender.service.ts record()).                       *)
SentWasAccepted ==
  \A r \in Regs : status[r] = "sent" => <<r, gen[r]>> \in accepted

(* A row just queued or re-queued goes out under an idempotency key that    *)
(* the provider has not seen and nobody is still using, so the new mail is  *)
(* not swallowed as a repetition of an old one (requeue()'s generation).    *)
QueuedIsFresh ==
  \A r \in Regs :
    status[r] = "pending" /\ attempts[r] = 0 =>
      /\ <<r, gen[r]>> \notin wire \cup accepted
      /\ \A s \in Senders : \A claim \in Held(s) : KeyOf(claim) # <<r, gen[r]>>

(* The mails an attendee gets never outnumber the generations opened for    *)
(* them, whatever crashes, timeouts, lost answers and reclaims happened.    *)
Opened(r) == IF status[r] \in {"none", "not_sent"} THEN 0 ELSE gen[r]
OneMailPerGeneration ==
  \A r \in Regs : Cardinality({k \in accepted : k[1] = r}) <= Opened(r)

(* Why the three hold: keys and claims belong to generations already opened, *)
(* an answer `ok` is about a mail the provider has, and a row being sent has  *)
(* spent an attempt, so a retry is never taken for a fresh mail.              *)
KeysOpened == \A k \in wire \cup accepted : k[2] \in 1..Opened(k[1])
HeldOpened ==
  \A s \in Senders : \A claim \in Held(s) : claim.gen \in 1..Opened(claim.reg)
OkMeansAccepted ==
  \A s \in Senders : result[s] = "ok" => \A claim \in cur[s] : KeyOf(claim) \in accepted
SendingHasAttempt == \A r \in Regs : status[r] = "sending" => attempts[r] > 0
QueueInv ==
  /\ KeysOpened /\ HeldOpened /\ OkMeansAccepted /\ SendingHasAttempt
  /\ SentWasAccepted /\ QueuedIsFresh

(* No two workers hold the same row at once (the class comment of           *)
(* CreditsSender), as long as a batch cannot outlive STALE_SENDING_MINUTES. *)
ExclusiveClaim ==
  \A s, t \in Senders : s # t =>
    {claim.reg : claim \in Held(s)} \cap {claim.reg : claim \in Held(t)} = {}

(* Why: a held row is `sending` and fresh, so nobody else reclaims or claims *)
(* it, and a worker's claims are of different rows.                          *)
ClaimInv ==
  /\ \A s \in Senders : \A claim \in Held(s) :
       status[claim.reg] = "sending" /\ ~stale[claim.reg]
  /\ \A s, t \in Senders : \A c \in Held(s), d \in Held(t) :
       c.reg = d.reg => c = d /\ s = t
  /\ \A s \in Senders : batch[s] \cap cur[s] = {}

(* A generation is tried at most MAX_EMAIL_ATTEMPTS times, plus once for    *)
(* every time its row was reclaimed from a worker presumed dead.            *)
AttemptBudget == \A r \in Regs : attempts[r] <= MaxAttempts + reclaims[r]

(* The first redemption stays until an organizer undoes it, whoever reports *)
(* it again and in whatever order (confirm(), redeem(), unconfirm()).       *)
FirstRedemptionKept ==
  [][\A r \in Regs :
       redeemed[r] # "no" /\ redeemed'[r] # redeemed[r] => redeemed'[r] = "no"]_vars

(* The rows, workers and provider together keep the promise of              *)
(* CreditsPromise: the refinement mapping reads a row's phase off its status.*)
Phase == [r \in Regs |->
            CASE status[r] \in {"none", "not_sent"} -> "quiet"
              [] status[r] \in {"pending", "sending"} -> "open"
              [] OTHER -> status[r]]
Promise == INSTANCE CreditsPromise
             WITH phase <- Phase, generation <- gen, delivered <- accepted
KeepsPromise == Promise!Spec

(* A queued mail is eventually settled, sent or failed, although workers    *)
(* crash mid-send and the provider may never answer.                        *)
QueuedIsSettled ==
  \A r \in Regs :
    status[r] \in {"pending", "sending"} ~> status[r] \in {"sent", "failed"}
=============================================================================
