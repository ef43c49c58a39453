# Verification of the BWAI registration system

TLA+ models, TLC configurations and TLAPS proofs for the GDG Kolachi
registration system: the backend (`src/backend`, NestJS, TypeORM, PostgreSQL) and
the pages of the frontend (`src/frontend`, React, TanStack Query) that keep state
of their own. Everything is modelled from the code; the documents and comments
are quoted where the code does something else.

## 1. The system

One Node process (or several: nothing in the code prevents a second instance)
serves HTTP requests and runs two timers. All shared state is in PostgreSQL.
A handler is a sequence of statements with `await`s between them; only
`registerTeam` and `swapMembers` use a transaction. Handlers therefore
interleave at every statement, and a crash stops one between any two. The pages
hold copies of what they were sent, patch them, and go on from them.

| Component (source) | State | Operations | What makes it correct |
|---|---|---|---|
| Credits queue (`credits/`) | `credit_redemptions`: status, attempts, generation, backoff, redeemed | queue on check-in, send, bulk, resend, QR, confirm, unconfirm, redeem; worker: reclaim, claim, attempt, record | one mail per generation, "sent" only if taken, everything queued is settled, two workers never hold one row |
| Registration seats (`registrations/`, `admin/admin.service.ts`) | `registrations`, `attendees`, `events.max_capacity` | register, registerTeam, soft delete, restore, capacity and status edits | no more registrations than seats, nobody twice, one event per type |
| Exceptions (`exceptions/`) | `exception_requests` | submit, approve, reject | a request registers its attendee at most once |
| Team deposit (`teams/teams.service.ts`, `team-payment.ts`) | payment columns of `teams` | request, submit, confirm, reject, expiry | the clock starts only on a team that was told, what is stored was submitted in time, a payment is not undone |
| Registration status (`admin/admin.service.ts`) | `status`, `acknowledged`, `acknowledgement_expired`, `checked_in`, `deleted_at` | status changes, acknowledge, lock, unlock, expire, scan, toggle, self check-in, delete, restore | only valid transitions, only seated people check themselves in, an expiry is final |
| Team assignment (`teams/team-assignment.service.ts`) | `teams`, `team_members`, the settings | assign at check-in, register, move, swap, remove, rebalance, lock, unlock | teams within their size, sealed and locked rosters kept |
| Online events (`online/`, join page) | reminder columns of `events`, `registrations` | due reminders, forced send, self check-in, saves of the event | one reminder per event and one more per forced send |
| Admin users (`admin/admin.service.ts`, Users page) | `admins`, the form of each browser | create, update, delete | a super admin remains |
| Email templates (`email/email-templates.service.ts`, editor page) | theme, copy, the cache of each server | edit, reset, render, list | a confirmed edit shows |
| Mailings (`admin/admin.service.ts`, `email/email.service.ts`) | `registrations`, the answer to the admin | reminder, WhatsApp group, window closed, rejection | what failed can be sent again |
| Registrations page (`features/admin/registrations`) | event, filters, page, selection, drawer, dialogs | everything on the page, the requests it has under way | acts on what is shown |
| Check-in desk (`hackathon-checkin`, `checkin`, `qr-scan`, `mobile-checkin`) | the list and the card on the screen | check in, undo, bulk, scan, reload | the screen does not invent check-ins, nobody is unchecked by a check-in |
| Registration forms (`features/registration`) | the answers, the issues, the event as fetched | type, tick, add and remove members, submit | page and backend agree on what is valid |
| Events, event types, seed, cli, migrations, other pages, deployment | their tables | edits, listings | see section 7 |

Components meet in the tables. A check-in (`markAttendedFromScan`,
`selfCheckin`) calls `queueOnCheckin`; `confirmTeamPayment` calls
`bulkUpdateStatus`; an approved exception inserts a registration; deleting a
registration frees a seat and fails its credits mail. The hard parts are
overlapping handlers, whole rows loaded, edited and saved back by
`repository.save`, the mail provider (an answer may be late or lost), crashes
between two writes, and pages that go on from what they were told before.
`PROJECT.json` lists each such hazard at its line.

## 2. The modules

| Module | What it is |
|---|---|
| `CreditsQueue` | the queue table, its handlers, the workers and the provider |
| `CreditsPromise` | abstract: a generation is opened, its one mail delivered or given up |
| `MCCredits` | instances for TLC |
| `CreditsProofs` | theorems about `CreditsQueue` |
| `RegistrationSeats` | registrations, exceptions, deletion, restore, capacity |
| `SeatBook` | abstract: teams take their seats in one step or not at all |
| `MCSeats` | instances for TLC |
| `SeatRaces` | `RegistrationSeats` with a history of what overtook each request |
| `MCSeatRaces` | instances for TLC |
| `SeatsProofs` | theorems about `RegistrationSeats`: types, the team's transaction, captains |
| `SeatsRaceProofs` | theorems about its concurrent requests, and about `SeatRaces` |
| `RegistrationStatus` | `VALID_TRANSITIONS`, the effect of a status change, `repository.save` |
| `TeamDeposit` | the deposit of a team and the shortlisting it triggers |
| `MCDeposit` | instances for TLC |
| `DepositProofs` | theorems about `TeamDeposit` |
| `RegistrationLifecycle` | a registration and its event under everything that writes them |
| `MCLifecycle` | instances for TLC |
| `LifecycleProofs` | theorems about `RegistrationLifecycle` |
| `TeamScoring` | pure: team size, roles, domains, the score, the next trade of a rebalance |
| `TeamAssignment` | assignment, moves, swaps, rebalance and locks, on `TeamScoring` |
| `MCTeams` | instances for TLC |
| `TeamsProofs` | theorems about `TeamAssignment` |
| `AdminUsers` | the Users page and the account handlers |
| `EmailTemplates` | theme and copy, the caches, the editor |
| `OnlineReminder` | reminder, forced send, self check-in and the join page |
| `AdminMailings` | the four mailings to a list, on `RegistrationStatus` |
| `RegistrationsViewer` | the Registrations page |
| `CheckinDesk` | the desk's pages and the scanners |
| `RegistrationForms` | the public forms and both sets of rules |
| `MCConsole` | the last seven, one at a time, for TLC |
| `PanelProofs` | theorems about the first four of them |
| `PagesProofs` | theorems about the pages (desk, Registrations page, forms) and about `MCConsole` |

Operators named `Mut...` are faulty variants of the definition they precede,
used to check that each property notices a plausible bug. They are not part of
any specification.

### CreditsQueue

Each SQL statement is an action; a handler keeps what it read in `req[c]` until
its next statement. `status`, `attempts`, `gen` are the columns of the same
meaning; times are reduced to three facts, `due` (backoff over), `stale`
(`updated_at` older than `STALE_SENDING_MINUTES`) and `cooled` (resend cooldown
over). The worker's phases (`pc`) follow `tick`, `process`, `attempt` and
`record`: reclaim and claim, look the row up, call the provider, store the
outcome if the row is still `sending` in the same generation. `wire` holds calls
the provider may still process, so a timed-out call can succeed later;
`accepted` the idempotency keys it took.

A row is thought to be reclaimed only from a dead worker. That is right while a
batch is shorter than two minutes, which `BatchMayOutliveStale` decides from the
constants: with `CREDITS_EMAIL_PER_SECOND` of 8 or more, eight calls that all
time out at 15 s take as long as the limit, and a living worker can be
overtaken. The race run is set in that regime (a batch of two, each as long as
half the limit), the liveness run in the normal one.

`sendBulk` works through the ids it was given, or through everybody checked in when
it was given none.

### RegistrationSeats

`register` is six statements without a lock, `registerTeam` one transaction.
PostgreSQL's part is explicit: `FOR UPDATE` excludes the lock an event UPDATE
takes and the `FOR KEY SHARE` of the foreign key check of an INSERT into
`registrations`, so insertions wait for a captain (`Unlocked`), while restoring
a registration, an UPDATE that leaves the foreign key alone, does not wait.
Statements run at READ COMMITTED. What a transaction writes becomes visible at
its COMMIT, which is why `CommitTeam` is one step. The form's own validation
(domains, skills, tracks, slots) decides only whether a request starts; address
case variants count as different people, as they do in the table. Whether an
event accepts exceptions is fixed. `Abort` is a crash or a failed statement, for
example the unique violation of two first teams that both create the
`team_formation_configs` row. Ids and requests are bounded by `Regs`, `Excs`
and `Clients`. People who already had a row are checked one after the other, as the
loop does (`ask`). `lockAcknowledgements` saves the event as it was loaded, with its
`max_capacity` and its status (`ackLock`); a capacity of 0 can be set.

`SeatRaces` adds one history variable and no behaviour: `overtaken[c]` collects, from
the moment request `c` starts to its end, what the steps of the others did (events that
got a seat fewer, people who got a seat, exceptions that registered their attendee).
With it a property can say that a wrong answer is given *only* on a read that had
become stale: a check that is dropped or comes too late violates it even when two
requests are in flight, and a request that nobody overtook has no excuse.

### TeamDeposit

One team is enough: a bulk request handles its teams one after the other and
rows of different teams do not interact. A handler loads the row, edits the
loaded entity and saves it. `repository.save` is a SELECT that finds the
columns in which the table now differs from the entity and an UPDATE of those
columns (`ChangedColumns`, `UpdateColumns` in `RegistrationStatus`); anything
may happen in between, and a stale entity writes back every column another
request changed. The mail step has three outcomes (refused; taken; taken with the
answer lost). `expired` is derived from the clock, as in `team-payment.ts`.
`at` is `payment_submitted_at`, as a set that is empty where the column is NULL.
`stale`, `told` and `openEnded` (the team was once free to submit at any time) are
history variables: nothing but the properties reads them.

Left out of the row: names, notes, reasons, the confirming admin and the other time
stamps. The lock columns of `teams` are left out too, but not their writers:
`lockTeams` and `unlockTeam` save the whole row and are the operation `lock`.

### RegistrationLifecycle

`row` and `event` are the columns named above. `save` is a SELECT (`SaveRow`) and an
UPDATE of the columns that differ (`WriteRow`), as in `TeamDeposit`; in between any
other request may run. `lockAcknowledgements` saves the event and then updates its
rows in one statement (`ExpireAll`); `selfCheckin` is a SELECT and an UPDATE by id,
which does not ask again what the SELECT was for (`MaySelfCheckin`). The operation
`touch` stands for the handlers that mean to store another column (the QR code of a
reminder, the role of a check-in) and save the row whole. `stale` is a history
variable: another request has written since this one loaded.

### TeamAssignment, TeamScoring

`Choose` is the decision of `assignAtCheckin` on what it has read (the best open team
of the domain with room for the role, else a new team, else the best of the domain
or of all), `Create`
and `Join` its two writes with the unique keys they can run into. `RegisterTeam`,
`MoveMember`, `SwapMembers`, `Unassign`, `Rebalance`, `LockTeams`, `UnlockTeam`,
`UpdateConfig` follow the service. Teams are never deleted, so `teams` is a sequence
and a team is its place; `member` is the table `team_members`. SQL leaves the order
of rows open where the code asks for none, and so does `Rebalance`. The score
of a team is taken times `max_team_size`, by which the code divides.

`rebalance` reads settings, teams and members once and then goes through the
pairs of teams, one save of two members a trade. `run` is where its loops are: the lists it
trades in, the place (`at`) and the two arrays it iterates over (`as`, `bs`), taken
before the trades it makes. `NextTrade` finds the next pair whose exchange scores
better, without looking at the tables again, as the code does; `Rebalance` starts
with the first and `SaveTrade` goes on with the next. So each save is a step of its
own, with whatever other requests do in between. TLC reaches a rebalance of more
than one trade in `teams_rebalance` only, with four people; the proofs hold for
any number.

### AdminUsers

Two browsers with tokens that say `super_admin`; a dialog holds the role the
account had when it was opened and sends it with every edit. `CountSuperAdmins`,
`SaveUser`, `UpdateUser` and `RemoveUser` are the statements of the service.

### EmailTemplates

A text is the number of the edit that made it. A load is two reads in any order
and a store into the cache; an edit is a write, then `invalidate`. A server that
restarts has no cache. `overlapped` and `failed` say why a cached text may be old.

### OnlineReminder

Each instance ticks: it looks for a due event, claims it, lists the recipients, mails
in chunks and stores the count; it may die in between. `now` is the admin's forced
send. `saver` is any handler that loads the row of the event and saves it whole; the
claim it takes back is counted in `undone`, a forced send of a reminder already
claimed in `resent`. Time has units of 15 minutes. The join page of a guest refreshes,
opens and posts the self check-in.

### AdminMailings

A request walks its ids (load, check, for "window closed" and rejection save),
then mails who is eligible. A mail is taken or refused, and a request may stop
anywhere. The attendee acknowledges and admins change rows meanwhile.

### RegistrationsViewer

One browser. `query` is what the page asks for; `result` what it shows, or
"Loading"; a page asked for before may be shown at once (`kept`). `selected`,
`drawer`, `openTeam`, `dialog` are the page's state hooks, and an action is one
handler of a control with the `useEffect`s it triggers. `requests` are mutations
under way; carrying one out changes `table`, answering it refetches. `Covered`
says a dialog hides the controls under it. A row has the two columns the filters
read: its status and whether it is deleted; a team matches a status by any of its
members, deleted ones too. A kept page is answered with fresh rows, though the cache
would serve it up to 30 s old. What others change looks like one of
the page's own requests carried out late.

### CheckinDesk

The list page, of a hackathon or of any other event, and a scanner beside it. A
handler is up to two calls (toggle, then assign), each done, refused, or done with
the answer lost; bulk operations go through a list read once (`snap`). `held` is the list
the page's own scanner was started with, whose callback keeps using it; `load` a
load whose answer is still to come and replaces whatever is shown by then.
`mishaps` is a history: with whom something has gone wrong (a lost answer, an
assignment refused after the toggle, another browser, a second handler or an
earlier list) since the page last had a clean list.

### RegistrationForms

`page` is the event as fetched, `event` as stored. A card has the answers the two
sets of rules tell apart: an address that is sound, missing or `odd` (`a@b.c`
passes the page's pattern and not `IsEmail`), a CNIC half typed or whole, a text
missing, sound, too long, or too long only with the blanks around it (`padded`),
skills and the primary one. A `max_team_size` of 0, which `updateConfig` accepts, is
no limit to the page's rules, is shown as `UnsetSize` (4 in the code), and refuses
every team in the backend. `ValidateForm`, `ValidateMember` and `ValidateTeam`
are the page's rules, `Payload` and `TeamPayload` what the adapters send,
`RegisterTakes` and `RegisterTeamTakes` the DTOs and the service.

## 3. What the runs check

| Run | Question | Bounds |
|---|---|---|
| `credits_race` | Two workers, overlapping batches, crashes, resends, a deletion: is "sent" true, is a queued row's key fresh, is there one mail per generation, do attempts stay in budget, is the abstract promise kept? | 1 row, 2 workers, batch of 2, 2 attempts, 2 generations, 1 crash, 1 reclaim |
| `credits_live` | Is every queued mail eventually sent or failed, and is no row held twice, if batches are short? | 1 row, 2 workers, 2 crashes, 2 reclaims |
| `credits_desk` | Does the first redemption stay, with every handler and event edit interleaved? | 1 row, 2 requests, 2 generations |
| `seats_captains` | Do concurrent captains, cancellations, status edits and locks of the acknowledgements behave as the atomic `SeatBook`, never oversell, never register anyone twice? | 4 rows, 4 people, teams of 2, 3 seats, 2 requests |
| `seats_overshoot` | With unlocked registrations and restores and approvals too, how far can an event be oversold, and is a team's count disturbed? | 3 rows, 2 people, 1 exception, 3 requests, up to 2 seats; 1.42 million states |
| `seats_review` | With any two requests overlapping at every statement, and crashes: is an event oversold, a person seated twice or an exception used twice by a request that nobody overtook? | 2 rows, 1 exception, 1 person, 2 events of a type that allows one, 2 requests of every kind but status edits, teams of 1, 0 to 2 seats; 2.35 million states |
| `seats_twice` | violation: two `register` calls of one attendee both insert | 2 requests |
| `deposit_race` | Two overlapping requests, crashes, lost mails, an expiring window: does the clock start only on a told team, is what a review finds submitted in time, and who can undo a payment or cut a window short? | 1 member, 2 requests, status confirmed set by hand, window 1, clock up to 2; 12 million states |
| `lifecycle` | Any two requests on one registration and its event: do statuses follow the rules, is only somebody seated let in by the self check-in, is an expiry final, but for what an overlap loses? | 1 row born shortlisted, 2 requests, all operations, 3 statuses to set; 8.33 million states |
| `teams_race` | Any two requests on teams: are full, sealed and locked rosters and the number of teams kept, but for what an overlap loses? | 2 people of different roles and domains, 2 teams, 2 requests, teams of one or one team of two with top-up |
| `teams_rebalance` | violation: a rebalance moves a person without one in return | 4 people of one role, 2 teams of 2, 1 request |
| `console` | Seven components, one at a time (`part`): the last super admin, confirmed edits of mail texts, one reminder, retries of a mailing, the selection and the drawer of the Registrations page, the desk's list and whom it unchecks, the forms' rules and issues | below |

Why the bounds are enough to be of interest. In `credits_race` a reclaim by the second
worker while the first still holds the row, and a resend after "sent", are both
reachable, and they are what the generation in the key is for. In `seats_captains` two
teams of two want three seats, so one must fail, and the cancellation of one seat lets
a later one in. In `seats_overshoot` a team and two solo requests meet at two seats,
and so do an approval and a team. In `seats_review` every excuse of the properties
occurs (two rows and two requests are enough for each of them: an oversold seat, a
second seat, a second grant need two requests and two rows), and so do crashes after
which a request is not repeated; it is the run in which organisers edit the capacity
and lock acknowledgements, and in which a captain meets all of this. (TLC reports its
steps as one action, `FollowedNext`, because the history of `SeatRaces` is conjoined
to the whole of `Next`.) In `deposit_race` the clock passes the first deadline, so
submissions are refused, one that was loaded in time is saved late, and the window can
be opened again. In `lifecycle` and `teams_race` every pair of operations overlaps at
every statement, and requests that follow each other are not limited in number. Every
passing run checks a small instance only; section 5 says what is proved beyond it.

The components of `console` share no variable. One initial state per value of
`part` moves one of them and keeps the others still, so that the states add up
instead of multiplying: about three million. Their instances:

* users: 2 accounts, both super admins, a browser signed in as each;
* templates: 1 server, 2 loads, 2 edits of the theme and 2 of the copy;
* online: 1 guest, 2 instances and the forced send, due at 1, start at 2 (units of
  a quarter of an hour), 1 crash, 1 save of the event, 1 forced send of what was
  claimed, 2 mails;
* mailings: 1 registration, all four mailings, any number of them in a row (the
  rows do not interact);
* viewer: 3 registrations of one event in 2 teams and an event without any, pages
  of 2, the default filter and "Show deleted", 1 mutation under way;
* desk: 2 attendees, one acknowledged, one on a sealed team, both kinds of event,
  one handler of the list page; at most two at a time of that handler, the other
  browser's marks, a late load and a started scanner;
* forms: 8 states of an event (hackathon with teams of up to 2, 3 or 0, online or not,
  workshop, lounge with, without tracks and closed), a limit of 3 shown for 0, 3
  addresses and an odd one, 3 skills of which 2 may be chosen, `TypedCards` to fill a
  member's card with.

Its view (`Moving`) leaves out the variables of the parts that stay still. The
symmetry of `console` exchanges the two browsers together with their accounts,
the two loads and the two instances; nothing else in the run tells them apart. The
rows of the viewer are ordered, so they are not exchanged, nor are the attendees of
the desk, who differ.

Properties called `...Only` say exactly what an overlap can lose. They hold for
requests that do not overlap without exception; where the code loads a row, waits
and writes, they allow the loss to the request that acted on an old read, and to no
other. Each such exception is a race the code has, listed under section 6.

Both violation runs show a disagreement with what a comment of the repository says;
`PROJECT.json` quotes the lines under `findings`.

`OversoldByRaceOnly` is the exact damage of the missing lock: apart from the seats
organisers approve beyond the capacity, at no time do registrations and seats
promised to requests in flight exceed the capacity by more than what the other
requests in flight can have been promised; so long runs do not accumulate an
excess. `LostOnlyToStaleSave` is the same kind of statement
for payments: two requests that do not overlap never undo one.

Deadlock checking is on in every run but `teams_rebalance`, in which nobody edits
the settings: when everybody has a team and none has room, nothing is left to do.

## 4. Fairness

Only `credits_live` uses fairness: weak fairness of each worker's step
(`setInterval` keeps ticking in a living process and `withTimeout` ends every
provider call) and of time passing for a row (backoff, the stale limit). Nothing
is assumed of the provider, which may never answer, nor of the requests. A
crashed worker starts again, as a restarted process does. The operations that set
`updated_at` on a row (`redeem`, `confirm`, `unconfirm`) are left out of this run:
somebody who redeems again and again before two minutes pass keeps a stuck
`sending` row from being reclaimed, for as long as they go on.

## 5. What is proved

All proofs are for any values of the constants that satisfy the `ASSUME` of the
module; `PROJECT.json` lists every theorem with the property it states. Except
where a hypothesis is named below, a theorem reads `Spec => property`. The seven
components of `console` have no `Spec` of their own; their theorems start from
`XInit /\ [][XNext]_xVars`, of which the run composes them. The assumptions are what
a deployment or a table is: finite sets of people, rows and instances, limits that
are numbers, pages and team sizes of at least one (in the forms only the least size
is; the largest may be 0), mutual consistency of the
settings that `updateConfig` checks.

### Credits queue (`CreditsProofs`)

* `SentTruthfully`, `QueuedFreshly` and `OneMail` follow from `QueueInv`: keys on the
  wire or accepted, and claims held, belong to generations already opened; an answer
  "ok" is about a mail the provider has; a row being sent has spent an attempt. The
  properties alone are not inductive because a worker's old claim, not the row,
  decides what is recorded.
* `AttemptsBounded` needs a count (`BudgetInv`): claims of one generation carry
  different attempt numbers, and the tries of a row still to be recorded, with those
  spent beyond the limit, do not exceed its reclaims (one more while it is being sent).
* `QueueKeepsPromise` maps each step to one of `CreditsPromise` or to a stutter.
* `ClaimsExclusive` assumes `~BatchMayOutliveStale`; without that it is false.
* `FirstRedemptionStays` needs the types only: the guards are in the statements.

### Registration seats (`SeatsProofs`, `SeatsRaceProofs`)

* `TypeCorrect` needs the phases a request of each kind can be in, and that the row
  it works on exists. `TeamUndisturbed` needs in addition that a team's transaction
  holds the event's lock from its count to its commit.
* `CaptainsCorrect` and `CaptainsBookAtomically` restrict the requests to captains,
  cancellations, status edits and locks of the acknowledgements, which write back the
  capacity nobody edits (`Ops \subseteq CaptainOps`). `CaptainInv` says that
  counted seats still fit and checked people are still without a seat; so what a
  captain holds is what `SeatBook` takes in one step at the commit.
* `OversoldByRaces` is for any number of requests of every kind but one: nobody edits
  the capacity (`"capacity" \notin Ops`). `EventsService.update()` counts before it
  writes, and any number of registrations may come in between, so no bound holds of it.
  Approvals exceed the capacity by intent; the property counts only the rows no
  organiser approved, and the proof shows that an approval adds none of them. `RaceInv`
  says what each request has counted and whom it holds; the proof counts the pairs
  (request, person) promised a seat. It assumes finitely many requests and team sizes,
  without which the sum does not exist.
* `OversoldByOvertaking`, `SecondSeatByOvertaking` and `GrantedTwiceByOvertaking` are
  about `SeatRaces` (they read `FollowedSpec => property`) and have no hypothesis: every
  operation, any number of requests, people, events and rows, with overlaps and crashes
  anywhere. `FollowInv` says of each request what its reads are worth as long as nobody
  overtook it: an event it counted still has the room it counted, a person it checked
  still has no seat, an exception it found pending has registered nobody. Each
  statement of another request either keeps this or is recorded in `overtaken`.
* `FollowedRefines`: a behaviour of `SeatRaces` is one of `RegistrationSeats`, so the
  history restricts nothing.

### Registration status (`LifecycleProofs`)

`TypeCorrect`, `StatusMovesByRules`, `ExpiryStays`. The strengthening is `HeldOK`: a
request that is not stale holds something that follows by the rules from the row *as
it is now*, and a self check-in about to be stored is of somebody who may. Nothing of
the kind holds of a stale one, which is the exception the properties make.

### Team deposit (`DepositProofs`)

`ToldFirst`, `SubmittedInTime` and `PaymentKept` follow from an invariant on what
handlers hold (`EntOK`): the deadline about to be stored was told, a submission about
to be stored was made within such a deadline (`InTime`), and an entity that is not
stale keeps what was paid and reported and the window that is open; no window ends
later than one that begins now (`Begun`). `UpdatedTeam` is the lemma
on `repository.save`: each column is the old one or the new one, never a third.

### Team assignment (`TeamsProofs`)

`TypeCorrect`, `CaptainsTeamsKept`, `LockedTeamsKept`, `FullTeamsStayFull`, `CapKept`.
`TeamInv` adds to the types what a waiting request knows of the tables (`KnownOK`). A
part is true for good, as where a team came from, which no statement changes: a
rebalance never lists a captain's team. The rest holds until another request
writes (`~stale`): the team a member is about to join is unlocked and has room, and
the lists of a rebalance hold members of its teams and nobody else. That the lists
keep this through any number of trades is a lemma about `Trade` and `Traded`.

### Users, mail texts, reminder, mailings (`PanelProofs`)

* `LastSuperAdmin`: a request that is not stale either keeps a super admin or has seen
  another one (`Spared`).
* `EditsShow`: no server has confirmed what is not stored (`StoredIsNewest`), and what
  a load has read so far is as new as what its server confirmed (`LoadsReadNewest`).
* `ReminderClaimed`: mails sent to a guest and senders still to mail them are together
  at most the claims taken back, the forced sends that found one, and the one in the
  row (`ClaimsCount`).
* `ExpiredCanBeMailed`: who was marked stays expired, and a save in flight never takes
  that back (`SavesExpiry`).

### The pages (`PagesProofs`)

* `NobodyUncheckedUnawares`: what a handler, a late load or the page's scanner goes by
  is so, or somebody met with a mishap (`CallsRight`, `LoadRight`, `ScannerRight`), and
  a check-in never toggles whom it was shown as checked in (`CallInOrder`).
* `TickedWasListed`, `DrawerStepsToNeighbour`: the result on the screen is what the
  query asks for, or it is loading; the drawer is at the place it was steered to
  through every reload and turn of a page (`KeepsItsPlace`, arithmetic on pages of any
  length).
* `IssuesStayAtTheirCards`, `BothSetsOfRulesAgree`: cards are whole, and an issue at
  place `i` is that of the card at `i` (`Matched`), through adding and removing
  members. The second theorem compares the two sets of rules case by case for any
  event and any answers.
* `DeskTyped`, `ViewerTyped`, `FormTyped`: the types, which say more than types where
  the code computes an index. The Registrations page is `Within` the table: what is shown,
  ticked or sent are rows of it, the page asked for is one there are rows for, the drawer
  and what it is steered to stay in the list. This needs that a row of a sorted list is a
  row (`InOrderWithin`: each place from 1 to `n` is the rank of somebody, because `n`
  different rows have `n` different ranks), and `DrawerInv`. In the forms no card
  ever has a skill twice, too many of them or a primary one that is not ticked
  (`UntickedTyped`, `TickedTyped`: filtering a skill out takes one place away because it
  was there once), and there is always a free key for a new card (`FreshKeyIsKey`: cards
  and issues together are fewer than the keys).
* `ConsoleTypeCorrect` puts these and the four of `PanelProofs` together: `Spec =>
  []TypeOK` of `MCConsole`, for any constants. A step of `MCConsole` is one of one
  component and leaves the others alone.

### Only model-checked

* `QueuedIsSettled`: liveness under fairness is out of the prover's reach, as is
  `ENABLED`.
* The two disagreements of section 6: a counterexample is what they are.
* Recursive computations. The modules above have none: the score of a team counts
  with `SelectSeq`, and the trades of a rebalance are a step each.

## 6. Findings

With a run:

1. Two overlapping `register()` calls of one attendee both insert
   (`registrations.service.ts:141`, run `seats_twice`).
2. `rebalance` iterates over the member list it had before its own trade and
   moves a second person without one in return, so a "pairwise swap pass" changes
   the sizes of teams (`team-assignment.service.ts:276`, run `teams_rebalance`).

Allowed by the properties, because the code has the race, and named in them:

* A payment confirmed while `requestTeamPayment` waits for its mail is overwritten
  by the row that handler had loaded; `lockTeams` can do the same, and can bring back
  a deadline that had been extended (`LostOnlyToStaleSave`). A submission made in time
  is stored though its window closes meanwhile (`ReviewedInTime`).
* A status, an acknowledgement or an expiry comes back with a row loaded earlier
  (`StatusByRules`, `ExpiryIsFinal`). The self check-in lets in somebody who was
  rejected, expired or deleted between its checks and its UPDATE (`StatusByRules`).
* Two check-ins, or a check-in and a move, put a team over its size; a move made
  before a lock arrives after it (`OverfilledByOverlapOnly`, `LockedRosterKept`).
* Two super admins who demote each other leave none; an edit of a name with a form
  opened earlier gives a role back (`LastSuperAdminLostByOverlapOnly`).
* A cache filled while an edit ended, or from a failed read, shows old words until
  it ages; other servers do anyway (`ConfirmedEditsShow`).
* A save of the event row takes a reminder's claim back, and it is sent again; a
  forced send goes out whatever was sent before (`RemindedOnce`).
* A count that another request overtook sells a seat too many, whether by `register`,
  a restore or an organiser who lowers the capacity (`events.service.ts:74`)
  meanwhile; `lockAcknowledgements` writes back a capacity that was raised since it
  loaded the event (`admin.service.ts:331`); an approval exceeds the capacity by
  intent (`OversoldWhenOvertakenOnly`).
* A person gets a second seat from overlapping requests, and without any overlap from
  `restoreRegistration()`, which does not ask whether the owner has registered again
  (`admin.service.ts:68`, `SecondSeatWhenOvertakenOnly`).
* Two overlapping `approve()` calls of one request register twice
  (`exceptions.service.ts:90`, `GrantedTwiceWhenOvertakenOnly`).
* At the desk a check-in unchecks somebody whom another browser, a second handler or
  a request with a lost answer had checked in already, because the page asks for a
  toggle (`hackathon-checkin-view.jsx:81`, `UncheckedByMishapOnly`).
* With a `max_team_size` of 0, which `updateConfig` accepts, the page skips its size
  check and shows a limit of four (`team-registration-service.js:76`,
  `team-registration-form.jsx:48`), and the backend refuses every team
  (`LetThroughIsTaken`).

Noticed while modelling, without a run:

* `send()` can mail twice: between INSERT and requeue the worker can settle the new
  row (`credits.service.ts:238-239`); `sendBulk` inherits it. `credits_enabled` is
  not looked at when mail goes out (`credits-sender.service.ts:147`;
  `docs/cloud-credits.md:40`).
* Confirming a deposit sets confirmed members back to shortlisted and asks them to
  acknowledge again (`teams.service.ts:324`, `admin.service.ts:359`).
* Deleted registrations can be checked in, though `admin.service.ts:33-34` says
  they are excluded.
* A crash after the claim loses the reminder; rescheduling an event does not make it
  due again.
* `sendReminder` and `sendRejection` do not look at `deleted_at` and do not name
  the addresses that were refused.
* Only the panel's form (`teams-management.jsx:382`) says that the least size of a team
  is at most the largest; `updateConfig` does not (`teams.service.ts:446`). Otherwise the
  form would start with more cards than a team may have, which is why `MaxCards` is the
  larger one of the two.
* A token keeps its role for 24 hours after the account lost it.
* Registrations page: the drawer is an index, so a refetch may show another person
  under it, and a drawer hidden by a shorter list comes back with a longer one; the
  team that is open survives a change of event; "Export CSV" passes the click event
  as its option and exports the selection only (`registrations-viewer.jsx:1215`);
  counts of who is eligible look at the current page while all ticked ids are sent;
  the success of a bulk update clears a selection made meanwhile.
* Desk: the hackathon page shows `attended` where the toggle stores no such status;
  undoing a seat on a sealed team is answered `unassigned: false` and shown as done;
  the scanner's callback keeps the list it was started with; a late lookup replaces
  the card.
* Forms: the page lets through addresses that `IsEmail` refuses; the length of one
  person's motivation is counted trimmed on the page, whole in the backend; a CNIC
  half typed stays hidden and is sent when the event goes online, as does a track of
  a lounge that has none any more; "already registered" hides the form for good, so
  that the address cannot be corrected; the duplicate check of a team lower-cases
  addresses, the lookup of attendees does not.

## 7. Not modelled

* Mail rendering and wording, calendar files, token signing, CSV contents,
  listings and statistics: pure functions of the tables, no property is about them.
* The other pages (dashboard, event editor, event types, exception queue, credits
  dashboard and public credits pages, team management, team deposit and lookup,
  event list): each shows one answer and sends one request; the handlers behind
  them are modelled.
* Creation and deletion of events and of event types: rows that appear or cascade
  away, no handler reads them meanwhile but with a "not found".
* Password hashing, the JWT library, the guards of routes, DTOs of admin handlers.
* Migrations, seed and cli: run by hand, once.
* The provider forgetting idempotency keys (it keeps them for a day; the retries
  of a generation take minutes).

## 8. Plan

The components of section 1 that can be checked are modelled and their safety
properties proved. What is left is `send()` that requeues a row the worker has just
settled: a property that says what it costs (one generation, so one more mail),
checked and proved.

No module that is proved about declares a RECURSIVE operator.
