# game-night in TLA+

Specifications, model-checking configurations and proofs for the server side of
game-night: rooms in which people play turn-based games, sessions of those games
owned by one realtime process at a time, and the PostgreSQL and Redis protocols
that hold the processes together. Every definition is translated from the Go
code and the SQL queries; `PROJECT.json` ("map") names the lines of each one.

## 1. The system and its parts

| Process | What it does |
|---|---|
| api (`apps/api`) | room, identity, profile, game and administration calls |
| realtime (`apps/realtime`) | owns running sessions, handles moves, timers and system commands, pushes updates over WebSockets; several processes run side by side |
| worker (`apps/worker`) | checkpoints of the audit chain, administration jobs, cleanup |
| edge, launcher, migrate, adminctl | routing, supervision, schema, operator tool |

PostgreSQL holds everything that must survive; Redis holds leases, presence,
rate limits and wake-ups and may lose them at any time. The parts meet in eight
places:

1. **Rooms.** A handler loads a room, computes the next one with the pure
   aggregate `platform/room`, and stores it with a compare-and-swap on room
   version, membership version and ownership epoch. Starting, pausing, resuming
   and ending a game write room and session in one transaction.
2. **Ownership.** A realtime process claims a session with a Redis key, fences
   it by advancing the epoch of the PostgreSQL row, then makes itself routable.
3. **Commands.** Moves, timers and system commands load the session, let the game
   module compute, and commit later under the row lock with a receipt.
4. **Outbox.** Facts such as "a player was removed" and "a session changed" are
   appended in the transaction that makes them true and delivered later, in
   order, by leased dispatchers: to the inbox of the runtime, to subscribers, to
   checkpoint storage.
5. **Pauses and timers.** A pause freezes the deadline of a game, a resume shifts
   it; a scheduler in each realtime process looks for deadlines that have passed.

6. **The start of a game.** The host's rules are a draft with a revision; a
   countdown freezes revision, seats and room version, and the start consumes it.
7. **Subscriptions.** A browser keeps a table up to date over a WebSocket that a
   handler, a worker and a bounded writer serve, and over HTTP.
8. **Users.** Batch jobs, single administration commands, erasure jobs and the
   person's own requests write the same rows, each in several transactions.

`PROJECT.json` ("components") lists every part, with the reason where a part is
not modelled.

## 2. Modules

| Module | Models |
|---|---|
| `OwnerLease` | owner manager, Redis lease scripts, epoch compare-and-set |
| `Room` | the room aggregate as pure operators (`Can…` is the guard of a command, the verb its result) |
| `RoomLedger` | what the stored room promises: one command at a time (abstract) |
| `RoomService` | handlers that load, compute and store; implements `RoomLedger` |
| `Countdown` | drafts of the rules, countdowns and starts, composed with `RoomLedger` |
| `GameRuntime` | sessions, batches, receipts, inbox, composed with `RoomLedger` |
| `SessionClock` | one deadline under pauses, moves and timers |
| `Outbox` | appending transactions, consumer row, dispatcher pass |
| `LiarsDice`, `Dice789`, `MeetByChance`, `ThreeRounds` | the four rule engines as operators, with what their snapshots hold |
| `GameSession` | one session of any of them behind the module interface |
| `Subscription` | browser client, API calls, WebSocket handler, hub worker, writer |
| `ReviewedChange` | what the administration promises of a reviewed change (abstract) |
| `AdminAccounts` | the user rows that all of the following write |
| `BatchJobs`, `Erasure` | jobs, items, erasure checkpoints and the worker loop |
| `Identity` | devices, recovery codes, recovery attempts and stored answers of one user |
| `UserCommands` | preview, execution and receipt of a command on one user |
| `Governance` | the composition of the last five; implements `ReviewedChange` |
| `…Proofs` | theorems for every value of the constants (section 4) |
| `MC…` | symmetry sets, tables and workloads for TLC |

Some modules define, next to an operator, a faulty variant of it (a dropped
guard, a missing reset). Nothing uses the variants; `PROJECT.json` ("mutants")
says which property must fail when the variant takes the operator's place.

### OwnerLease

`session` is the row in `game_sessions`, `lease` the value of the Redis key,
`held`, `claim`, `closed` the fields of `owner.Manager` in each process,
`command` one command under way. A claim is four separate calls:
`AcquireLease`, `LoadSession`, `AcquireOwnership` (the compare-and-set) and
`PromoteLease`. The key can expire between any two of them, every reply can be
lost, a process can crash or close. A command is a move or a timer ("direct"),
an end or a cancellation by the host ("host"), or an entry of the inbox
("system"). It commits only under the epoch it carries, even if the lease was
lost meanwhile (`CommitCommand`). After a conflict a system command is computed
again from the row it finds, under the epoch it finds there
(`RecomputeSystem`), as often as it takes; it and a host command whose game is
over complete with a receipt and nothing else (`CompleteNoop`). What was
committed is published only by a process that still owns the session. `began`
keeps the epoch under which a command was accepted. Random tokens are drawn from
a counter, so that no two are equal.

### Room, RoomLedger, RoomService

`Room` has one guard and one result for each command of the aggregate: joining
with admission, queueing and seats, admission, game selection, approval, start,
pause request, rejection, pause, resume, transfer, finish, cancel, cancel and
close, removal, close. `Restorable` is the validation of `Restore`. Every command
of the aggregate ends by restoring its own result and fails if that is refused.
The operators leave this closing `Restore` out, so that `RoomRestorable` is a
statement about the commands' own preconditions: the closing check never fails,
and the CAS never stores a row that cannot be loaded.

`RoomLedger` applies them one at a time to `room` and keeps the seats frozen at
the start of a game (`frozen`) and the revocations sent to it (`revocations`).

`RoomService` has handlers that each hold one command between load and store.
`UpdateCAS` is the plain update, `CommitRemoval` the removal of a player from a
running game, `CommitExact` the transactions that compare the whole room. Two
commands of the aggregate edit the member slice they share with the room they
were called on; `AliasMember` and `AliasRemoval` say what the "before" room
looks like afterwards. `HandleJoinRoom` and its like load and compute. A command
may fail at any point (`Fail`).
`ImplementsLedger` is `Ledger!Spec`: every step of the handlers is one ledger
command or a stutter.

### Countdown

`drafts` holds the revision of each game's rules, `countdowns` the
`room_pending_starts` rows, `calls` the handlers between two of their
transactions. An edit (`UpdateGameConfig`) commits the draft first and then looks
for a countdown to cancel (`FindPending`, `CancelPendingStart`); beginning a
countdown reads room and draft first (`BeginGameStart`) and stores later
(`BeginPendingStart`); a start checks countdown, draft and room (`PrepareStart`)
and consumes the countdown in the transaction that starts the game
(`StartFromCountdown`). The room commands of the ledger cancel what
`cancelPendingForRoom` finds, a transfer cancels the former host's countdowns in
its own transaction as well, and pauses, the runtime's endings and the start that
older clients ask for without a countdown cancel nothing
(`OtherCommand`). `honoured` is history: the newest revision per game whose edit
was answered after its cancellation. `started` records which session came from
which countdown.

### GameRuntime

Extends the ledger's variables with `sessions` (rows), `batches` (one per state
version, with its receipt), `noops` (receipts of commands that came too late),
`acked` (completed inbox entries) and `calls` (the commands under way). A call
loads (`LoadAction`, `LoadTimer`, `LoadRevocation`, `LoadHostFinish`), reads the
room if the game ends (`PrepareRoomFinish`), and commits (`Commit`,
`CommitFinish`, `CommitLate`); `CurrentTransition` is `validateCurrentTransition`,
`ActorFence` the participant check under the room lock, `InboxClear` the check
that no ending overtakes a revocation. `RetrySystem` recomputes a system command
after a conflict, `CompleteSystemInbox` and `CompleteSystemNoop` complete inbox
entries, `AcquireOwnership` changes the owner. What a game module decides is a
free choice: whether the game is over, and who is out.

`Endable` keeps the guard the code has, including the one of finding 5 below: a
game whose room has a pause or a pause request cannot be ended.

### SessionClock

One session with one timer, which is what every game module keeps. `row.due` is
the deadline, `Pause` and `Resume` are the lifecycle commits (`Resume` shifts the
deadline by the length of the pause), calls read the row and commit later.
`start`, `rest`, `paused` and `straddled` are history: when the phase began and
how much time went by in pauses. One clock serves all processes.

### Outbox

`open` holds the events of open transactions, `events` the committed ones; the
advisory lock makes appending transactions exclude each other (`Insert`). A
dispatcher's pass takes the lease of the consumer's row, lists a batch, and for
each event delivers and acknowledges, or records a retry and releases. A lease
may run out during the pass, a process may stop at any step, answers are lost.
The fanout, the revocation and the checkpoint dispatcher are this program with
another consumer.

### The games

Each engine module has the operations of its Go engine as operators from a state
and an input to the set of possible results (empty: refused), and `EncodeState`
and `DecodeState`, which give no snapshot for a state that `Validate` refuses and
compute again what the snapshot leaves out. Dice and deals are chosen from small
sets by `Create` and by the operations that roll. `GameSession` stores the
snapshot and at most one timer, and has one action per entry point of the module
contract (command, timer, removal of a player, host's end, pause, resume). A
result that cannot be stored leaves the row alone and sets `reply` to
"unstorable".

### Subscription

`session` and `room` are the stored rows, `conn` the connections of one viewer
(one record for handler, worker and writer of a WebSocket), `hub` the service,
`client` the runner and the state it shows, `fetch` a projection on its way over
HTTP. A state is the list of transitions that made it, so that `ViewInOrder` can
say that none is missing or repeated. The worker's cycle is three steps, as it
reads three times: refresh of the authorization, projection, enqueueing.
`told` is the room version the viewer last heard of over the connection, at first
the one that `OpenSubscription` read for the ticket (`client.heard`); `missed` is
the version of a change that came between ticket and acceptance, of which the
server sends nothing.
Notifications may be lost, a wake-up is a flag, the queue is bounded and a full
one closes the connection, reads, writes and the process may fail, the service
may drain.

### Administration and identity

`AdminAccounts` has the users' rows and the seat of each in its current room, all
written by compare-and-swap on the reviewed version. In `BatchJobs` every
statement is a step: claim, read of the job, load, write, completion. The
`WITH` clauses of the cancel and retry statements move items even when the
job row refuses the request; `refused` remembers the jobs this happened to.
`Erasure` is the chain of checkpoints of a deletion, driven by the same workers.
`UserCommands` has the transactions of a command (consume the preview, plan and
audit, leave the room, write, receipt), run by two handlers that may die. The
administrator may have seen older versions than the preview finds, and whether an
export of the user's data is pending is any answer, at the preview and again at
the plan.

`Identity` follows one user. `codes`, `devices`, `attempts` and `results` are
rows; `serving` has slots for the requests between their first transaction, which
authorizes, and their second, which commits, so that a request can run twice;
`known` is what the person has received. A stored answer can be opened again
with the right of the device or of the attempt until it is confirmed or expires.

`Governance` puts them side by side. `Promise` maps every batch item and every
command to a review of `ReviewedChange`, whose object is an account or a seat.

## 3. Runs

| Run | Question | Instance |
|---|---|---|
| `owner` | Can the route name an old owner, can a superseded owner commit, is only what is committed announced, do claims end, is a lost lease noticed? | 2 processes, epochs to 3, tokens to 2, versions to 2, fair |
| `room_countdown` | Does some sequence of room commands make a room unreadable or misplace a frozen seat? Do overlapping edits, countdowns, cancellations and starts start a game twice, or another one than announced? | 3 users, 2 games, 3 admission modes, capacity 2, room version to 8, 2 handlers, 2 countdowns, 5 workloads |
| `room_service` | Do concurrent handlers implement the ledger? | 2 users, 2 games, 2 handlers, an operator, 4 commands |
| `runtime` | Do room and session agree, is nothing applied behind a pause, removal or ending, does no action count twice, is every removal known to the game that ended? | 3 players who have joined (`FullRoomSafe`), 2 calls, 2 epochs, room version to 7, state version to 3 |
| `outbox` | Is an event lost or overtaken, does a late acknowledgement move the offset back, is every event acknowledged? | 2 writers, 2 dispatchers, 3 numbers, batches of 2, 1 retry, fair |
| `games` | Can what a game stores be read again as it was, does every due timer apply, is a legal move lost, do accounts change behind a player's back, can bids go in circles? | 3 seats (meet by chance 4), 2 rounds or turns (three rounds 3), a timeout of one tick |
| `governance` | Do batches, commands and erasures make a reviewed change once, keep counts, stop and end? Do lost answers and repeated requests leave a person locked out, or a code or a deleted user's device usable? | 2 users, 2 workers, 2 handlers, 18 workloads, fair |
| `subscription` | Does a table skip or repeat a transition, is a removed viewer shown more than one update, does the table catch up, does everything end? | 2 connections, queue of 1, 2 changes, 1 fault, fair |
| `owner_fence`, `room_removal`, `runtime_revocation`, `clock_straddle` | the findings of section 6: each ends in a counterexample | the smallest instance that shows them; `runtime_revocation` is fair, with 3 players and a game that needs 3 |

**Why the bounds suffice.** Two tokens let a slow claimant and its successor
overlap, and three epochs let each of them fence and a command be computed again
in between. The runtime starts when all three players sit: four more room
versions hold a start and a pause, its resume or a removal, and an ending. Once
two commands of the room have followed the start, the run goes on with one call
at a time and the first owner (`LateRoomBound`), to keep the search short; the
proofs of the same properties have no such bound. The room bounds reach join,
join, start, pause request, pause, resume, transfer, removal and each ending in any order
that fits; capacity 2 with three users makes the room full and the queue used.
Two calls are enough for every conflict of the row lock, which compares a call
with one stored row. Three sequence numbers with batches of two make a pass
that ends in the middle of the log, a gap left by a rolled back transaction, and
an event that commits while a later number exists. One retry makes both the
delayed and the exhausted case happen. Two connections are an old one that is not
gone yet and its successor; a queue of one is full at the second frame; two
changes and one fault make a delta overtaken by a projection, a transfer during a
refresh, and a failure in each of them. The small dice and deals of
`MCGameSession` contain each kind of hand, match and special throw.

**Workloads.** `Countdown` and `Governance` have too many kinds of requests for
the product of all of them. An initial state therefore chooses a workload: how
many room commands, edits, countdowns and starts are accepted (`quota`), or which
jobs, commands and requests are asked for and how many faults may happen
(`budget`). Each workload is explored in full. The first workload of `Countdown`
is the plain ledger with up to seven commands of either kind; the others mix a
countdown with a second one, two starts, two edits, a cancellation, and room
commands. The workloads of `Governance` are the pairs that write the same row: a
batch with itself under cancel and retry, a batch and a command, a command sent
twice, two requests of the person, a request and a command on that person. One
has a delete beside a batch whose queue is stalled by a refused retry and a
worker that dies, for `ErasureEnds`.

The bounds are in the guards (`MaxRoomVersion`, `MaxStateVersion`, `MaxEpoch`,
`MaxToken`, `MaxVersion`, `MaxNow`, `MaxRound`, `MaxSequence`, `MaxCountdowns`,
`MaxServing`, `MaxChanges`, `MaxFaults`), so a behaviour ends when one is
reached; for that reason most runs do not check for deadlock.

**Symmetry** is used in safety runs only (users, games, handlers, calls).

**Fairness.**
- `OwnerLease`: a claim is one goroutine that runs to its end, and `Manager.Run`
  renews on a ticker, so it notices a lost lease. Nothing is assumed of Redis.
- `GameRuntime` (in `runtime_revocation`, which fails all the same): the
  revocation dispatcher redelivers an entry until it is completed; its attempts may fail any number of times but not for ever, and
  every call returns (its context has a timeout). Players need not do anything.
- `Outbox`: leases and delays run out, a pass does not stand still, and an
  acquisition, a delivery within the lease and an acknowledgement that are
  possible again and again succeed in the end. A delivery that can never succeed
  is outside this assumption; it blocks its consumer.
- `Governance`: the workers' loops run on, and a lease nobody renews runs out.
  Administrators and the person need not do anything.
- `Subscription`: handler, worker and writer are goroutines of their own that run
  while they can, the hub notifies all connections on a ticker, a shutdown that
  has begun goes on, and browser and HTTP calls return. Single notifications may
  all be lost. Weak fairness suffices, because none of them is disabled by the
  others again and again within the bounds.

## 4. Proofs

TLAPS checks these for every value of the constants. Each proof module states
its inductive invariant first; the step lemmas have one case per action.

**OwnerLeaseProofs** (`TypeCorrect`, `Invariance`, `DistinctEpochsHolds`,
`RouteIsNewestHolds`, `FanoutIsCommittedHolds`, `SupersededNeverCommitsHolds`).
Assumed: `NoInstance` is no process, the bounds are numbers. Distinct epochs are
not inductive, because a process becomes a holder two steps after the
compare-and-set. `IInv` adds that the row's epoch bounds every epoch in use, that
claims past the compare-and-set differ from each other and from holders, and
that such a claim, if its key is still in Redis, is newer than every holder: a
holder was promoted while the key was its own, so it had fenced before this
claim took the key and read the row. The same order makes the route newer than
every holder it does not name. `SupersededNeverCommits` is about the epoch under
which a move, a timer or a host's command was accepted, and about the epoch a
system command was last computed under: the row's epoch bounds both.

**RoomProofs** (`RowsRestorable`, `SeatsStayFrozen`). Assumed: `RoomAssumption`
and `LedgerAssumption` (finitely many users, a capacity and player limits that are
numbers, at least one game). `RoomRestorable` is inductive as it stands: what
`Restore` checks is what the next command relies on. The proof has a lemma for
each command, which shows that its result passes the checks again; that the seat
`nextSeat` picks is free and that the seats fit the capacity are facts about
finite sets. `FrozenSeatsKept` needs `RevocationsPast`: sessions and
revocations are no younger than the room, so that a new game, which takes the next
room version as its identity, starts without revocations. `LedgerInv` is the
conjunction of the three.

**RoomServiceProofs** (`ServiceInvariance`, `VersionsIdentify`,
`ServiceIsLedger`). Assumed: the same, and an operator who is no user. That equal
versions mean equal rows is not inductive, because it says nothing of what the
other handlers are about to write. `ServiceInv` adds that the row a handler loaded
is no newer than the stored one and that what it is about to write is a command's
result on that row (`Held`). `ServiceIsLedger` is the refinement: a commit that is
accepted found the loaded row still stored, so it is that command's step of the
ledger; every other step leaves the ledger's variables alone. The edits that two
commands make to the room they were called on are part of it: they change what is
refused, never what is written.

**GameRuntimeProofs** (`RuntimeInvariance`, `RoomAndSessionAgree`,
`EffectsExactlyOnce`, `NoRevocationLost`, `LateCommandsHaveNoEffect`). Assumed: the
same as for the room, and bounds that are numbers. None of the three invariants is
inductive. `RuntimeInv` adds, for the room, that a player of the running game has
no revocation; for sessions, that none is younger than its room; for batches, that
who was revoked is out of the game; and for each call under way (`Held`), that as
long as the session's state version is the one it loaded, the players out of the
game are those it knows of and its command has no receipt. The commit compares
that version, so nothing is applied twice. A finishing commit also compares the
room version and wants the inbox clear of other entries, so that no ending
overtakes a removal and two endings cannot both be stored. The action property
follows from the invariant and the guards of the three commits.

**ComponentProofs** holds three components that stand on their own.

*The clock* (`TypeCorrect`, `DeadlineKeptHolds`, `FullThinkingTimeHolds`). Assumed:
the delay is a number (`ClockAssumption`, an assumption of each theorem). `ClockInv` says that, unless a call straddled a pause, the
deadline is the start of the phase plus the delay plus the time spent paused since,
that it lacks exactly the current pause while the game is suspended, and that what
a call is about to write keeps the promise as of the time it read the row.

*The outbox* (`OutboxTypeCorrect`, `NothingLost`, `InOrder`, `OffsetNeverBack`).
Assumed: `NoOwner` is no dispatcher, batches are not empty. `OutboxInv` needs
that open events are above all committed ones (the advisory lock), that the
offset is a committed number, and that before an event of a pass's batch there
are only delivered events and events of the same batch. It holds for passes
without a valid lease too, which is why late deliveries cannot break the order.

*Bids* (`AcceptedBidIsStronger`). No assumption beyond the types of a bid. Within a
mode and across both conversions, a bid that `ValidateBid` accepts has greater
`Strength`, for all quantities; `BidsAdvance` follows for the bids of one round.

**CountdownProofs** (`Invariance`, `StartsOnce`, `AnnouncedGameStarts`). Assumed:
`CountdownAssumption`, the assumption on the constants stated in `Countdown`. That
a countdown starts once needs that a started one is consumed and that a call to
start consumes it only at the room version it was made for: the start moves the
room past that version, and every countdown and every one about to be stored is
for a version no newer than the room's (`Announced`). That the rules are not
older than an answered edit is the harder part, as nothing compares the draft
when the countdown is consumed. `Prepared` says why it holds: a countdown that a
start was let through for and that nobody has cancelled is still the newest one,
so that an edit that looks for a countdown finds it and cancels it before
answering; its rules are therefore no older than any answered edit, nor than any
edit that is about to cancel another countdown.

**SubscriptionProofs** (`Invariance`, `ViewsInOrder`, `RefusedAfterOneUpdate`).
Assumed: `BoundsAssumption`, numbers and a queue that holds something. The order
of the view is not inductive. `Good` adds that the cursors of worker and writer
agree whenever a frame can be made, so that every queued frame carries exactly
the events after the version it says it continues, and that a worker past its
refresh has not made an update after the refusal before.

Only model-checked:
- the liveness properties (`ClaimsEnd`, `LostLeaseIsDropped`,
  `EventuallyAcked`, `JobsClose`, `ErasureEnds`, `CaughtUp`, `ConnectionsEnd`):
  fairness and ENABLED are out of the prover's reach;
- the games (`SnapshotRestores`, `DueTimerApplies`, `OnlyKnownMovesLost`,
  `AccountsKept`, and `BidsAdvance` for a whole session): snapshots are computed by
  folds over seats, hands and matches, and what a fold computes for every input
  needs an induction whose theorem takes an operator as a parameter, which the
  provers cannot instantiate;
- the administration and identity (`CountersMatch`, `StopHonoured`,
  `ReviewedSeatLeft`, `AnswersAgree`, `CodeOpensOnce`, `DeletedSignedOut`,
  `NeverLockedOut`, and the refinement `ImplementsPromise`): not proved yet. They
  are about the composition of five modules; `CountersMatch` also counts.

`DistinctEpochs`, `FullThinkingTime`, `DeadlineKeptByCalls` and the type invariants
are stated and proved, and no run checks them. That every passed deadline is
handled is not claimed: every move may set a new one.

## 5. Hazards

`PROJECT.json` ("hazards") lists what is hard to test, at its line, with the
properties that would catch it. Those without a property say why. Smaller ones
that no model here reaches: a finished session stays in the manager's table and
its lease is renewed until the process closes (`owner/manager.go:197`); a
committed command is answered `ErrLeaseLost` (`manager.go:224`); a process whose
clock is behind writes an `UpdatedAt` that `Restore` refuses
(`room/model.go:959`, `:268`); a refused rate limit leaves earlier buckets
charged (`ratelimit/limiter.go:166`); a transaction that appends to the outbox
first and locks a row later can deadlock with another, which PostgreSQL resolves
by aborting one.

## 6. Findings

With a run that shows them:

1. **A removal from a running game is refused** (`room_removal`,
   `RemovalAccepted`). `RemoveMember` appends over the slice it shares with the
   room it was called on, so the "before" room given to the repository lacks the
   player too, unless the player joined last.
2. **A move across a pause loses its time** (`clock_straddle`, `DeadlineKept`).
   A move computed before a pause and committed after the resume has the version,
   the epoch and the status the row has again, and writes the old deadline.
   `DeadlineKeptByCalls` and the theorems say that this is the only way.

3. **A replaced owner's system command takes effect** (`owner_fence`,
   `OldOwnerRefused`). A conflict makes the runtime compute the command again under
   the epoch it finds (`game-runtime/service.go:658`), so a process that has lost
   the session can still commit it, although docs/operations/release.md:61 says that
   an old instance's revocations and inbox operations are all refused, and the
   manager that they are fenced by the epoch it holds (`owner/manager.go:254`).
   `ExactlyOnce` holds nevertheless.
4. **Two removals can wait for each other for ever** (`runtime_revocation`,
   `RevocationHandled`). A transition that ends the game is refused while another
   entry of its inbox is pending (`game_session_repository.go:1154`). When two
   players leave a game that needs every player, each entry's transition ends the
   game and is refused because of the other.

Met while modelling; the models contain the behaviour, and no run is devoted to
it:

5. **A game with a pause or a pause request cannot be ended.** The aggregate
   clears both (docs/superpowers/specs/2026-07-26-room-pause-host-transfer-design.md:13);
   the repository's expected room clears neither
   (`room_game_session_repository.go:702`) and the comparison fails.
6. **A superseded owner does not recover.** A slow claimant whose key expired
   advances the epoch behind the next owner, which goes on renewing a lease under
   which every command is refused (`owner/manager.go:417`).
7. **A game can start with rules older than a committed edit.** The edit commits
   the draft and cancels the countdown in a later transaction whose error is
   dropped (`transport/room/rules.go:351`); a start whose check of the draft came
   before the edit consumes the countdown in between. The design says that a
   change of the rules invalidates the countdown
   (docs/superpowers/specs/2026-07-23-game-rules-config-design.md:56).
   `StartsAsAnnounced` states what holds: not older than an edit that has been
   answered after its cancellation. In the same place: a countdown begun with an
   older draft can be stored after the edit's cancellation; it cannot start, and
   blocks the next one until its deadline.
8. **A start that is retried after a lost answer gets a version conflict**: the
   host's fence is compared before the receipt is looked up. Nothing is written
   twice, and nothing is replayed either.
9. **Two moves of the games cannot be stored** (`OnlyKnownMovesLost` names them):
   the end of three rounds while cards are selected (`logic.go:350` keeps the
   selection, `Validate` refuses it), and a reroll of meet by chance after a capped
   match. Also: a removal while three rounds shows its result keeps the old
   summary, and in liar's dice a revoked last bidder can still be charged.
10. **A refused cancel or retry of a batch moves the items** (`admin_jobs.sql:245`,
   `:281`), although the repository describes one change of job and items
   (`admin_job_repository.go:290`). Counts and the queue are then wrong for good:
   `CountersMatch` and `JobsClose` hold until it happens.
11. **A delete or a revocation of all devices is refused after its audit** when a
    device was seen since the plan: the revocation's time is read before
    (`governance.go:289`), a constraint wants it after the last use
    (`00009_identity_invariants.sql:28`), and the error is invalid input, not the
    "retryable conflict" of the comment above `planUserCommandExecution`; the
    preview is used up, and the administrator begins again. A deleted user may
    also keep a seat taken after the review (`governance.go:346`), and a failed
    erasure has no tool that retries it.
12. **Stored answers outlive the right to open them.** An answer lost after the two
    minutes of a device's grace, or the five of an attempt, cannot be asked for
    again although the result is kept for ten (`Lapsed` in `NeverLockedOut`).
13. **A draining service usually closes without the draining frame.** Cancelling the
    hub's context closes it with `context.Canceled` before `Close(ErrHubClosed)`,
    and the first cause wins; docs/operations/release.md:53 announces the frame.
    Clients reconnect all the same (`CaughtUp`).
14. **A failed read during a refresh is taken for a refusal** (`authorizer.go:176`),
    after which the client stops until the person retries (`CaughtUp` excepts it).
    The last state of a game is not pushed, because its viewer is already refused
    (`game-runtime/authorization.go:27`), and a transfer between ticket and
    acceptance of a connection is not pushed either (`transport/game/service.go:444`).

## 7. Not modelled

- Cryptography and key files, challenges and access grants, message translation,
  routing and supervision, schema migrations, object storage, user interfaces,
  generated code, the load test: no protocol between actors, or out of a model
  checker's reach. Together with tests' helpers and generated files they are most
  of the repository's lines.
- Clock skew between processes, and what a database loses when it is restored
  from a backup.
- Rooms: codes, lists and cards, presence. Countdown: personal presets (rows with
  a revision that nothing else reads), the contents of rules, the replay of an
  operation.
- Runtime: the session-only suspend and resume, which nothing calls; batches of due
  timers over many sessions; the read side.
- Games: events, projections and replays, which are functions without state.
- Identity: the first bootstrap of a device, username claims, the count of wrong
  grants, idle and absolute expiry of devices, times of last use, the removal of
  users who do not finish onboarding, the health check of the audit log, assisted
  grants.
- Subscription: pings, presence entries, the timeout of the first frame, the host
  flag as data, the polling of the room page, the sending of moves.
- Administration: sign-in, sessions and elevation, queries and notes, emergency
  repair, which writes rows past every rule; key rotation; the audit chain, whose
  append is one compare-and-swap; rate limits, whose bucket is one script.

## 8. Running

    tlc -workers 2 -config OwnerLease.cfg OwnerLease
    tlc -workers 2 -config Countdown.cfg MCCountdown
    tlapm CountdownProofs.tla

The other runs pair module and configuration as `PROJECT.json` ("runs") says.
Each takes at most three minutes on two cores.
