# A verification project for Backend-track

TLA+ models of the concurrent and failure-prone parts of this repository, TLC
configurations that check them on small instances, and TLAPS proofs of their
safety properties for every value of the constants.

Paths below are relative to `src/backend-track/` unless they say otherwise.
`PROJECT.json` maps every definition that models code to the lines it stands for.

## 1. Inventory

| Part | State it keeps | Operations | Model |
|---|---|---|---|
| Launch watcher, `pump_worker.py` | Postgres tables `pump_launches`, `pump_worker_cursor`, `pump_worker_heartbeat`; in memory `WorkerState` (cursor, persisted cursor, status, counters) | `run`, `watch_once`, `backfill`, `stream`, `handle`, `process`, `flush_cursor`, `beat`, `Store.*` | `PumpWorker`, `LaunchLog` |
| Deployment, `src/render.yaml` | - | replace the running watcher | `Deploy` |
| Rate limiter, `main.py` 87-106 | one Redis counter with a time to live for each scope | `enforce_rate_limit` | `RateLimit` |
| Organizations, API keys, webhooks, `main.py` 383-586 | tables `organizations`, `api_keys`, `webhooks`; background tasks in memory | create, revoke, register, delete, deliver | `Tenancy` |
| Messages and moderation, `main.py` 295-360, 594-641 | table `messages` | post (user or tenant), approve, delete, list | `Tenancy` |
| Billing receivers, `main.py` 647-736 | `organizations.plan` | Stripe and Paystack webhooks | `Tenancy` |
| Stream comparison, `pump_stream_compare.py` | two in-memory recordings (`Tap`), a stop event | `collect`, `listen`, `compare`, `probe`, `assess`, `run` | `StreamCompare` |
| Transaction decoder, `pump_replay.py` | none | decode a transaction, find a launch or buys in it | its verdict is the *kind* of a transaction |
| RPC client, `pump_discover.py` | none | one HTTP call | its failures are fault branches of the watcher |
| Early-buyer evidence, `pump_history.py`, `pump_evidence.py` | none beyond a run | `collect_early_buys`, `collect_evidence`, `finalize`, `find_launch` | `EarlyBuyers` |
| Signals API, `main.py` 746-769, `solana_signals.py` | table `solana_signals` | choice of first buyers, backward search for funding, status of the report, one upsert | `Scoring`, `Tenancy` |
| Accounts, `main.py` 31-61, 236-260 | table `users` | register, login | `Tenancy` |
| Dataset and sample scripts | a file written once | batch | not modelled: sequential, nothing survives a run |
| Web page, Docker file | - | - | not modelled |

### How the parts interact

The watcher is a process of its own: it talks to the Solana provider (one
websocket subscription, one HTTP endpoint for listings and transactions) and to
Postgres. Its one coroutine hands every blocking call to a thread
(`asyncio.to_thread`) and waits for it. The API's handlers are ordinary
functions run in a thread pool; each has a connection of its own, with
autocommit off and READ COMMITTED, so two requests meet only in Postgres and
Redis, between any two statements. Deliveries to webhooks are FastAPI
background tasks: they run after the answer and exist only in the memory of the
process. The stream comparison is a tool started by hand; its two listeners
share one `asyncio.Event`.

### What is hard here

* **Watcher.** A launch reaches the process on one of two paths, replay or live
  stream, and the single durable cursor must not pass one still pending on
  either. Kills, SIGTERM inside a save that goes on in its thread, a commit
  whose acknowledgement is lost, a transaction that stays unavailable, a gap
  larger than the page limit, providers that lag, reorder or repeat.
* **Rate limiter.** Two Redis commands where atomicity matters; replies read by
  several threads and compared after the key has expired.
* **Deploys.** The platform starts the new watcher before the old one has ended,
  and nothing keeps them apart: two memories, two subscriptions, two sets of saves
  in flight and one cursor row, which the process that is behind may write last.
* **Tenancy.** Check-then-act sequences in separate statements (quota, key, name,
  approve), background tasks that outlive what they were made from, repeated
  billing events.
* **Stream comparison.** Two streams that start and stop at different moments,
  each of which may end the experiment.
* **Scoring.** A search through transfers that form cycles and run in both
  directions of time, cut in depth and in breadth, whose silence is read as an answer.
* **Early-buyer evidence.** A history read backwards page by page while it grows
  at the other end, by a provider that may have dropped its beginning, under
  budgets of pages and of decodes; the report must say what it could not see.

What makes each part correct is stated in section 4; every hazard, with its
line and the properties that watch it, is in `PROJECT.json` under `hazards`.

## 2. Modules

| Module | What it is |
|---|---|
| `LaunchLog` | what the watcher promises its readers: recorded launches and a checkpoint that moves only to where nothing is missing |
| `PumpWorker` | the watcher, one action for each stretch of code between two awaits |
| `..._proof` | theorems about the module of that name, see section 6 |
| `Deploy` | two instances of the watcher on the same tables: `PumpWorker` itself and `Old`, an instance of it |
| `RateLimit` | one scope of `enforce_rate_limit`, one action for each Redis command |
| `Tenancy` | keys, webhooks, messages, deliveries, plans, signals, accounts, one action for each SQL statement |
| `StreamCompare` | listeners, budget, window, verdict of the comparison |
| `EarlyBuyers` | backward paging and what the report may say of it |
| `Scoring` | the search for the funding of first buyers and what the report says of it |
| `MC...` | the values the configurations cannot write down: functions, sets of sets, symmetry |

`PumpWorker` instantiates `LaunchLog` on its own tables (`Log`), and `Deploy`
composes two instances of `PumpWorker`. The other modules share no state: the API and the watcher use different tables, and the two tools
only read the chain.

### PumpWorker

A transaction is its position in the order of the chain; 0 is Python's `None`.
`kind` says what the transaction is to this program: a `launch`, a `hidden`
launch (logs missing or truncated), a `trade`, an `opaque` trade (logs
truncated) or a `failed` transaction. `kind` and `tip` are the chain, `open` and
`inflight` the subscription, `dbCursor`, `dbLaunches`, `dbStatus` the tables.
`pc` names the await in which the coroutine is suspended, `after` where a flush,
a heartbeat or a save returns to, and `beating` tells a `flush_cursor` called by
`beat` from the others. `call` is the `Store.save` under way with its attempt
number, `orphan` one that a cancel has left running in its thread. `AttemptFails` has
both of `Store._run`'s failures: a connection that drops, after or before the commit
took effect, is tried once more; any other error is rolled back and raised at once.

`Connect`, then `ReadCursor` and `FirstListing` or `MissedItems`, then the chunk
loop (`FetchChunk`, `ApplyLaunch`, `ApplyOther`, `ApplyBad`, `ChunkDone`,
`ChunkPause`), then `CaughtUp`, then `Receive` and `Fetched` follow
`watch_once`, `backfill` and `stream`. `Confirm` runs at any time, so
notifications queue up while the replay is under way. Failures are actions
(`AttemptFails`, `CallFails`, `ConnectFails`, `StreamEnds`) or branches that cost
one of `MaxFaults`; `Crash` and `Cancel` (SIGTERM) cost one of `MaxCrashes`.
`base` (the first cursor ever written) and `resume` (where the last replay
began) are history: no action's guard reads them.

Constants say how well the provider behaves: `ListingLag` and `FirstLag` how far
a listing may be behind the subscription, `ReorderWindow` how far a notification
may overtake others, `Unreadable` whether one may be garbled.

### Deploy

The variables of `PumpWorker` are those of the new process, and the chain, the
tables and the heartbeat row are common to both; the variables `old...` are the
memory, the subscription and the saves of the old process. `DeployInit` is a
deploy in the steady state: the old watcher streams, from a cursor it has
written. `ConfirmBoth` delivers a transaction to every subscription that is open,
`NewStep` and `OldStep` are a step of one process that leaves the other's
variables alone. The old process takes one SIGTERM or is killed once, at any
point of its own work and of the new one's, and is not started again.

### RateLimit

`Arrive` to `Check` are the lines of `enforce_rate_limit` for one thread. A
command may fail before or after its effect; `Crash` takes any set of threads
with it (an instance of several). `window` numbers the lives of the key, and
`admitted` is the log of those let in: window, limit, and the reply they compared.

### Tenancy

`Ask...` is a client calling an endpoint; `step` is the next statement of its
handler and `task` what the handler knows so far. A statement and the commit
that follows it are one step. `outbox` holds background tasks, `heard` the
deliveries made, `notices` billing events the provider will repeat until they
are answered. A `workload` is the set of operations called for in one behaviour:
operations that touch no common table are not interleaved with each other.
`UpsertSignal` keeps only the result of the row: nothing reads the other columns,
which a second post leaves as they were.

### StreamCompare

A transaction has a slot; slots need not come in the order of confirmation.
`kind` says what the two streams and `log_verdict` make of it: a `launch`; a `foreign`
transaction, whose logs have a line like that of a launch though it does not mention the
mint authority; a `hidden` launch, whose logs are missing or truncated; a failed
`attempt`; a `trade`. `Histories` are the sequences of kinds, `Slots` those of slots,
that may occur. `queue` is what a subscription has sent and its listener not yet taken,
`lost` what a stream never noted, because the provider or `Tap.take` dropped it. `Take`
is `Tap.take` and the comparison with the budget after it. `Report` compares the
recordings, fetches a sample of the launches (any of them: priorities, spacing and failed
fetches decide which; `Absent` are those of it that do not list the authority) and gives
the `Assessment`. `MarginAssumption` is what `MARGIN_SLOTS`
(`pump_stream_compare.py:43`) is there for: of two transactions, the one confirmed
first is never a margin or more of slots after the other. Without it the window
would not be complete.

### EarlyBuyers

A transaction is a position in the history of one curve, `created` the one that
launched the token, `retained` the oldest the provider still lists. `ListPage`
is one round of the loop of `collect_early_buys`; `Confirm` may come between any
two. `Decode` takes the oldest transactions seen, as many as the budget allows,
any of which may be unavailable; `Publish` is `collect_evidence` and `finalize`.
`known` (what was confirmed at the first page) is history. The order of two
signatures within a slot is that of their spelling, so any of them may be the
one the budget cuts off.

### Scoring

`SelectBuyers` and `Report` are the beginning and the end of `score_bundle`,
`StartSearch` and `Judge` the part of its loop around the call of `trace_paths`,
and `Step` is one turn of the loop in there: it takes an item from the queue,
records it, drops it or puts its continuations at the end. `Place` is where a
transfer stands when they are sorted by `rank`, which stands for amount, slot and
signature, and `Preferred` are the ones before the cut. A bundle is any
set of buys, transfers, labels and claims of completeness; `Chains` is the
reference, a set of sequences of transfers defined without a search.

## 3. Runs

All runs have `CHECK_DEADLOCK FALSE` except the worker's: requests, row ids and
transactions of the other models are bounded, and once used up nothing is left
to do. The watcher never stops for good, and that is checked.

| Run | Instance | Result |
|---|---|---|
| `worker_safety` | 4 transactions, 2 kills or SIGTERMs, 1 fault, page limits 2 and 4 | passes |
| `worker_live` | 3 transactions of the kinds that need a fetch or are skipped, page limits 1 and 4, fairness | passes |
| `worker_unreliable` | empty history, lagging, reordering, garbling provider, 2 faults | passes |
| `deploy` | 3 transactions, one before the deploy, 1 fault of either process, 1 kill or SIGTERM of the old one | passes |
| `worker_first_listing` | first listing one transaction behind | violates `NothingBetween` |
| `ratelimit` | 3 threads, limits 1 and 2, 4 requests, 2 faults | passes |
| `ratelimit_lost_expiry` | the same, 1 fault, fairness | violates `TryAgainInAMinute` |
| `tenancy` | 2 threads, 2 organizations, 4 webhooks, 1 key, 1 message, 1 name, 2 billing events, 1 fault | passes |
| `tenancy_over_quota` | 2 threads, 1 organization, no fault, plans fixed | violates `WithinPlan` |
| `compare` | 4 transactions of 7 histories of kinds, crossed or paired slots, one stream or both, budget 4, frames of 1 or 2, losses on the `creations` stream, fairness | passes |
| `early_buyers` | 5 transactions, pages of 2, 1 or 3 pages, 2 decodes, any retention, repeated pages | passes |
| `scoring` | 4 buys of 3 wallets, up to 4 of 11 transfers, bounds of 2 buyers, 2 hops, 2 branches | passes |

**Why the bounds are enough.** Four transactions are the fewest with one before
the first cursor, two that fill a chunk of width two and one that is left for a
second chunk or for the stream; one more than the page limit of two makes a gap
that is not covered. Two crashes let a restart be interrupted; one fault fails
any single call, two fail a save and its retry. Three threads over a limit of
one or two let a request be refused while another holds a reply from a window
that has ended. Two organizations, four webhooks and plans of one and two
webhooks let one tenant overshoot while the other must not hear. The window of a
comparison needs a margin of slots on both sides: with four transactions in slots
0, 3, 2, 5 the two in the middle come out of order and may both be in it, with slots
0, 2, 2, 4 they share its only slot, and with fewer records it is empty. What is lost
is lost on the `creations` stream, where a loss makes a miss; losses on both together
are too many states for a run, and the proofs cover them. Five transactions
in pages of two need three pages, of which the last is short; with one, two or
four transactions in a slot, page ends fall before, on and after the launch slot,
and two decodes are fewer than the window holds. One message and one key are
enough for `Tenancy`: what is said of either never relates two of them, and a
second request is always there to interfere. In `deploy` the old process has
streamed the first transaction; of the two that follow, each may be a launch and
may be in either process's replay, stream, save or abandoned save, so that either
may be ahead of the other when it writes. The transfers of `scoring` are chosen so
that every bound is reached and passed: three of those that go to one buyer may
be followed, of which two are, and there is a chain of three hops; there are cycles, transfers after
the buy, an unverified one, and an exchange behind an exchange.

## 4. What is checked

**Watcher.** `CursorNeverPassesCreation`: no launch lies unrecorded at or before
the durable cursor. `NothingBetween`: in the stream, every unrecorded launch is
still coming on the subscription. `StopKeepsProgress`: a stop on a signal leaves
the cursor of memory in the table, unless an abandoned save wrote later.
`Implements`: the tables behave as `LaunchLog`, crashes included.
`RecordedOrReported`: a launch after the first cursor is recorded in the end, or
the status tells of a gap that fills the page limit. `ResumeNeverRegresses`:
though live duplicates and abandoned saves can move the cursor back, no
connection resumes from an earlier point than the one before it. The last needs
no assumption on the provider.

**Deploy.** `TwoCursorsSafe`, `NothingBetweenEither`, `LogSteps`: what the watcher
guarantees alone still holds with two of them. `IInvEither` is why: each process's
part of the inductive invariant survives whatever the other writes, for a save
that is safe for one log is safe for the other, and an older cursor is always safe.
What two processes lose is progress, not launches: the older one may leave an older
cursor behind, and a process does not write its own again as long as it believes
it persisted (`pump_worker.py:448`).

**Rate limiter.** `AdmittedWithinLimit`: no life of the key admits more than the
limit, also when limits differ or change. `SomeoneSetsExpiry`, `RefusalsEnd`:
without failures a counter always gets its time to live, and refusals end.

**Tenancy.** `OvershootBounded`: how far concurrent requests can pass the quota.
`OnlyOwnHooksHear`, `EveryHookHears`: who hears of a message.
`StaleRequestsBounded`: a revoked key brings in only requests already let
through. `DeletedStaysDeleted`, `ApprovalAnswersHold`: approve and delete at the
same time. `PlanFollowsProvider`: the plan is the subscribed one once the events
of an organization are answered. `AccountsKeepTheirPassword`: of concurrent
registrations of a name one is answered 200, and its password stays.

**Stream comparison.** `WindowComplete`: between the margins both streams have
everything that was not lost. `AdviceGrounded`: what the tool advises says something
of the chain. "Safe to try" means that every transaction of the window that looks like a
creation and reached the program stream has come on the creations stream; "do not
enable" that one was lost there, or does not mention the authority (then the
`mentions` filter could not have delivered it, `pump_stream_compare.py:338`). Late
starts, backlogs, slots out of order and window edges are mistaken for neither. `SpendCapped`: each stream passes the budget by less than a frame.
`Ends`: the experiment ends by itself.

**Early-buyer evidence.** `NothingMissingUnsaid`: a report that names nothing
missing has every buy of the window that was listed when paging began.
`NoEarlierBuyerSkipped`: when paging has come to its end, no transaction of an
earlier slot than a reported buy was left undecoded. `CountBracketed`: a count is
published as a lower bound, with the numbers of unavailable and of undecoded
transactions; together they are an upper bound of the buying transactions that were
listed when paging began. All three speak of what the provider lists. What lies beyond
its retention cannot be seen from here; that a report never claims completeness rests on
one constant, `independent_block_verified` (`pump_history.py:55`), and is no property.

**Scoring.** `PathsReal`: a path is a chain of verified transfers, each earlier than
the one it funds, whatever was cut. `PathsComplete`: where nothing was cut, every
chain is found. `CompleteReportHolds`: a report that calls itself complete denies
the funding of a buyer only on the indexer's word that the evidence is all there
is, and only if there is no chain in it. The last part is stated for bundles in
which no address has more incoming transfers than the search follows.

### Where code and documentation disagree

1. `worker_first_listing`: the first listing is made without a commitment
   (`pump_worker.py:528`), so a launch between its answer and the subscription
   is lost, against lines 5-6 of the module comment.
2. `ratelimit_lost_expiry`: a failure between INCR and EXPIRE leaves a counter
   that never expires; "try again in a minute" (`main.py:97`) is then false.
3. `tenancy_over_quota`: the webhook quota is counted and used in two
   statements; two requests pass it together, against `src/README.md:16`.

Noted while modelling, without a run of its own: a save that is retried after its
commit took effect finds its own row and is not counted as new, against
`Store.save`'s comment (`pump_worker.py:282-283`); the byte budget of the
comparison is one for each stream, where `stream_compare.request:5-6` speaks of
the request; a chain behind the eleventh largest transfer into an address is not
found, and the report may still call itself complete (`solana_signals.py:96`,
against lines 4-5); two watchers that both start for the first time may each found the cursor, the
later one's past launches the earlier one has not recorded; exactly 1000 x `max_pages`
missed transactions are reported as larger than the limit (`pump_worker.py:351`);
a launch whose logs are truncated is never counted as missed by the comparison
(`pump_stream_compare.py:172`); `reached_launch_slot` is also true when the
provider's history ends before the launch (`pump_history.py:21-34`), so that a
report can say `buys_observed` where `src/README.md:400-402` speaks of
`unknown_incomplete`, though its count is still a lower bound; when listings lag behind the subscription, or
notifications overtake each other, the cursor can pass a launch, which is why
the proofs assume `ReliableProvider`.

## 5. Fairness

* `PumpWorker.FairSpec`: weak fairness of `Work` without faults (the event loop
  runs what is ready, threads return) and of `OrphanEnds` (a thread finishes);
  strong fairness of `Receive`, because a heartbeat becomes due between
  notifications and `HeartbeatDue` could otherwise be chosen for ever, whereas
  the code beats at most once in 30 seconds. Nothing is assumed of the chain, of
  faults or of signals. Faults and crashes are bounded: an outage that never
  ends lets nobody promise progress.
* `RateLimit.FairSpec`: threads in flight go on, and Redis removes a key that has
  a time to live. No fairness of arrivals.
* `StreamCompare.FairSpec`: the timer fires, a listener that can go on does, and
  the report follows. No fairness of the provider.
* `Tenancy`, `EarlyBuyers`, `Scoring` and `Deploy` state safety only.

## 6. Proofs

Every safety property and every action property of the runs that pass is a
theorem, for all constants that satisfy the `ASSUME` of its module.

| Module | Theorem | Statement | Assumes |
|---|---|---|---|
| `PumpWorker_proof` | `TypeCorrect` | `Spec => []TypeOK` | - |
| | `InductiveInvariant` | `Spec => []IInv` | `ReliableProvider` |
| | `CursorSafety` | `Spec => []CursorNeverPassesCreation` | `ReliableProvider` |
| | `NoGap` | `Spec => []NothingBetween` | `ReliableProvider` |
| | `Refinement` | `Spec => Implements` | `ReliableProvider` |
| | `ResumeAdvances` | `Spec => ResumeNeverRegresses` | - |
| | `StopLeavesCursor` | `Spec => []StopKeepsProgress` | - |
| `Deploy_proof` | `EachKeepsItsPart` | `DeploySpec => []IInvEither` | `ReliableProvider` |
| | `TwoCursors` | `DeploySpec => []TwoCursorsSafe` | `ReliableProvider` |
| | `NoGapEither` | `DeploySpec => []NothingBetweenEither` | `ReliableProvider` |
| | `DeployImplementsLog` | `DeploySpec => LogSteps` | `ReliableProvider` |
| `RateLimit_proof` | `TypeCorrect` | `Spec => []TypeOK` | - |
| | `WithinLimit` | `Spec => []AdmittedWithinLimit` | - |
| | `ExpirySet` | `Spec => []SomeoneSetsExpiry` | - |
| `Tenancy_proof` | `TypeCorrect` | `Spec => []TypeOK` | - |
| | `NoReturn` | `Spec => DeletedStaysDeleted` | - |
| | `AnswersHold` | `Spec => []ApprovalAnswersHold` | - |
| | `PasswordsKept` | `Spec => []AccountsKeepTheirPassword` | - |
| | `PlansSettle` | `Spec => []PlanFollowsProvider` | - |
| | `OwnHooks` | `Spec => []OnlyOwnHooksHear` | - |
| | `EveryoneHears` | `Spec => []EveryHookHears` | - |
| | `FewStale` | `Spec => []StaleRequestsBounded` | - |
| | `FewTooMany` | `Spec => []OvershootBounded` | - |
| `StreamCompare_proof` | `TypeCorrect` | `Spec => []TypeOK` | - |
| | `SpendingCapped` | `Spec => []SpendCapped` | - |
| | `WindowHolds` | `Spec => []WindowComplete` | `MarginAssumption` |
| | `AdviceIsGrounded` | `Spec => []AdviceGrounded` | `MarginAssumption` |
| `EarlyBuyers_proof` | `TypeCorrect` | `Spec => []TypeOK` | - |
| | `NothingUnsaid` | `Spec => []NothingMissingUnsaid` | - |
| | `CountsBracket` | `Spec => []CountBracketed` | - |
| | `EarliestFirst` | `Spec => []NoEarlierBuyerSkipped` | - |
| `Scoring_proof` | `TypeCorrect` | `Spec => []TypeOK` | - |
| | `OnlyEvidence` | `Spec => []PathsReal` | - |
| | `AllEvidence` | `Spec => []PathsComplete` | - |
| | `CompleteReports` | `Spec => []CompleteReportHolds` | - |

`ReliableProvider` says that a listing is never behind the subscription, that
notifications are readable and in order, and that the address has had a
transaction before the first start. Each part is needed: `worker_first_listing`
drops one of them and fails. Crashes, SIGTERM, failures, retries and duplicated
notifications stay in. The assumptions on constants say which values make sense
(numbers are natural, a bound is not zero, sets are finite where they are counted)
and that a special value is not an ordinary one: `None` of `Tenancy`, which stands
for a row that is not there, is no organization, plan or password.

### The arguments

**Watcher.** `CursorNeverPassesCreation` is not inductive: whether a cursor may
move depends on where each missing launch still is. `IInv` says so.
`CursorsSafe` puts every copy of the cursor (table, memory, persisted, the save
under way and the abandoned one) before every missing launch, or makes that copy
the one which records it. `ReplayCovers` says that during a replay each
missing launch is ahead of the replay position, and within the list being
replayed or on the subscription or in hand; `StreamCovers` the same for the
stream. `FoundingSafe` covers the first start, where the save under way defines
from where nothing may be lost. `ControlSafe` and `SavesReal` tie `pc` to the
saves. The proof has a lemma for each action, grouped as in the module; the
refinement uses that a commit of a safe save is a step of `LaunchLog`
(`RecordLaunch` or `MoveCheckpoint`) and everything else a stutter or `Confirm`.
`worker_safety` checks `IInv` with TLC as well.

`ResumeNeverRegresses` and `StopKeepsProgress` hold for any provider, so they have
invariants of their own. `ResumeSafe`: everything that may become the cursor, and
everything that may be replayed or received, is no earlier than where the last
replay began. `ProgressSafe`: as long as nothing has failed, what the process
believes it has persisted is in the table, or a save it abandoned was the last to
write, and the last flush has persisted the cursor of memory.

**Deploy.** The steps of the new process are those of the watcher, and so are the
steps of the old one under the substitution of `Old`: `OldProof` is an instance of
`PumpWorker_proof` with that substitution, so each lemma is proved once and used
for both. What is new is what a process does to the other's part of the
invariant. `Joined` is `IInv` once somebody has written a first cursor. `SafeWrite`
says what a step of either may do to the tables: nothing, or one commit of a launch or
a position that no missing launch lies before. It makes no difference to that whose
save it is, so a safe write of one process keeps the `Joined` of the other.

**Rate limiter.** Whether a request is let in depends on a reply that may be from a
window that has ended. `Replies` says that the replies held and admitted in one
window are distinct, and that those of the running window are at most its counter.
Those let in under a limit l are then different numbers among 1 to l, however many
threads there are. `Accounted` bounds counter and windows by the requests made.

**Tenancy.** `Fit` ties what each handler knows to the rows it has read: the owner,
key, hook or message of a request in progress is there, or has been. `Grows` says
what any step may do to the rows: each gets its owner once, and nothing that is
deleted or revoked comes back. With these, `Settling` says that the last outstanding
event that names a plan brings the one subscribed to, and that without such an event
the organization has it; `Addressed` that what is to be delivered is of one tenant,
and that a hook which was gone when a message came stays deleted; `Dated` that what a
revoked key has brought in since and what its requests past the check will still
bring in are together fewer than the threads; `RoomFor` that the webhooks
of a tenant and the inserts its threads have counted room for pass some plan's
quota by less than the number of threads.

**Stream comparison.** `Swept` says, of each stream, that records go before what
waits, and that a transaction which is neither noted, nor waiting, nor lost came
before all of them, or after all of them and the stream has ended. What lies
before or after all records has, by `MarginAssumption`, a slot outside the window.
That makes the advice grounded at the moment it is given; it stays so (`Founded`),
because the recordings have ended: nothing is noted after them, and what is confirmed or
lost later is no record.
`Spent` says that a stream over its budget has stopped the experiment
and takes no more. That a finite set has a greatest element, which
`Max` needs, is proved without induction: it is the one with the fewest above it.

**Early-buyer evidence.** `Paged` says that everything relevant from the cursor on
that was listed when paging began has been seen, and all of it once the launch has
been reached: one page joins the next. `Sampled` says that what was decoded is of no
later slot than what was left, and that the report is made of just that.

**Scoring.** `Real` says that an item of the queue or a path is a chain of transfers
so far, uninterrupted by a label and without a return; one step along a candidate
keeps that. `Pending` is the other direction: where nothing is cut, each chain of the
reference has been found or is begun by an item that waits, for an item that
begins a chain and does not end it is extended by the chain's next transfer. That
sorting gives every transfer a place and every place a transfer (`Places`) is a
counting argument on finite sets. `Judged` carries what the search has shown to the
report. `Scored`, the conjunction, was checked with TLC on a smaller instance first.

### Only model-checked

`RecordedOrReported`, `RefusalsEnd` and `Ends` are liveness under fairness, and
`TryAgainInAMinute` is violated under it: the prover does not handle `ENABLED`, so
these stay with TLC.

## 7. Abstractions

* Time: there are no durations. A backoff, a stall, a heartbeat period and the
  sixty seconds of the limiter are steps that may come at any moment.
* Bytes: decoding, hashing, signatures and wording are left out; what they
  decide (the kind of a transaction, whether an event has a usable plan) is a
  nondeterministic choice.
* A page limit counts transactions, not pages of 1000.
* A heartbeat write that a SIGTERM abandons in its thread takes effect at once or not at
  all; the stop heartbeat follows it. An abandoned save ends at any time.
* A transaction that buys is one buy; that one transaction may hold several only makes
  the count of `EarlyBuyers` larger.
* `MaxTx`, `MaxFaults`, `MaxCrashes`, `MaxRequests`, `MaxNotices` and the sets of
  row ids are bounds of the models, not of the program.
* Not modelled in the watcher: a second SIGTERM, the `status` command. Not
  modelled in the API: creating organizations and checking who owns them; failures
  of a statement other than losing the connection. Not modelled in scoring: the
  score, the clusters, the ranking of exchanges.
* Not modelled at all: the decoder and the RPC client, which are pure or a single
  call; the dataset and sample scripts, which run once, one statement after the
  other, and keep nothing; the web page.

## 8. Plan

Done, in this order, by importance: `LaunchLog` and `PumpWorker` with their
proofs; `RateLimit`; `Tenancy`; `StreamCompare`; `EarlyBuyers`; `Deploy`; `Scoring`;
then the proofs about all of these.

Next:

1. A counterexample of its own for each part of `ReliableProvider`: a subscription whose
   notifications overtake each other, and one that may be garbled, as the first listing
   has one now.
2. That `Deploy` implements `LaunchLog` from its first state too, with the tables of
   the old watcher's steady state as an initial state of the log.
3. An abstract specification of the limiter (so many admissions in each window) that
   `RateLimit` implements.
4. The choice among several candidate launches (`evaluate_candidates`,
   `select_report`), which only selects among the reports `EarlyBuyers` describes.
