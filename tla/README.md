# A TLA+ verification of sqlxmq

sqlxmq is a job queue built on PostgreSQL.  Its state is two tables, its
operations are stored procedures written in SQL (`src/migrations/`), and a Rust
crate (`src/src/`) calls them: producers spawn jobs, runners poll for them and
execute them, and running jobs keep themselves alive, checkpoint and complete.
The crate promises jobs that are delivered reliably, retried, processed in order
within a channel, and executed exactly once when their effects are updates to
the same database (`src/src/lib.rs:17-80`).

This directory states what those promises mean, checks them on small instances
with TLC, and proves them with TLAPS for all instances where that is possible.

    tlc -config MCStore.cfg MCStore      one run; each .cfg names its module's prefix
    tlapm MqStoreProofs.tla              the proofs about the stored procedures
    tlapm MqJobsProofs.tla               those about runners, jobs and producers
    tlapm MqRunnerProofs.tla             those about the loop of one runner
    tlapm MqLeaseProofs.tla              those about leases and keep-alives
    tlapm MqRegistryProofs.tla           those about the registry and the attribute macro
    tlapm MqTransactionsProofs.tla       those about calls that overlap
    tlapm MqTablesProofs.tla             the lemmas about tables, and the size of a batch

## 1. The system

### Components

| Component | Source | State it keeps | Operations |
|---|---|---|---|
| Tables and stored procedures | `migrations/*.up.sql` | `mq_msgs` (schedule, attempts, commit interval, link to the message before it), `mq_payloads`, a dummy row with the nil uuid | `mq_insert`, `mq_poll`, `mq_commit`, `mq_keep_alive`, `mq_checkpoint`, `mq_delete`, `mq_clear`, `mq_clear_all` |
| Producer API | `src/spawn.rs` | a builder, nothing shared | `spawn`, `commit`, `clear`, `clear_all`, `exists` |
| Runner main loop | `src/runner.rs` `main_loop` | `running_jobs`, the notify permit, a failure counter | poll when `running_jobs < min_concurrency`, sleep until a notification, a drop or the wait time |
| `poll_and_dispatch` | `src/runner.rs` | the rows of one poll | poll, delete expired uncommitted messages, start the others |
| `CurrentJob`, `Checkpoint` | `src/runner.rs` | a handle: message id, keep-alive task | `complete`, `complete_with_transaction`, `checkpoint`, `keep_alive`, drop |
| Automatic keep-alive | `src/runner.rs` `keep_job_alive` | the current interval | extend the lease every half interval, doubling |
| Notification listener | `src/runner.rs` `start_listener` | a database connection, an error counter | turn notifications into wake-ups of the runner |
| Handles | `src/runner.rs`, `src/utils.rs` | the runner's tasks | abort on drop, stop and wait |
| Registry | `src/registry.rs` | a map of names to jobs, the contexts | `new`, `set_context`, look up, call, report an error |
| `test_one` | `src/runner.rs` | one job | poll one message, dispatch it, wait |
| Attribute macro | `sqlxmq_macros/` | the options of one function | read the arguments, generate a name and a chain of setters |
| `should_retry` | `src/lib.rs` | none | classify database errors |

### How they interact

Everything shared lives in the database.  A producer's transaction inserts a
message; inserts, and deletes that unblock a successor, notify the channel's
listeners; a listener wakes its runner; the runner's poll claims messages by
moving `attempt_at` one backoff ahead.  That is a *lease*: until it runs out
no other poll takes the message.  The handle given to the job extends the lease
or ends it by deleting the message.  Nothing marks a message as running and
nobody is told when a lease expires, so every guarantee about concurrent
execution is a statement about times.  A producer may also spawn a job with a
commit interval: the message is then not to run until `mq_commit`, and when the
interval has passed the next poll returns it marked as uncommitted and the
runner deletes it.

### What is hard about it, and what makes each component correct

* **Ordered channels.**  The order is a linked list in a table
  (`after_message_id`), whose end is found by a query over timestamps and whose
  head is removed by `ON DELETE SET DEFAULT`.  Correct: one head for each
  channel, no lost or crossed links, whatever is deleted; a poll never
  overtakes; unblocking always notifies.
* **Attempts and schedule.**  `attempts` and `attempt_at` are updated by five
  procedures with expressions that involve NULL.  Correct: handed out no more
  often than paid for, never forgotten while attempts are left, no lease cut
  short, no attempt before the time asked for.
* **What runners and handles hold is stale.**  Correct: one live handle for a
  message, one completed transaction, no uncommitted job run, no committed
  message discarded; and where this depends on promptness, exactly on which.
* **Transactions that overlap.**  `mq_poll` and `mq_insert` under READ
  COMMITTED, with row locks, a unique index and a foreign key.  Correct: they
  behave as if run one after the other, or fail with an error
  `should_retry` accepts, and only calls that lock several rows make deadlocks.
* **A lease against the clock.**  A poll takes time to become a job, and a
  keep-alive to be sent and answered; a job that is gone may have one on its way.
  Correct: the lease is there as long as it is needed, and goes when it is not.
* **Names across processes.**  A message is found again by a string, in
  another process that has registered other functions and contexts.  Correct: it runs
  the function that spawned it or none, whatever names the attributes gave.
* **The end of a process.**  `stop` and `wait_jobs_finish` return while others work.
  Correct: when they have returned nothing is left that they promise to await.
* **The runner's loop.**  A counter that other threads decrement, one stored
  permit and four sources of wake-ups (a drop, a notification, a listener that
  resumes, the timeout).  Correct: never more than the maximal concurrency, never asleep
  past the time of a message it could have been told of, never awake for nothing unless
  other runners got in its way, and really stopped when `stop` has returned.

`PROJECT.json` lists each hazard at its line with the properties that cover it.

## 2. The modules

**`MqTables`** holds what the SQL statements compute, as operators on tables.  A
table is a function from ids to rows, a row a record of the columns of
`mq_msgs`; `Null` is SQL's NULL, and `Greatest` and `Coalesce` treat it as
PostgreSQL does (`GREATEST` ignores NULLs, which one of the findings depends on).
`Tails` is the query of `mq_latest_message`; `Consistent` is the unique index
and the foreign key; `IsBatch` says which sets of rows a poll may return: messages
that are due, whose predecessor is the dummy row, in a subscribed channel, as many
as the limit allows; `NextAttempts` is what the second query of `mq_poll` takes the MIN of.

**`MqStore`** makes each stored procedure one atomic action over the variables
`msgs`, `payloads`, `notices` (notifications on their way) and `now`.  Two
history variables, `births` and `hist`, record the order of insertion, the time
asked for, the attempts paid for and the attempts handed out; no guard of a
procedure reads them except to choose a fresh id and to poll before completing.
The guards in `Next` are those of the Rust callers: only polled messages are
checkpointed or completed, a spawn uses a fresh id, and the time an insert sees is the
start of its transaction, which may lie back (`Lags`).

**`MqJobs`** extends it with those callers.  `batch[r]` is what
`poll_and_dispatch` of runner `r` holds between its two queries, `running` the
`CurrentJob` handles, each a message with the number of its attempt,
`deadline` the time by which a producer believes it has to commit.  Every
await is a point where other actors act, and where a batch is lost
(`LoseBatch`: an error, an aborted task) or a job ends without completing
(`DropJob`: a return, a panic, a killed process).  The two Boolean constants
state the assumptions the crate's guarantees turn out to need:
`PromptHolders` - no lease of a held message runs out - and `PromptProducers` -
nobody commits after the interval has passed.

**`MqQueue`** is the abstract specification of all that: one queue of jobs.  A job is
spawned, open until it is committed, taken by one worker at a time when no earlier ordered
job of its channel is left, and completed for good or let go.  It knows no
schedule, attempt, lease or runner, and translates no code; it states what
`lib.rs:17-80` lets a user believe.  `MqJobs` maps to it by `QueueJob`, `QueueStatus` and
`QueueTaken`: the jobs taken are those with a handle or about to get one, and a job is
gone when it has no row any more.  Clearing takes a job out of the queue, but not from the
worker who has it.

**`MqRunner`** is one runner in detail: `main_loop` and `poll_and_dispatch` cut at every
access to what other threads touch (`pc` says where it is), the atomics `running` and
`permit`, a drop between its `fetch_sub` and its `notify_one` (`falling`), the listener, and
the handle.  It does not extend the store.  Of a message it keeps the number of ticks until
a poll may claim it (`due`, `Null` for never or not yet) and whether it is uncommitted;
these count down, so time needs no bound and liveness can be checked.  `mq_poll` is executed
in stages, as other calls go on meanwhile: `Select` chooses rows from the snapshot of the
UPDATE (`found`), `Polled` claims those of them that still pass its WHERE clause when their
turn comes, `NotFound` is when none does, and `PolledNothing` is the second query, with a
snapshot of its own.  NOW() is the same in all of them, so the clock stands still between
them.  `raced` is a history variable, the messages others have changed since `Select`: a
poll whose rows went to another runner may answer with a wait of zero, and is repeated. What
producers, jobs and other runners do to messages is what `MqStore` lets them do: a message
that becomes available is announced in the same step (`Announce`; the store's
`WakeupOnUnblock`), a committed one is otherwise only put off (`Postpone`;
`LeaseNeverShortened`), with two exceptions nobody is told of, a commit and a checkpoint on
the last attempt (`Commit`, `Revive`).  `untold` is a history variable: the messages that
came forward since the last poll without a notification that can still arrive.  The dispatch
function returns; what a panic in it does is in `MqRegistry`.  Connection failures are
`Disconnect` (`recv` replaces the connection silently), `ListenerFails` and
`ListenerResumes`.  A query whose answer is lost may have taken effect or not (`QueryLost`).

**`MqSerial`** is the abstract specification of concurrent calls: each takes effect in one
step, on rows that satisfy its WHERE clause in that step, and a new ordered message goes to
the end of its channel; one that is rejected, rolled back or finds nothing changes nothing
(`Idle`).  It uses the operators of `MqTables`. **`MqTransactions`** runs the same calls as
PostgreSQL does under READ COMMITTED, in transactions that overlap (`Tx`), and implements
`MqSerial`; what it maps is the committed table.  An UPDATE or DELETE finds its rows in a
snapshot of its own, with the NOW() of its transaction (`Begin`), visits them in any order,
waits for the lock of each (`Wait`) and tests its WHERE clause again on the row as it is now
(`Lock`), and a DELETE then does the same to the rows that referred to the deleted ones
(`Cascade`).  Whoever is the first to wait for a row holds its tuple lock (`first`), at once
or when it becomes free (`LockTuple`); later ones wait behind the first and not only behind
the holder (`Line`, `Ahead`), until the row is free and nobody is ahead, or has a new
version to be looked at.  An INSERT takes the end of the channel from a snapshot
(`BeginInsert`; an insert that is not ordered has no predecessor and claims nothing), waits
for whoever may change the answer of the unique index (`CheckUnique`) and of the foreign key
(`CheckForeign`), and raises an error or keeps a claim on its predecessor.  Everything is
visible at the commit.

**`MqLease`** is one message against the clock, all of whose queries take up to
`Latency` ticks: the lease of each attempt, what the batch of a poll becomes, and
`keep_job_alive` - asleep, its query on the way to the row, its answer on the way back, or
off after a failure (`Fail`).  A query that was on its way when its job was
dropped may still arrive (`stray`, `Arrive`).  It states when the leases that `MqJobs`
assumes to be kept (`PromptHolders`) are kept.

**`MqDefinitions`** goes from `#[job(...)]` to the parameters of an insert: the arguments
one by one (`interpret_job_arg`), accepted, rejected or, if a path of several segments,
ignored; the default name (`PathOf`, the same for two functions in different blocks of one
module); the generated function (`Expand`, whose `Chain` is the chain of setters); a spawn
through it or by name.  **`MqRegistry`** extends it with a process that registers functions
(`new`), provides contexts, and runs a runner that it stops and awaits, as the example
`graceful-shutdown` does, or calls `test_one`.  Of a row it keeps the name and whether it
may be polled; which messages are committed, and which queries fail, is left open.  Any
dispatch may panic (`DispatchPanics`): for a missing context, in what a function that is not
`async` does before it returns its future, or in the error handler.  It ends `main` if
`test_one` was called there; else it ends the runner's task, which `main` does not notice
(`crashed`).  A process may end anywhere (`Exit`) and another, with other functions, go on
with its messages.

**`MqStoreProofs`**, **`MqJobsProofs`**, **`MqTransactionsProofs`**, **`MqRunnerProofs`**,
**`MqLeaseProofs`**, **`MqDefinitionsProofs`** and **`MqRegistryProofs`** hold the lemmas and
theorems.  What the statements do to a table whose constraints hold is stated once, in
**`MqTablesProofs`**, which the first three extend: the store and the transactions
run the same statements, one call at a time or many.
**`MCStore`**, **`MCJobs`**, **`MCRunner`**, **`MCTransactions`**, **`MCLease`** and
**`MCRegistry`** give TLC its small sets.

| Code | TLA+ |
|---|---|
| `mq_msgs`, `mq_payloads` | `msgs`, `payloads` |
| a stored procedure `mq_x` | the action `mq_x` of `MqStore`, its statements in `MqTables` |
| `pg_notify` | `notices` grows; a second notification not yet received adds nothing |
| `JobBuilder::spawn` | `Spawn`, `spawn` |
| `poll_and_dispatch` | `PollBatch`, `DiscardUncommitted`, `Dispatch`, `LoseBatch` |
| `CurrentJob::complete`, `complete_with_transaction`, `checkpoint*`, `Drop` | `complete`, `complete_with_transaction`, `checkpoint`, `DropJob` |
| `keep_job_alive`, `CurrentJob::keep_alive` | `keep_alive` |
| `running_jobs`, `notify`, `failures`, `batch_size`, `duration` | `running`, `permit`, `failures`, `batch`, `alarm` |
| `main_loop` | `Check`, `QueryFails`, `DispatchDone`, `Wake`, `Timeout` |
| `mq_poll` in `MqRunner` | `Select`, then `Polled`, or `NotFound` and `PolledNothing` |
| the rest of `poll_and_dispatch` in `MqRunner` | `Discarded`, `DispatchNext` |
| `Drop for CurrentJob` | `JobEnds`, then `DropNotifies` |
| `start_listener` | `Receive`, `Disconnect`, `Connect`, `ListenerFails`, `ListenerResumes` |
| `OwnedHandle` and its drop | `Stop`, `StopReturns`, `DropHandle`, `Cancel`; of a keep-alive task `Over`, `OnItsWay` in `MqLease` |
| a call in a transaction that overlaps others | `Begin`, `Wait`, `LockTuple`, `Lock`, `Cascade`, `CommitUpdate`; `BeginInsert`, `CheckUnique`, `CheckForeign`, `CommitInsert`; `Rollback` |
| `should_retry` | `should_retry` |
| `keep_job_alive` in `MqLease` | `Send`, `Renew`, `Answer`, `Fail` |
| `interpret_job_arg`, `job` of the macro | `interpret_job_arg`, `Expand`, `Chain`, `NameOf` |
| the setters of `JobBuilder`, `NamedJob::builder` | `Set`, `SetProto`, `Params`, `Spawn`, `SpawnByName` |
| `JobRegistry` | `new`, `set_context`, `resolve_job`, `DispatchUnknown`, `DispatchPanics`, `DispatchJob`, `JobEnds`, `error_handler` |
| `test_one` | `test_one`, `TestReturns` |
| `stop`, `wait_jobs_finish`, the end of `main` | `stop`, `wait_jobs_finish`, `Exit` |

Abstractions: the JSON and binary payloads are one abstract payload; a call
that raises an error is no step; a channel is a pair of a name and an argument,
as in the tables; a transaction that contains a checkpoint or a delete takes
effect in one step when it commits; effects of a job's transaction are counted,
not represented.  In `MqRunner` the answer to a poll takes no time, so its alarm is
late by the time an answer takes; the back-off after a failed poll is any member of
`Backoffs`, since only the overflow of its computation matters; tasks after an abort
may take more steps than tokio would let them.  In `MqTransactions` a transaction is one
call - those of the library are, except when a producer or a job puts several in its own -
and a handle deletes only a message that was handed out; its
clear is `mq_clear_all`.  `MqLease` has the `keep_alive` option on,
and leaves out what only other messages see.  In
`MqRegistry` a message is not handed out while its job runs (`LeaseKept`), and names, contexts
and literals are members of small sets; the code that an attribute generates beside the
builder is left out.

Names with the form of a changed definition (`ClaimedOnceMore`,
`stopAtOnce`...) stand just before the definition they vary and are marked
*Mutant*.  They are plausible mistakes; each property is violated when one
of them takes the place of the definition, which shows that the property depends on the
code.

## 3. The runs

| Run | Configuration | States | Shows |
|---|---|---|---|
| `store` | `MCStore` | 619 875 | Chains, constraints, order of polls, notifications, leases, the commit schedule, attempts: three messages, ordered or not, in two channels of one name, with and without delays, commit intervals, retries and checkpoints |
| `store_last_attempt` | `MCStore_checkpoint` | *violated* | finding 1 |
| `jobs_prompt` | `MCJobs_prompt` | 177 418 | Two runners, two messages, prompt holders, clears: one handle, one transaction, in order, and the abstract queue is implemented |
| `jobs_late` | `MCJobs_late` | 106 205 | Leases that run out, clears: two-phase commit |
| `jobs_late_commit` | `MCJobs_commit` | *violated* | finding 3 |
| `runner_loop` | `MCRunner_loop` | 1 055 370 | One runner: types, the bound on concurrency, wake-ups, waits, stop |
| `runner_live` | `MCRunner_live` | 35 148 | Liveness: what can be claimed is claimed, `stop` returns |
| `runner_outage` | `MCRunner_outage` | *violated* | finding 5 |
| `transactions` | `MCTransactions` | 594 211 | Three connections that poll, keep alive, delete, clear and insert two messages of an ordered channel: serial execution, no attempt claimed twice, the constraints, rejected inserts, deadlocks |
| `lease` | `MCLease_kept` | 12 955 | Three attempts, late and failed keep-alives, drops at any tick: leases kept while needed (safety) and not for ever (liveness) |
| `lease_lost` | `MCLease_lost` | *violated* | findings 2 and 4 |
| `library` | `MCRegistry` | 2 414 143 | Two functions with one default name, every list of up to two arguments for one of them, every list of registered functions, two messages, several processes one after the other: declared defaults, the function that runs, shutdown |

**Bounds.**  `MaxTime` bounds the clock and `MaxGranted` the attempts that checkpoints may
add; ids are used once, so `MsgId` bounds the spawns.  Three messages make a chain whose
head can go while two are left, or be completed together with another, and leave one to be
inserted behind the result; two channels of one name are the smallest case in which looking
at the name is not enough, and a transaction that began one step ago the smallest in which
`created_at` and the order of insertion differ.  Two messages suffice where time is the
subject: rows do not influence each other's schedules, and the second is there for the batch
and for the ordered successor.  Two runners are the smallest number that can hold the same
message.  Clocks of three or four values are longer than the longest backoff or interval
plus one, so every lease can run out and be renewed; a keep-alive of one tick meets the
deadlines two ticks ahead that checkpoints set, which it must not bring forward.  In the
runner's loop two messages and two jobs are the smallest numbers with which a job runs while
a batch is polled, so that the batch differs from the maximum, and with which a drop can
leave a job behind; the minimum and the maximum are the same number there, since telling
them apart takes a third message and ten times the states.  `Threads` is how many threads
can be inside a drop at once, and `MaxFailures` stops a count that matters only at zero and
at 64 (which is its value in `runner_outage`).

In `transactions` three connections are the smallest number with which one call waits in line
behind another that waits for a third.  The queue is empty at first, and two messages to insert are
enough for two inserts that compete for one predecessor, for a cascade and for calls that lock several
rows; the run gets to deadlocks of two clears with a keep-alive between them, and to both kinds of rejections.
One tick of the clock lets the NOW() of a transaction be older than what it sees.  `mq_commit` and
inserts that are not ordered are left to the theorems, which hold for any statements.
`lease` has three attempts, so that a
keep-alive left over from the first can arrive in the third, a half backoff of one tick more
than two queries may take - the smallest for which `LeaseKept` can hold - and doubles the
interval twice (`MaxHalf`).  In `library` two arguments show order and repetition, a
prototype that sets one field an explicit option overrides and one that none does tells them
apart, and `MaxInt` is 7 so that the casts of `retries` meet both ends of their range: 7
retries are rejected by the database, 8 become negative.  Slots for messages are used again
when a message is gone (`Free`), so two allow any number of spawns. The theorems remove
these bounds.

**Symmetry.**  Message ids and runners in `MCStore` and `MCJobs`, connections in `MCTransactions`, slots in `MCRegistry`: no property and no action tells
them apart.  `MCRunner` and `MCLease`, which check liveness, use none.

**Deadlock.**  Checked in the `MCStore` runs, where something can always be received,
polled (an empty poll is a step) or inserted.  In the `MCJobs` runs the system
stops when the bounded clock does: with no job left and no time passing nothing
is enabled; those configurations turn the check off.  So does `MCRegistry`, where a crate
with a rejected argument does not compile and nothing happens any more.  It is checked in
the `MCRunner` and `MCLease` runs, where time always passes, and in `MCTransactions`, where
whoever waits can be rolled back; who may have to be is what `DeadlocksTakeTwo` says.

**Fairness.**  Only the specifications `FairSpec` of `MqRunner` and `MqLease` assume any. In
`MqRunner`, steps of a task between suspensions, the timeout and the passing of time are
weakly fair: the tokio runtime runs tasks that can run.  Each stage of a poll (`Select`, the
UPDATE, the second query) is strongly fair, that is, the database does not answer with
errors for ever.  So is cancellation: a task that was aborted is dropped at one of the
suspension points it keeps coming to.  Nothing is assumed of the listener, of jobs or of
producers: `WorkIsClaimed` holds when every notification is lost and no job ever ends (it
then wants no more).  In `MqLease` all of it is weak: some runner polls (`WorkIsClaimed`), a
batch is dispatched or lost, `keep_job_alive` goes on - it may fail instead -, a query on
its way arrives, a job ends in some way, and time passes.

## 4. Findings

1. *A checkpoint on the last attempt revives the message*
   (`setup.up.sql:278`).  `mq_poll` marks the last attempt by setting `attempt_at` to NULL.
   `mq_keep_alive` leaves NULL alone; `mq_checkpoint` computes
   `GREATEST(attempt_at, NOW() + duration)`, which is not NULL.  The message
   becomes due again, its `attempts` has passed 1, and it is retried for ever - at once, and
   while its job runs, if the checkpoint has no duration.  Run `store_last_attempt`.
2. *"Exactly once" needs a kept lease* (`runner.rs:145`).
   `complete_with_transaction` commits even when the message was gone or
   handed to another handle.  Run `lease_lost`.
3. *A late commit succeeds and the message is deleted* (`runner.rs:412`).  The
   decision to discard is taken from the row as polled and carried out by
   a separate query.  Run `jobs_late_commit`.
4. *One failed keep-alive is the last one* (`runner.rs:511`).  `keep_job_alive` leaves
   its loop at the first error, of whatever kind; the job goes on and is not told, its
   lease runs out, and the message is handed out again.  Run `lease_lost`, where it is
   the only failure.
5. *An outage ends the runner of a debug build* (`runner.rs:488`).  `50 << failures`
   overflows at 64 failures.  The back-offs would take years to get there, but a
   listener that fails too pauses one second - its own back-off never grows, because
   `num_errors` is reset by the next round - and then wakes the runner, whatever its back-off.
   With overflow checks the task panics and nobody notices; without them the shift count
   wraps.  Run `runner_outage`.

Not violations of anything the repository says, but worth knowing: `MAX_WAIT` does not bound
the wait when some message has a next attempt (`runner.rs:433`), so that after a lost
notification the delay is bounded by the earliest known attempt only; and a
`min_concurrency` above `max_concurrency` makes a full runner poll without pause for no
messages, which is why `NoBusyLoop` has a hypothesis.  Polls, commits and clears that
overlap can deadlock on row locks, since they lock several rows in no particular order; the
victim of a poll is repeated by `main_loop`, those of other calls by their callers.  A
keep-alive makes no deadlock of its own, but it can be drawn into one of two such calls: one
holds `a` and wants `b`, the keep-alive is the first to wait for `a`, and the other holds
`b` and waits for `a` behind it.  If PostgreSQL then takes the keep-alive as its victim,
`keep_job_alive` ends as in finding 4.  A poll whose rows another runner has just taken
answers with no message and, when others are due, a wait of zero, and is repeated at once
(`runner.rs:433`).  A `retries` of `i32::MAX` is an error of the database, a greater one a
negative number of attempts.  `test_one` without a message ready returns `Ok` as if it had
run one, in spite of its assertion (`runner.rs:293`): `mq_poll` answers with one row in any
case.  It also does when the message is not committed (`runner.rs:296-298`), which then
stays claimed until its backoff is over.  A missing context, a panic of a job function
that is not `async` before it returns its future (`sqlxmq_macros/src/lib.rs:298-299`) or
one of the error handler for unknown names (`registry.rs:122`) ends the runner's task and
drops the rest of its batch.  Two functions of one name in different blocks of one module
have the same default name, and cannot both be registered.  The error of a job reaches the
error handler only after `wait_jobs_finish` has stopped counting it.

## 5. The proofs

All theorems hold for every value of the constants that satisfies `TablesAssumption`,
`StoreAssumption`, `JobsAssumption`, `TransactionsAssumption`, `RunnerAssumption`,
`LeaseAssumption`, `DefinitionsAssumption` and `RegistryAssumption`: any sets of messages,
channels and arguments, finite or not, except that the runner's `Msg` and the registry's
`Message` are finite because handles are counted, and the tables `MqTransactions` starts
with because a channel without an end has no last message.

### Tables (`MqTablesProofs`)

`Consistent` is what the database enforces; `Chained` (an ordered message follows an ordered
one of its channel, and never itself in a circle) and `AttemptsLeft` (a message that is
scheduled has an attempt left) is what no constraint says and every statement keeps.  The
lemmas say so of each: claims, commits, keep-alives and checkpoints leave the links alone
(`TableLinks`), an insert after the last message and a delete of a *closed* set - one that
contains what comes before its members - keep constraints and chains. `HeadExists` and
`LastExists` say that a channel with ordered messages has a first and, if it is finite, a
last one; the latter by counting: were everyone followed by another, the followers would be
all but the first, one fewer than there are.

`BatchSize` is what the runner may expect of a poll, whichever channels and messages its
subquery chooses: no more messages than `limit`, at least one if any is ready, all of them
if they are not more than `limit`.  The runner relies on it for its maximal concurrency and
to leave nothing behind that it wants; `MqRunner`'s `Select` takes it for granted.
`EmptyPollWaits` is about the two queries of `mq_poll`, which name their conditions twice in
different forms: on one table, the first chooses nothing exactly when every time the second
one considers is in the future.  `MqRunner` uses one operator for both because of it
(`Claimable`, `WaitTime`).

### The stored procedures (`MqStoreProofs`)

*Chains.*  `PollsInOrder` and the two "no conflict" invariants are not inductive:
that a poll hands out the earliest ordered message of its channel follows from the
shape of the whole list.  The inductive invariant is

    IInv == TypeOK /\ TablesAgree /\ ChainInv

where `ChainInv` says that each ordered message refers to the dummy row or to an
ordered message of its own channel inserted earlier, that no two refer to the same,
and that a message handed out refers to none.  `InsertKeeps` and `DeleteKeeps`
show that a new tail and a removed set preserve it; the latter
covers both deletes of handed-out messages, which are heads, and clears, which remove
whole channels - a delete of arbitrary rows would break it.  From it:
`HeadIsEarliest` (by induction along the chain, as a least counterexample in the order
of insertion) gives `OrderedPolls`; `TailExists` (a greatest one) gives
`InsertsSucceed`; the uniqueness of heads gives `DeletesSucceed` and
`UnblockingNotifies`.

*Time.*  `RowSteps` says what any step can do to one row.  From it follow
`LeasesOnlyGrow` and, with `TimeInv` - which adds that a message without
`attempt_at` has been polled after the time asked for, because a checkpoint may
give it one again - `ScheduleKept`.

*Attempts.*  `AttemptInv` is a balance: attempts handed out plus attempts in the row
are the attempts granted, and the row is scheduled when it has some left.
It gives `NothingForgotten` without conditions and `AttemptsBounded` under `~ Reviving`,
which excludes exactly the checkpoint of finding 1.

| Theorem | Property | Hypothesis |
|---|---|---|
| `TypeCorrect` | `TypeOK` | |
| `TablesAlwaysAgree` | `TablesAgree` | |
| `ChainsKept` | `ChainInv` | |
| `InsertsSucceed`, `DeletesSucceed` | `InsertNeverConflicts`, `DeleteNeverConflicts` | |
| `OrderedPolls` | `PollsInOrder` | |
| `UnblockingNotifies` | `WakeupOnUnblock` | |
| `LeasesOnlyGrow` | `LeaseNeverShortened` | |
| `ScheduleKept` | `CommitRestoresSchedule` | |
| `NothingForgotten` | `AttemptsLeftAreScheduled` | |
| `AttemptsBounded` | `AttemptsWithinGrant` | `~ Reviving` |

### Runners, jobs and producers (`MqJobsProofs`)

`StoreImplemented` shows that `MqJobs` implements `MqStore` (`HeldInv`: what runners and
handles hold has been polled), so every theorem above holds for the library; the
invariants of the store are also the base of everything else here (`JobsInv`).

*Two-phase commit.*  A delivery whose row exists is committed (`CommittedInv`), because a
commit interval never comes back.  For `CommitsAreFinal`, `ProducerInv` relates
what the producer knows to the row: an unpolled message comes up no earlier than
the producer's deadline, through spawn and keep-alives alike; a polled one is past it.

*Leases.*  Under `LeasesKept` - holders are prompt, backoffs and the durations of
checkpoints are positive - `LeaseInv` says that no message somebody works on is due.
Then a poll, which takes only what is due, cannot create a second holder
(`UniqueInv`), a committed transaction ends the only one (`OnceInv`), and, where
channels are not cleared, a message is in the table as long as somebody works on it
(`PresentInv`).

*Order.*  Once a message has been polled, no ordered message spawned before it in its
channel is in the table, and none comes back (`OrderInv`); so a job that still finds its
message commits after those before it (`EffectsInv`: what nobody has polled has no effects).
This needs no hypothesis; `RunningJobsArePresent` says when every job still finds its
message.  Both refinements are proved; `ImplementsQueue`, which says more, is also
model-checked.

| Theorem | Property | Hypothesis |
|---|---|---|
| `StoreImplemented` | `ImplementsStore` | |
| `JobsTypeCorrect` | `JobsTypeOK` | |
| `CommittedJobsOnly` | `NoUncommittedJob` | |
| `CommitsAreFinal` | `CommitIsFinal` | `PromptProducers` |
| `OneHandle` | `OneHandlePerMessage` | `LeasesKept` |
| `CompletedOnce` | `ExactlyOnce` | `LeasesKept` |
| `RunningJobsArePresent` | the message of every running job is in the table | `LeasesKept`, `PromptProducers`, nothing cleared |
| `OrderedEffects` | `EffectsInOrder` | |
| `QueueImplemented` | `ImplementsQueue` | `LeasesKept`, `PromptProducers` |

*The abstract queue.*  `QueueImplemented` puts these together, with one lemma for each kind
of actor.  A poll is the queue's `Take` of the committed messages it claims: nobody has them
(`LeaseInv`), and no earlier ordered one of their channel is left (`PollInOrder`).  What a
runner discards is open (`CommitsAreFinal`); a lost batch and a dropped job let go; a
completed message is taken by nobody else (`UniqueInv`); clears take the rows of some
channels.  Everything else, and all that has to do with time, is not seen (`SameQueue`).
Clears are allowed here: they are a step of the queue, after which the jobs of the cleared
channel may go on beside later ones.

The hypotheses are needed: without `PromptProducers` run `jobs_late_commit` violates
`CommitIsFinal`, and without kept leases `lease_lost` violates `ExactlyOnce`.

### Calls that overlap (`MqTransactionsProofs`)

`IInv` has, beside types and the table (`TableInv`), one part for each transaction and one
for each pair.  *Rows* (`RowsInv`): what a transaction has tested (`got`) is locked by it
and satisfies its condition in the table as committed, now; so its commit is a step of the
serial specification.  That nobody takes this away is the lemma about commits,
`CommitUpdateKeeps`: a commit changes only rows locked by its own transaction, and their
successors when it deletes them, whose links become the beginning of a channel - which takes
no row away from a poll or a delete.  A poll has only rows that nothing comes before, a
delete and a clear a closed set, so chains are kept.  *Inserts* (`InsertInv`): the message
before a new one, while it is there, is an ordered one of its channel; after the check of
the index no row and no other open insert has the same key; after the check of the foreign
key the message before is there and nobody who deletes has locked it (`PairInv`) - so at the
commit it is still the last of its channel.  *Keep-alives* (`KeepAliveInv`) visit each of
their messages once.

From it follow the invariants and the refinement.  For `DeadlocksNeedTwo`: whoever is in a
deadlock waits for a row that somebody in it has locked, whatever the line (`WhoWaits`,
`SomebodyHasIt`).  Only an UPDATE or DELETE has, and it waits for another row, since nobody
waits for one it has (`WaitInv`); so somebody else has that one, who makes two.  Nothing is
assumed of the statements: a keep-alive of one message, as the crate sends it
(`runner.rs:175`, `504`), has locked nothing while it waits, and so is neither of the two.
For `RejectionsAreStale`: an insert is rejected because the message before it is gone or has
a successor, and neither can be the latest of the channel again.

| Theorem | Property | Hypothesis |
|---|---|---|
| `TransactionsTyped` | `TransactionsTypeOK` | |
| `AttemptsHandedOutOnce` | `AttemptsNotOverdrawn` | |
| `ConstraintsKept` | `ConstraintsHold` | |
| `DeadlocksNeedTwo` | `DeadlocksTakeTwo` | |
| `RejectionsAreStale` | `RejectedInsertsAreStale` | |
| `Serializable` | `SerialExecution` | |

The tables to start with are any that satisfy `Consistent`, `Chained` and `AttemptsLeft`.  The
store reaches no others, except through the checkpoint of finding 1, after which a message
may be scheduled without an attempt left.

### The runner's loop (`MqRunnerProofs`)

`CountInv` relates the counter to the handles - one more only between `fetch_add` and
`dispatch` - and bounds handles, undispatched messages and the batch asked for
together; this is what survives jobs that end during a poll, and holds for every
minimum and maximum.  `WakeInv` strengthens `NoOversleep`: a notification on its way
excuses only the messages it tells of, so that one lost with its connection can be accounted
for; an alarm is zero while a batch is dispatched; a drop that makes the runner want
jobs leaves `falling` or the permit behind.  `BusyInv` follows the rows of a poll that is executed:
one that was chosen and is no longer due has been changed by others, and if none was chosen one that
is due has; so an empty poll with a wait of zero has lost what it chose, or
been overtaken by a message that came meanwhile.

| Theorem | Property | Hypothesis |
|---|---|---|
| `RunnerTypesCorrect` | `RunnerTypeOK` | |
| `ConcurrencyBounded` | `ConcurrencyBound` | |
| `NoLostWakeup` | `NoOversleep` | |
| `NoBusyLoop` | `NoBusyPolling` | minimum at most maximum, `MaxWait > 0` |
| `StoppingIsFinal` | `StopIsFinal` | |

### Leases and keep-alives (`MqLeaseProofs`)

`QueriesAreShort == 2 * Latency < HalfBackoff` is the only hypothesis of `LeasesKept`.  The
inductive invariant says, for each attempt that counts on the lease, what is
certainly left of it (`Slack`): in a batch the backoff less the ticks since the poll; during a
sleep of the keep-alive more than its rest and the time of a query together; then what the
query has not used of that time, until it reaches the row; then the new duration less
the ticks since it was sent.  A renewal never shortens a lease, so one attempt's slack
survives the renewals of others, and of strays.  Two facts make it inductive: no half is below
the first (`LeaseTypes`), and an attempt polled before the commit is never dispatched, so
that a commit shortens no lease that is counted on.

### Attributes, registry and processes (`MqDefinitionsProofs`, `MqRegistryProofs`)

The options of an attribute without a rejected argument are *faithful* to the
arguments (`Faithful`): no option is repeated, each has the value given, and no other has
one.  `ArgumentStep` shows that one more argument keeps it so, `ChainIs` that the chain of setters
makes of faithful options what the documentation declares, field by field and in any order.

`RegInv` adds, for the rest, where each message is (`TasksInv`), that messages and what is
sent carry the name of the function that spawned them (`NamesInv`), that names are
settled when a process starts and injective on what it has registered (`ProcessInv`),
and that `running_jobs` is the number of live handles (`CountInv`), from which a wait that
has seen zero concludes that there are none (`WaitedInv`).

| Theorem | Property | Hypothesis |
|---|---|---|
| `LeaseTypesCorrect` | `LeaseTypeOK` | |
| `LeasesKept` | `LeaseKept` | `QueriesAreShort` |
| `LibraryTypesCorrect` | `LibraryTypeOK` | |
| `AttributesAsDeclared` | `AsDeclared` | |
| `JobsRunAsSpawned` | `RunsTheJobSpawned` | |
| `StopThenWait` | `GracefulExit` | |

### What is only model-checked

The liveness properties `WorkIsClaimed`, `StopEnds` and `Settles` stay with TLC: TLAPS has
no rules for fairness and ENABLED that the installed provers can use.  So do inductions over
data (the library's induction theorems take an operator as a parameter; the two arguments
along chains use that the naturals are well-founded, as a fact about sets) and RECURSIVE
definitions, of which there are none.

## 6. What is not modelled

Not modelled:

* two calls with the same id and a `complete` that is repeated after a lost answer: the
  crate does neither itself;
* an `mq_insert` with several messages, whose `LAG` chains them: the crate sends one;
* several calls in one transaction of a producer or a job, in `MqTransactions`; a checkpoint
  among overlapping calls, which changes one row as a keep-alive does;
* the random choice of channels as a probability, and the fairness between channels that rests
  on it (`lib.rs:64-67`);
* the stress benchmark, which measures the library on older copies of the migrations;
* a property of `test_one`: it is an action of `MqRegistry`, but what it promises is the one
  wait it consists of;
* logging, tracing, the conversion of payloads, and what the macro generates for the
  signature of a function.
