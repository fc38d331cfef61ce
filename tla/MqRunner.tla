------------------------------ MODULE MqRunner ------------------------------
(***************************************************************************)
(* One job runner: main_loop and poll_and_dispatch with the atomics they   *)
(* share with the jobs (running_jobs, the Notify), the listener, and the   *)
(* handle that stops them.  The runtime has several threads: anything may  *)
(* happen between two accesses to shared state.                            *)
(*                                                                         *)
(* Of the queue it keeps what concerns the runner: how many ticks each     *)
(* message of its channels is away from being claimed.  These times count  *)
(* down, so the clock needs no bound; while mq_poll is executed they stand *)
(* still, as NOW() does.  The dispatch function returns (MqRegistry has    *)
(* what a panic in it does).                                               *)
(***************************************************************************)
EXTENDS Integers, FiniteSets

CONSTANTS
    Msg,            \* the messages of the channels subscribed to
    Null,           \* SQL NULL
    MinConcurrency, MaxConcurrency,
    MaxWait,        \* MAX_WAIT, and the wait when no more jobs are wanted
    Delays,         \* delays and leases, in ticks
    Backoffs,       \* waits after a failed poll, in ticks
    Threads,        \* worker threads that drop jobs
    OverflowChecks, \* whether the build has them (debug builds do)
    MaxFailures     \* bound on the count of failures in a row

ASSUME RunnerAssumption ==
    /\ IsFiniteSet(Msg)
    /\ Null \notin Nat
    /\ MinConcurrency \in Nat
    /\ MaxConcurrency \in Nat
    /\ MaxWait \in Nat
    /\ Delays \subseteq Nat
    /\ Backoffs \subseteq Nat
    /\ Threads \in Nat
    /\ OverflowChecks \in BOOLEAN
    /\ MaxFailures \in Nat \ {0}

VARIABLES
    pc,             \* where main_loop is
    batch,          \* the batch_size of the poll under way
    todo,           \* committed messages of it still to be dispatched
    expired,        \* uncommitted messages of it, ids_to_delete
    found,          \* the rows mq_poll has chosen from its snapshot
    alarm,          \* ticks until the timeout
    failures,       \* failed polls in a row
    running,        \* running_jobs
    handles,        \* CurrentJob handles given to jobs and not yet dropped
    falling,        \* drops between their fetch_sub and their notify_one
    permit,         \* the permit stored in the Notify
    listener,       \* what the listener is doing
    handle,         \* the JobRunnerHandle
    aborted,        \* whether main_loop's task has been aborted
    due,            \* ticks until each message may be claimed; Null: not at all
    uncommitted,    \* messages with a commit interval
    notices,        \* messages a notification on its way tells of
    untold,         \* history: messages that came forward since the last poll
                    \* and no notification will tell of
    raced           \* history: messages others have changed since mq_poll
                    \* chose its rows

loop   == <<pc, batch, todo, expired, found, alarm, failures>>
shared == <<running, handles, falling, permit>>
owner  == <<handle, aborted>>
queue  == <<due, uncommitted, notices, untold, raced>>
vars   == <<pc, batch, todo, expired, found, alarm, failures, running, handles, falling,
            permit, listener, handle, aborted, due, uncommitted, notices, untold,
            raced>>

(* check: before the load of running_jobs.  poll, update, earliest:        *)
(* waiting for the answer to mq_poll, which has not begun, has chosen the  *)
(* rows for its UPDATE, has updated none.  discard: for that to mq_delete. *)
(* dispatch, start: in the loop over the messages, before the fetch_add    *)
(* and after it.  sleep: in the timeout.                                   *)
Steps == {"check", "poll", "update", "earliest", "discard", "dispatch", "start", "sleep"}
Executed == {"update", "earliest"}
Ended == {"stopped", "panicked"}

Init ==
    /\ pc = "check"
    /\ batch = 0
    /\ todo = 0
    /\ expired = {}
    /\ found = {}
    /\ alarm = 0
    /\ failures = 0
    /\ running = 0
    /\ handles = 0
    /\ falling = 0
    /\ permit = FALSE
    /\ listener = "receive"
    /\ handle = "held"
    /\ aborted = FALSE
    /\ due \in [Msg -> Delays \cup {Null}]
    /\ uncommitted = {}
    /\ notices = {}
    /\ untold = {}
    /\ raced = {}

-----------------------------------------------------------------------------
(* The database, as the runner's queries find it                           *)

(* Mutant: uncommitted messages left out, as if they were not the poll's   *)
(* business.                                                               *)
ClaimableCommitted == {m \in Msg \ uncommitted : due[m] = 0}

(* attempt_at <= NOW()                                                     *)
Claimable == {m \in Msg : due[m] = 0}

(* MIN(attempt_at) - NOW(), negative becomes 0, and NULL MAX_WAIT.         *)
WaitTime ==
    LET times == {due[m] : m \in {n \in Msg : due[n] # Null}}
    IN  IF times = {} THEN MaxWait
        ELSE CHOOSE t \in times : \A u \in times : t <= u

(* The UPDATE puts each of S off by a lease or, with its last attempt, for *)
(* good.                                                                   *)
Claim(S) ==
    \E lease \in [S -> Delays \cup {Null}] :
        due' = [m \in Msg |-> IF m \in S THEN lease[m] ELSE due[m]]

(* mq_delete notifies if one of S was first in an ordered channel, whether *)
(* or not another message comes after it.                                  *)
Remove(S) ==
    /\ due' = [m \in Msg |-> IF m \in S THEN Null ELSE due[m]]
    /\ uncommitted' = uncommitted \ S
    /\ notices' \in {notices, IF listener = "receive" THEN notices \cup S ELSE notices}

(* A query whose answer never arrives may have taken effect.               *)
QueryLost ==
    /\ \/ UNCHANGED <<due, uncommitted, notices>>
       \/ /\ pc = "update"
          /\ Claim(found \cap Claimable)
          /\ UNCHANGED <<uncommitted, notices>>
       \/ pc = "discard" /\ Remove(expired)
    /\ untold' = untold
    /\ raced' = {}

-----------------------------------------------------------------------------
(* main_loop and poll_and_dispatch                                         *)

(* Mutant: a batch of the maximal size, whatever runs already.             *)
CheckWholeBatch ==
    /\ pc = "check"
    /\ IF running < MinConcurrency
       THEN pc' = "poll" /\ batch' = MaxConcurrency /\ UNCHANGED alarm
       ELSE pc' = "sleep" /\ alarm' = MaxWait /\ UNCHANGED batch
    /\ UNCHANGED <<todo, expired, found, failures, shared, listener, owner, queue>>

Check ==
    /\ pc = "check"
    /\ IF running < MinConcurrency
       THEN pc' = "poll" /\ batch' = MaxConcurrency - running /\ UNCHANGED alarm
       ELSE pc' = "sleep" /\ alarm' = MaxWait /\ UNCHANGED batch
    /\ UNCHANGED <<todo, expired, found, failures, shared, listener, owner, queue>>

(* The subquery of the UPDATE: batch_size messages, or all there are.      *)
Select ==
    /\ pc = "poll"
    /\ found' \in SUBSET Claimable
    /\ Cardinality(found') <= batch
    /\ found' # Claimable => Cardinality(found') = batch
    /\ raced' = {}
    /\ pc' = "update"
    /\ UNCHANGED <<batch, todo, expired, alarm, failures, shared, listener, owner, due,
                   uncommitted, notices, untold>>

(* Of these rows the UPDATE takes the ones that pass its WHERE clause as   *)
(* they are now: others may have claimed or deleted some.                  *)
Polled ==
    LET S == found \cap Claimable
    IN  /\ pc = "update"
        /\ S # {}
        /\ Claim(S)
        /\ pc' = IF S \cap uncommitted = {} THEN "dispatch" ELSE "discard"
        /\ todo' = Cardinality(S \ uncommitted)
        /\ expired' = S \cap uncommitted
        /\ found' = {}
        /\ alarm' = 0
        /\ batch' = 0
        /\ untold' = {}
        /\ raced' = {}
        /\ UNCHANGED <<failures, shared, listener, owner, uncommitted, notices>>

(* IF NOT FOUND: none was chosen, or none is left.                         *)
NotFound ==
    /\ pc = "update"
    /\ found \cap Claimable = {}
    /\ pc' = "earliest"
    /\ UNCHANGED <<batch, todo, expired, found, alarm, failures, shared, listener, owner,
                   queue>>

(* The answer is a single row with the wait time, computed from the        *)
(* snapshot of the second query.                                           *)
PolledNothing ==
    /\ pc = "earliest"
    /\ pc' = "sleep"
    /\ alarm' = WaitTime
    /\ found' = {}
    /\ batch' = 0
    /\ failures' = 0
    /\ untold' = {}
    /\ raced' = {}
    /\ UNCHANGED <<todo, expired, shared, listener, owner, due, uncommitted, notices>>

mq_poll == Select \/ Polled \/ NotFound \/ PolledNothing

Discarded ==
    /\ pc = "discard"
    /\ Remove(expired)
    /\ pc' = "dispatch"
    /\ expired' = {}
    /\ UNCHANGED <<batch, todo, found, alarm, failures, shared, listener, owner, untold,
                   raced>>

(* 50 << failures, in 64 bits: with overflow checks a shift by 64 panics.  *)
ShiftWidth == 64

QueryFails ==
    /\ pc \in {"poll", "update", "earliest", "discard"}
    /\ QueryLost
    /\ failures' = IF failures < MaxFailures THEN failures + 1 ELSE failures
    /\ IF OverflowChecks /\ failures' >= ShiftWidth
       THEN pc' = "panicked" /\ listener' = "off" /\ UNCHANGED alarm
       ELSE pc' = "sleep" /\ alarm' \in Backoffs /\ UNCHANGED listener
    /\ batch' = 0
    /\ todo' = 0
    /\ expired' = {}
    /\ found' = {}
    /\ UNCHANGED <<shared, owner>>

(* Mutant: the job given its handle before it is counted.                  *)
DispatchUncounted ==
    /\ \/ /\ pc = "dispatch"
          /\ todo > 0
          /\ handles' = handles + 1
          /\ pc' = "start"
          /\ UNCHANGED <<todo, running>>
       \/ /\ pc = "start"
          /\ running' = running + 1
          /\ todo' = todo - 1
          /\ pc' = "dispatch"
          /\ UNCHANGED handles
    /\ UNCHANGED <<batch, expired, found, alarm, failures, falling, permit, listener,
                   owner, queue>>

(* One message of the batch: fetch_add, and the call of dispatch.          *)
DispatchNext ==
    /\ \/ /\ pc = "dispatch"
          /\ todo > 0
          /\ running' = running + 1
          /\ pc' = "start"
          /\ UNCHANGED <<todo, handles>>
       \/ /\ pc = "start"
          /\ handles' = handles + 1
          /\ todo' = todo - 1
          /\ pc' = "dispatch"
          /\ UNCHANGED running
    /\ UNCHANGED <<batch, expired, found, alarm, failures, falling, permit, listener,
                   owner, queue>>

DispatchDone ==
    /\ pc = "dispatch"
    /\ todo = 0
    /\ pc' = "sleep"
    /\ failures' = 0
    /\ UNCHANGED <<batch, todo, expired, found, alarm, shared, listener, owner, queue>>

(* timeout() asks for the permit before it looks at the time.              *)
Wake ==
    /\ pc = "sleep"
    /\ permit
    /\ permit' = FALSE
    /\ pc' = "check"
    /\ UNCHANGED <<batch, todo, expired, found, alarm, failures, running, handles, falling,
                   listener, owner, queue>>

(* Mutant: no timeout around notified().                                   *)
NoTimeout == FALSE /\ UNCHANGED vars

Timeout ==
    /\ pc = "sleep"
    /\ ~ permit
    /\ alarm = 0
    /\ pc' = "check"
    /\ UNCHANGED <<batch, todo, expired, found, alarm, failures, shared, listener, owner,
                   queue>>

-----------------------------------------------------------------------------
(* Jobs: CurrentJob is dropped, with or without a completion before.       *)

(* Mutant: the count after the drop compared, not the one before it.       *)
JobEndsComparedAfter ==
    /\ handles > 0
    /\ falling < Threads
    /\ handles' = handles - 1
    /\ running' = running - 1
    /\ falling' = IF running - 1 = MinConcurrency THEN falling + 1 ELSE falling
    /\ UNCHANGED <<loop, permit, listener, owner, queue>>

JobEnds ==
    /\ handles > 0
    /\ falling < Threads
    /\ handles' = handles - 1
    /\ running' = running - 1
    /\ falling' = IF running = MinConcurrency THEN falling + 1 ELSE falling
    /\ UNCHANGED <<loop, permit, listener, owner, queue>>

DropNotifies ==
    /\ falling > 0
    /\ falling' = falling - 1
    /\ permit' = TRUE
    /\ UNCHANGED <<loop, running, handles, listener, owner, queue>>

-----------------------------------------------------------------------------
(* start_listener                                                          *)

Receive(m) ==
    /\ listener = "receive"
    /\ m \in notices
    /\ notices' = notices \ {m}
    /\ permit' = TRUE
    /\ UNCHANGED <<loop, running, handles, falling, listener, owner, due, uncommitted,
                   untold, raced>>

(* recv() finds the connection gone and reconnects without a word.         *)
Disconnect ==
    /\ listener = "receive"
    /\ listener' = "connect"
    /\ notices' = {}
    /\ untold' = untold \cup notices
    /\ UNCHANGED <<loop, shared, owner, due, uncommitted, raced>>

Connect ==
    /\ listener = "connect"
    /\ listener' = "receive"
    /\ UNCHANGED <<loop, shared, owner, queue>>

(* recv() fails.                                                           *)
ListenerFails ==
    /\ listener \in {"receive", "connect"}
    /\ listener' = "pause"
    /\ notices' = {}
    /\ UNCHANGED <<loop, shared, owner, due, uncommitted, untold, raced>>

(* After the pause num_errors is 1: notify_one, whatever was missed.       *)
ListenerResumes ==
    /\ listener = "pause"
    /\ listener' = "connect"
    /\ permit' = TRUE
    /\ UNCHANGED <<loop, running, handles, falling, owner, queue>>

-----------------------------------------------------------------------------
(* JobRunnerHandle and OwnedHandle                                         *)

(* The task ends where it is suspended, and takes the listener with it.    *)
Cancel ==
    /\ aborted
    /\ pc \in {"poll", "update", "earliest", "discard", "sleep"}
    /\ QueryLost
    /\ pc' = "stopped"
    /\ listener' = "off"
    /\ batch' = 0
    /\ todo' = 0
    /\ expired' = {}
    /\ found' = {}
    /\ UNCHANGED <<alarm, failures, shared, owner>>

(* Mutant: into_inner() without abort().                                   *)
StopUnaborted ==
    /\ handle = "held"
    /\ handle' = "stopping"
    /\ UNCHANGED <<loop, shared, listener, aborted, queue>>

Stop ==
    /\ handle = "held"
    /\ handle' = "stopping"
    /\ aborted' = TRUE
    /\ UNCHANGED <<loop, shared, listener, queue>>

(* Mutant: abort() without waiting for the task.                           *)
StopReturnsAtOnce ==
    /\ handle = "stopping"
    /\ handle' = "stopped"
    /\ UNCHANGED <<loop, shared, listener, aborted, queue>>

StopReturns ==
    /\ handle = "stopping"
    /\ pc \in Ended
    /\ handle' = "stopped"
    /\ UNCHANGED <<loop, shared, listener, aborted, queue>>

DropHandle ==
    /\ handle = "held"
    /\ handle' = "dropped"
    /\ aborted' = TRUE
    /\ UNCHANGED <<loop, shared, listener, queue>>

-----------------------------------------------------------------------------
(* What producers, jobs and other runners do to the messages               *)

(* A poll being executed may have seen m before.                           *)
Race(m) == raced' = IF pc \in Executed THEN raced \cup {m} ELSE raced

(* mq_insert, or an mq_delete that m waited for: with a notification.      *)
Announce(m, delay) ==
    /\ due[m] = Null
    /\ m \notin expired
    /\ due' = [due EXCEPT ![m] = delay]
    /\ uncommitted' \in {uncommitted, uncommitted \cup {m}}
    /\ notices' = IF listener = "receive" THEN notices \cup {m} ELSE notices
    /\ untold' = IF listener = "connect" THEN untold \cup {m} ELSE untold \ {m}
    /\ Race(m)
    /\ UNCHANGED <<loop, shared, listener, owner>>

(* mq_commit: the commit interval is taken off, and nobody is told.        *)
Commit(m) ==
    /\ m \in uncommitted
    /\ due[m] # Null
    /\ \E time \in 0..due[m] : due' = [due EXCEPT ![m] = time]
    /\ uncommitted' = uncommitted \ {m}
    /\ untold' = untold \cup {m}
    /\ Race(m)
    /\ UNCHANGED <<loop, shared, listener, owner, notices>>

(* mq_checkpoint on the last attempt: GREATEST(NULL, NOW() + duration).    *)
Revive(m, delay) ==
    /\ due[m] = Null
    /\ m \notin expired
    /\ due' = [due EXCEPT ![m] = delay]
    /\ untold' = untold \cup {m}
    /\ Race(m)
    /\ UNCHANGED <<loop, shared, listener, owner, uncommitted, notices>>

(* mq_keep_alive, mq_checkpoint, or a claim by another runner, which may   *)
(* be for the last attempt.                                                *)
Postpone(m, delay) ==
    /\ due[m] # Null
    /\ delay # Null => delay > due[m]
    /\ due' = [due EXCEPT ![m] = delay]
    /\ Race(m)
    /\ UNCHANGED <<loop, shared, listener, owner, uncommitted, notices, untold>>

(* mq_delete and mq_clear.                                                 *)
Delete(m) ==
    /\ due[m] # Null
    /\ Remove({m})
    /\ untold' = untold \ {m}
    /\ Race(m)
    /\ UNCHANGED <<loop, shared, listener, owner>>

Earlier(time) == IF time = Null \/ time = 0 THEN time ELSE time - 1

Tick ==
    /\ pc \notin Executed
    /\ due' = [m \in Msg |-> Earlier(due[m])]
    /\ alarm' = Earlier(alarm)
    /\ UNCHANGED <<pc, batch, todo, expired, found, failures, shared, listener, owner,
                   uncommitted, notices, untold, raced>>

-----------------------------------------------------------------------------
Loop == \/ Check \/ mq_poll \/ Discarded \/ QueryFails
        \/ DispatchNext \/ DispatchDone \/ Wake \/ Timeout

Job == JobEnds \/ DropNotifies

Listener == \/ \E m \in Msg : Receive(m)
            \/ Disconnect \/ Connect \/ ListenerFails \/ ListenerResumes

Owner == Cancel \/ Stop \/ StopReturns \/ DropHandle

Others ==
    \E m \in Msg : \/ Commit(m)
                   \/ Delete(m)
                   \/ \E delay \in Delays : Announce(m, delay) \/ Revive(m, delay)
                   \/ \E delay \in Delays \cup {Null} : Postpone(m, delay)

Next == Loop \/ Job \/ Listener \/ Owner \/ Others \/ Tick

Spec == Init /\ [][Next]_vars

(* The runtime runs tasks that can run, an aborted task is cancelled at a  *)
(* suspension point, queries are answered, not for ever by an error, and   *)
(* time passes.  Nothing is said of jobs, producers or notifications.      *)
FairSpec ==
    /\ Spec
    /\ WF_vars(Check) /\ WF_vars(DispatchNext) /\ WF_vars(DispatchDone)
    /\ WF_vars(Wake) /\ WF_vars(Timeout)
    /\ SF_vars(Select) /\ SF_vars(Polled \/ NotFound) /\ SF_vars(PolledNothing)
    /\ WF_vars(Discarded)
    /\ SF_vars(Cancel) /\ WF_vars(StopReturns)
    /\ WF_vars(Tick)

-----------------------------------------------------------------------------
(* The state of runner and queue has its types; in particular neither      *)
(* running_jobs nor the batch size, both unsigned, ever wraps below zero.  *)
RunnerTypeOK ==
    /\ pc \in Steps \cup Ended
    /\ batch \in 0..MaxConcurrency
    /\ todo \in Nat
    /\ expired \subseteq Msg
    /\ found \subseteq Msg
    /\ alarm \in Nat
    /\ failures \in Nat
    /\ running \in Nat
    /\ handles \in Nat
    /\ falling \in Nat
    /\ permit \in BOOLEAN
    /\ listener \in {"receive", "connect", "pause", "off"}
    /\ handle \in {"held", "stopping", "stopped", "dropped"}
    /\ aborted \in BOOLEAN
    /\ due \in [Msg -> Nat \cup {Null}]
    /\ uncommitted \subseteq Msg
    /\ notices \subseteq Msg
    /\ untold \subseteq Msg
    /\ raced \subseteq Msg

(* "Specify the minimum and maximum number of concurrent jobs each runner  *)
(* should handle": never are there more jobs than the maximum, although    *)
(* the batch size is computed from a count that changes while the poll and *)
(* the dispatch go on.                                                     *)
ConcurrencyBound == handles + todo <= MaxConcurrency

(* No lost wake-up: a runner that wants jobs, with no wake-up on its way,  *)
(* sleeps no longer than until the earliest message may be claimed -       *)
(* except for a message that came forward without a notification.  A drop, *)
(* an insert or a delete at any moment of the loop, also between the load  *)
(* of running_jobs, the poll and the sleep, is not missed.                 *)
NoOversleep ==
    /\ pc = "sleep" /\ failures = 0 /\ running < MinConcurrency
    /\ ~ permit /\ falling = 0 /\ notices = {} /\ listener # "pause"
    => \A m \in Msg \ untold : due[m] # Null => alarm <= due[m]

(* "NOTIFY-based polling saves resources when few jobs are being           *)
(* processed": a poll without result is repeated at once only if others    *)
(* have changed all the messages it had chosen, which made them pass it    *)
(* by, or have brought one forward that it had not seen.                   *)
NoBusyPolling ==
    [][pc = "earliest" /\ pc' = "sleep" /\ failures' = 0 /\ alarm' = 0
       => \/ found # {} /\ found \subseteq raced
          \/ \E m \in raced : due[m] = 0]_vars

(* "Stop the inner task and wait for it to finish": once stop() has        *)
(* returned no job starts, so that wait_jobs_finish waits for all of them. *)
StopIsFinal == [][handle = "stopped" => handles' <= handles]_vars

(* "The job runner will stop when the returned handle is dropped", and     *)
(* while it is held it runs.                                               *)
RunsWhileHeld == pc \in Ended => aborted

(* A runner that wants jobs gets what can be claimed, even if every        *)
(* notification is lost and the listener never comes back - unless others  *)
(* are faster.                                                             *)
WorkIsClaimed ==
    (Claimable # {} /\ running < MinConcurrency) ~>
        \/ todo > 0 \/ expired # {}
        \/ Claimable = {} \/ running >= MinConcurrency
        \/ found # {} /\ found \subseteq raced
        \/ pc \in Ended

(* stop() returns.                                                         *)
StopEnds == (handle = "stopping") ~> (handle = "stopped")
=============================================================================
