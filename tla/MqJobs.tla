------------------------------- MODULE MqJobs -------------------------------
(***************************************************************************)
(* The life of a job between the calls of MqStore: a runner's              *)
(* poll_and_dispatch holds the rows a poll returned, deletes the ones      *)
(* whose commit interval has run out, and hands the others to CurrentJob   *)
(* handles; a handle keeps its message alive, checkpoints it, completes it *)
(* or is dropped.  Every call is answered later than it is made, so what a *)
(* runner or a handle holds may be out of date when it is used, and all of *)
(* it is gone when the runner stops, its query fails or its process dies.  *)
(***************************************************************************)
EXTENDS MqStore

CONSTANTS
    Runner,
    PromptHolders,  \* whether everything held is kept alive or let go in time
    PromptProducers \* whether producers commit before the commit interval ends

ASSUME JobsAssumption == PromptHolders \in BOOLEAN /\ PromptProducers \in BOOLEAN

VARIABLES
    batch,      \* the rows poll_and_dispatch of each runner is working on
    running,    \* CurrentJob handles not yet completed
    effects,    \* history: transactions committed by complete_with_transaction
    deadline    \* until when a producer may commit, 0 when it has nothing to commit

jobs     == <<batch, running, effects, deadline>>
jobsVars == <<msgs, payloads, notices, now, births, hist,
              batch, running, effects, deadline>>

(* A message handed out, and which of its attempts that was.               *)
Delivery == MsgId \X Nat

PolledBatch == [dispatch : SUBSET Delivery, discard : SUBSET MsgId]
NoBatch     == [dispatch |-> {}, discard |-> {}]

(* Messages a runner holds a row or a handle of.                           *)
Held == {d[1] : d \in running} \cup
        UNION {batch[r].discard \cup {d[1] : d \in batch[r].dispatch} : r \in Runner}

JobsInit ==
    /\ Init
    /\ batch = [r \in Runner |-> NoBatch]
    /\ running = {}
    /\ effects = [m \in MsgId |-> 0]
    /\ deadline = [m \in MsgId |-> 0]

-----------------------------------------------------------------------------
(* poll_and_dispatch: one query, a second one if there is something to     *)
(* delete, and a loop without a suspension point.                          *)

(* Mutant: is_committed not looked at.                                     *)
PollBatchAll(r, names, limit, S) ==
    /\ batch[r] = NoBatch
    /\ S # {}
    /\ mq_poll(names, limit, S)
    /\ batch' = [batch EXCEPT ![r] =
                    [dispatch |-> {<<m, hist'[m].polls>> : m \in S}, discard |-> {}]]
    /\ UNCHANGED <<running, effects, deadline>>

PollBatch(r, names, limit, S) ==
    /\ batch[r] = NoBatch
    /\ S # {}
    /\ mq_poll(names, limit, S)
    /\ LET committed == {m \in S : msgs'[m].commit_interval = Null}
       IN  batch' = [batch EXCEPT ![r] =
                        [dispatch |-> {<<m, hist'[m].polls>> : m \in committed},
                         discard  |-> S \ committed]]
    /\ UNCHANGED <<running, effects, deadline>>

DiscardUncommitted(r) ==
    /\ batch[r].discard # {}
    /\ mq_delete(batch[r].discard)
    /\ batch' = [batch EXCEPT ![r].discard = {}]
    /\ UNCHANGED <<running, effects, deadline>>

Dispatch(r) ==
    /\ batch[r].discard = {}
    /\ batch[r].dispatch # {}
    /\ running' = running \cup batch[r].dispatch
    /\ batch' = [batch EXCEPT ![r] = NoBatch]
    /\ UNCHANGED <<vars, effects, deadline>>

(* The answer to a query is an error, or the task is aborted at an await.  *)
LoseBatch(r) ==
    /\ batch[r] # NoBatch
    /\ batch' = [batch EXCEPT ![r] = NoBatch]
    /\ UNCHANGED <<vars, running, effects, deadline>>

-----------------------------------------------------------------------------
(* CurrentJob *)

complete(d) ==
    /\ d \in running
    /\ mq_delete({d[1]})
    /\ running' = running \ {d}
    /\ UNCHANGED <<batch, effects, deadline>>

(* Mutant: the transaction committed without the delete.                   *)
complete_without_delete(d) ==
    /\ d \in running
    /\ running' = running \ {d}
    /\ effects' = [effects EXCEPT ![d[1]] = @ + 1]
    /\ UNCHANGED <<vars, batch, deadline>>

(* The transaction commits whether or not the message was still there.     *)
complete_with_transaction(d) ==
    /\ d \in running
    /\ mq_delete({d[1]})
    /\ running' = running \ {d}
    /\ effects' = [effects EXCEPT ![d[1]] = @ + 1]
    /\ UNCHANGED <<batch, deadline>>

checkpoint(d, c) ==
    /\ d \in running
    /\ MayCheckpoint(d[1], c)
    /\ mq_checkpoint(d[1], c)
    /\ UNCHANGED jobs

(* keep_job_alive, or the handle's own keep_alive.                         *)
keep_alive(d, duration) ==
    /\ d \in running
    /\ mq_keep_alive({d[1]}, duration)
    /\ UNCHANGED jobs

(* The job returns without completing, or its process dies.                *)
DropJob(d) ==
    /\ d \in running
    /\ running' = running \ {d}
    /\ UNCHANGED <<vars, batch, effects, deadline>>

-----------------------------------------------------------------------------
(* Producers.  One that is prompt commits before the deadline it knows of: *)
(* the delay and commit interval it asked for, or how long it last kept    *)
(* the message alive.                                                      *)

spawn ==
    /\ Spawn
    /\ deadline' = [m \in MsgId |->
          IF m \in Live' \ Live /\ msgs'[m].commit_interval # Null
          THEN hist'[m].due + msgs'[m].commit_interval
          ELSE deadline[m]]
    /\ UNCHANGED <<batch, running, effects>>

InTime(m) == PromptProducers => now < deadline[m]

commit(m) ==
    /\ msgs[m].commit_interval # Null
    /\ InTime(m)
    /\ mq_commit({m})
    /\ deadline' = [deadline EXCEPT ![m] = 0]
    /\ UNCHANGED <<batch, running, effects>>

ProducerKeepAlive(m, duration) ==
    /\ msgs[m].commit_interval # Null
    /\ InTime(m)
    /\ mq_keep_alive({m}, duration)
    /\ deadline' = [deadline EXCEPT ![m] = Greatest(@, now + duration)]
    /\ UNCHANGED <<batch, running, effects>>

(* Holders are prompt when no lease of theirs runs out unattended.         *)
JobsTick ==
    /\ PromptHolders => \A m \in Held \cap DOMAIN msgs : ~ Due(msgs[m], now + 1)
    /\ Tick
    /\ UNCHANGED jobs

-----------------------------------------------------------------------------
RunnerStep(r) ==
    \/ \E names \in Subscriptions, limit \in BatchSizes :
          \E S \in SUBSET Ready(msgs, now, names) : PollBatch(r, names, limit, S)
    \/ DiscardUncommitted(r)
    \/ Dispatch(r)
    \/ LoseBatch(r)

JobStep(d) ==
    \/ complete(d)
    \/ complete_with_transaction(d)
    \/ \E c \in Checkpoints : checkpoint(d, c)
    \/ \E duration \in Durations : keep_alive(d, duration)
    \/ DropJob(d)

ProducerStep ==
    \/ spawn
    \/ Clear /\ UNCHANGED jobs
    \/ \E m \in Live : \/ commit(m)
                       \/ \E duration \in Durations : ProducerKeepAlive(m, duration)

JobsNext ==
    \/ \E r \in Runner : RunnerStep(r)
    \/ \E d \in running : JobStep(d)
    \/ ProducerStep
    \/ \E name \in ChannelName : Receive(name) /\ UNCHANGED jobs
    \/ JobsTick

JobsSpec == JobsInit /\ [][JobsNext]_jobsVars

-----------------------------------------------------------------------------
JobsTypeOK ==
    /\ TypeOK
    /\ batch \in [Runner -> PolledBatch]
    /\ running \subseteq Delivery
    /\ effects \in [MsgId -> Nat]
    /\ deadline \in [MsgId -> Int]

(* Whatever runners, handles and producers do, and whenever they stop      *)
(* doing it, the database sees only steps of MqStore: what holds for the   *)
(* stored procedures holds for the library as a whole.                     *)
ImplementsStore == Spec

(* One queue, whatever it is made of: a job is taken by one worker at a    *)
(* time, in the order of its channel and once committed, and completed     *)
(* once.  The jobs taken are those to be dispatched and those running.     *)
QueueJob == [m \in MsgId |-> [birth |-> hist[m].birth, channel |-> hist[m].channel,
                              ordered |-> hist[m].ordered]]

QueueStatus ==
    [m \in MsgId |-> IF hist[m].birth = 0 THEN "none"
                     ELSE IF m \notin DOMAIN msgs THEN "gone"
                     ELSE IF msgs[m].commit_interval # Null THEN "open"
                     ELSE "waiting"]

QueueTaken == {d[1] : d \in running \cup UNION {batch[r].dispatch : r \in Runner}}

Queue == INSTANCE MqQueue WITH job <- QueueJob, status <- QueueStatus, taken <- QueueTaken

ImplementsQueue == Queue!Spec

(* Automatic keep-alive "to prevent them being retried whilst they're      *)
(* still ongoing": no message has two live handles at a time.              *)
OneHandlePerMessage ==
    \A d, e \in running : d[1] = e[1] => d = e

(* "If all side-effects of a job are updates to the database, this         *)
(* provides true exactly-once execution of jobs": a message completes at   *)
(* most one transaction.                                                   *)
ExactlyOnce == \A m \in MsgId : effects[m] <= 1

(* "Jobs within the same channel will be processed strictly in-order":     *)
(* the transactions of ordered jobs commit in the order the jobs were      *)
(* spawned in, although several runners execute them.  Only a job whose    *)
(* message is not there any more, cleared or completed by somebody else,   *)
(* may still commit after a later one.                                     *)
EffectsInOrder ==
    [][\A m, n \in MsgId :
          /\ effects'[m] > effects[m]
          /\ m \in DOMAIN msgs
          /\ hist[m].ordered /\ hist[n].ordered
          /\ hist[m].channel = hist[n].channel
          /\ hist[m].birth < hist[n].birth
          => effects[n] = 0]_jobsVars

(* Two-phase commit is decided once: a message whose commit has taken      *)
(* effect is not one a runner is about to discard as uncommitted.          *)
CommitIsFinal ==
    \A r \in Runner : \A m \in batch[r].discard \cap DOMAIN msgs :
        msgs[m].commit_interval # Null

(* A job never runs before its producer has committed it.                  *)
NoUncommittedJob ==
    \A d \in running : d[1] \in DOMAIN msgs => msgs[d[1]].commit_interval = Null
=============================================================================
