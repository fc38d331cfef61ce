------------------------------- MODULE MqLease ------------------------------
(***************************************************************************)
(* One message against the clock: the lease a poll takes out, how long the *)
(* rows of the poll take to become a job, the schedule on which            *)
(* keep_job_alive renews the lease, and what is left of all that when a    *)
(* job ends, is dropped or cannot be kept alive.  MqJobs assumes that      *)
(* leases are kept (PromptHolders); here is when they are, and that a      *)
(* message does not wait for ever when they are not needed any more.       *)
(*                                                                         *)
(* Times are counted down, so the clock needs no bound.  An interval is    *)
(* written as 2 * h, because keep_job_alive sleeps half of it.             *)
(***************************************************************************)
EXTENDS Integers

CONSTANTS
    Null,
    Attempts,           \* attempts the message has, the initial one included
    HalfBackoff,        \* half the initial retry_backoff
    CommitInterval,     \* of a message spawned with two-phase commit
    Latency,            \* ticks until a query is answered and acted upon
    MaxHalf             \* bound on the doubling of the interval

ASSUME LeaseAssumption ==
    /\ Null \notin Nat
    /\ Attempts \in Nat \ {0}
    /\ HalfBackoff \in Nat
    /\ CommitInterval \in Nat
    /\ Latency \in Nat
    /\ MaxHalf \in Nat

VARIABLES
    lease,      \* attempt_at - NOW(), 0 when it is not positive, or Null
    attempts, backoff,  \* columns of the row; half of retry_backoff
    pending,    \* whether its commit_interval is not NULL yet
    gone,       \* whether its row has been deleted
    polls,      \* how often it has been handed out
    job,        \* what became of each attempt
    stray,      \* keep-alive queries of dropped jobs that may still arrive
    effects     \* history: transactions committed by its jobs

row  == <<lease, attempts, backoff, pending, gone>>
vars == <<lease, attempts, backoff, pending, gone, polls, job, stray, effects>>

(* In a batch: clock counts the ticks since the poll.  In a running job,   *)
(* keep is where keep_job_alive is: asleep, when clock counts the ticks to *)
(* go; waiting for its query to reach the row or for the answer, when it   *)
(* counts the ticks since it was sent; or off.                             *)
Job == [at    : {"none", "batch", "discard", "running", "over"},
        keep  : {"off", "sleep", "query", "reply"},
        clock : Nat,
        half  : Nat]

Init ==
    /\ pending \in BOOLEAN
    /\ lease = IF pending THEN CommitInterval ELSE 0
    /\ attempts = Attempts
    /\ backoff = HalfBackoff
    /\ gone = FALSE
    /\ polls = 0
    /\ job = [k \in 1..Attempts |-> [at |-> "none", keep |-> "off", clock |-> 0, half |-> 0]]
    /\ stray = {}
    /\ effects = 0

(* A query of attempt k is under way.                                      *)
Waiting(k) == job[k].at \in {"batch", "discard"} \/ job[k].keep \in {"query", "reply"}

-----------------------------------------------------------------------------
(* poll_and_dispatch                                                       *)

(* Mutant: one attempt too many.                                           *)
PollOnceMore ==
    /\ ~ gone /\ lease = 0
    /\ polls' = polls + 1
    /\ lease' = IF attempts = 0 THEN Null ELSE 2 * backoff
    /\ attempts' = attempts - 1
    /\ backoff' = 2 * backoff
    /\ job' = [job EXCEPT ![polls + 1] = [at |-> IF pending THEN "discard" ELSE "batch",
                                          keep |-> "off", clock |-> 0, half |-> backoff]]
    /\ UNCHANGED <<pending, gone, stray, effects>>

Poll ==
    /\ ~ gone /\ lease = 0
    /\ polls' = polls + 1
    /\ lease' = IF attempts = 1 THEN Null ELSE 2 * backoff
    /\ attempts' = attempts - 1
    /\ backoff' = 2 * backoff
    /\ job' = [job EXCEPT ![polls + 1] = [at |-> IF pending THEN "discard" ELSE "batch",
                                          keep |-> "off", clock |-> 0, half |-> backoff]]
    /\ UNCHANGED <<pending, gone, stray, effects>>

(* Its query fails, or its runner stops.                                   *)
Lose(k) ==
    /\ job[k].at \in {"batch", "discard"}
    /\ job' = [job EXCEPT ![k].at = "over"]
    /\ UNCHANGED <<row, polls, stray, effects>>

Discard(k) ==
    /\ job[k].at = "discard"
    /\ gone' = TRUE
    /\ job' = [job EXCEPT ![k].at = "over"]
    /\ UNCHANGED <<lease, attempts, backoff, pending, polls, stray, effects>>

Dispatch(k) ==
    /\ job[k].at = "batch"
    /\ job' = [job EXCEPT ![k].at = "running", ![k].keep = "sleep",
                          ![k].clock = job[k].half]
    /\ UNCHANGED <<row, polls, stray, effects>>

-----------------------------------------------------------------------------
(* keep_job_alive *)

Doubled(h) == IF 2 * h <= MaxHalf THEN 2 * h ELSE h

Send(k) ==
    /\ job[k].keep = "sleep" /\ job[k].clock = 0
    /\ job' = [job EXCEPT ![k].keep = "query", ![k].half = Doubled(@)]
    /\ UNCHANGED <<row, polls, stray, effects>>

(* mq_keep_alive on this row.                                              *)
Renewed(duration) ==
    IF lease # Null /\ lease < duration THEN duration ELSE lease

Renew(k) ==
    /\ job[k].keep = "query"
    /\ lease' = Renewed(2 * job[k].half)
    /\ job' = [job EXCEPT ![k].keep = "reply"]
    /\ UNCHANGED <<attempts, backoff, pending, gone, polls, stray, effects>>

(* Mutant: a sleep as long as the lease.                                   *)
AnswerSleepAll(k) ==
    /\ job[k].keep = "reply"
    /\ job' = [job EXCEPT ![k].keep = "sleep", ![k].clock = 2 * job[k].half]
    /\ UNCHANGED <<row, polls, stray, effects>>

Answer(k) ==
    /\ job[k].keep = "reply"
    /\ job' = [job EXCEPT ![k].keep = "sleep", ![k].clock = job[k].half]
    /\ UNCHANGED <<row, polls, stray, effects>>

(* The query fails, before it has reached the row or after: no more        *)
(* keep-alives, and the job is not told.                                   *)
Fail(k) ==
    /\ job[k].keep \in {"query", "reply"}
    /\ job' = [job EXCEPT ![k].keep = "off"]
    /\ UNCHANGED <<row, polls, stray, effects>>

-----------------------------------------------------------------------------
(* The job; its handle goes, and with it the keep-alive task, though not a *)
(* query that is on its way.                                               *)

Over(k) == job' = [job EXCEPT ![k].at = "over", ![k].keep = "off", ![k].clock = 0]

OnItsWay(k) == IF job[k].keep = "query" THEN {job[k].half} ELSE {}

(* Its transaction commits, complete_with_transaction.                     *)
Complete(k) ==
    /\ job[k].at = "running"
    /\ gone' = TRUE
    /\ effects' = effects + 1
    /\ Over(k)
    /\ UNCHANGED <<lease, attempts, backoff, pending, polls, stray>>

(* Mutant: a handle to the task that detaches it, as tokio's does.         *)
DropDetached(k) ==
    /\ job[k].at = "running"
    /\ job' = [job EXCEPT ![k].at = "over"]
    /\ UNCHANGED <<row, polls, stray, effects>>

Drop(k) ==
    /\ job[k].at = "running"
    /\ Over(k)
    /\ stray' = stray \cup OnItsWay(k)
    /\ UNCHANGED <<row, polls, effects>>

Arrive(h) ==
    /\ h \in stray
    /\ stray' = stray \ {h}
    /\ lease' = Renewed(2 * h)
    /\ UNCHANGED <<attempts, backoff, pending, gone, polls, job, effects>>

(* The producer commits the message.                                       *)
Commit ==
    /\ pending /\ ~ gone
    /\ pending' = FALSE
    /\ lease' = IF lease = Null THEN Null
                ELSE IF lease <= CommitInterval THEN 0 ELSE lease - CommitInterval
    /\ UNCHANGED <<attempts, backoff, gone, polls, job, stray, effects>>

-----------------------------------------------------------------------------
(* Nothing takes longer than it may.                                       *)
Tick ==
    /\ \A k \in 1..Attempts : /\ Waiting(k) => job[k].clock < Latency
                              /\ job[k].keep = "sleep" => job[k].clock > 0
    /\ lease' = IF lease = Null \/ lease = 0 THEN lease ELSE lease - 1
    /\ job' = [k \in 1..Attempts |->
                 IF Waiting(k) THEN [job[k] EXCEPT !.clock = @ + 1]
                 ELSE IF job[k].keep = "sleep" THEN [job[k] EXCEPT !.clock = @ - 1]
                 ELSE job[k]]
    /\ UNCHANGED <<attempts, backoff, pending, gone, polls, stray, effects>>

KeepAlive(k) == Send(k) \/ Renew(k) \/ Answer(k)

Next ==
    \/ Poll
    \/ \E k \in 1..Attempts :
          \/ Lose(k) \/ Discard(k) \/ Dispatch(k)
          \/ KeepAlive(k) \/ Fail(k)
          \/ Complete(k) \/ Drop(k)
    \/ \E h \in stray : Arrive(h)
    \/ Commit
    \/ Tick

Spec == Init /\ [][Next]_vars

(* Some runner wants jobs and polls again and again; a batch is dispatched *)
(* or lost, a task goes on, a query arrives or not but not for ever, a job *)
(* ends somehow; time passes.                                              *)
FairSpec ==
    /\ Spec
    /\ WF_vars(Poll)
    /\ WF_vars(Tick)
    /\ WF_vars(\E h \in stray : Arrive(h))
    /\ \A k \in 1..Attempts :
          /\ WF_vars(Dispatch(k) \/ Lose(k) \/ Discard(k))
          /\ WF_vars(KeepAlive(k))
          /\ WF_vars(Complete(k) \/ Drop(k))

-----------------------------------------------------------------------------
LeaseTypeOK ==
    /\ lease \in Nat \cup {Null}
    /\ attempts \in 0..Attempts
    /\ attempts + polls = Attempts
    /\ attempts = 0 <=> lease = Null
    /\ backoff \in Nat
    /\ pending \in BOOLEAN /\ gone \in BOOLEAN
    /\ polls \in 0..Attempts
    /\ job \in [1..Attempts -> Job]
    /\ stray \subseteq Nat
    /\ effects \in Nat

(* Who counts on the lease: a batch, a job that is being kept alive.       *)
Leased(k) == job[k].at = "batch" \/ (job[k].at = "running" /\ job[k].keep # "off")

(* Half a backoff is longer than a poll and a keep-alive may take together.*)
QueriesAreShort == 2 * Latency < HalfBackoff

(* "Long-running jobs will automatically be kept alive": when a backoff is *)
(* longer than four queries may take (QueriesAreShort), a lease never runs *)
(* out while it is needed - neither before its first renewal, which is     *)
(* half a backoff after the dispatch, nor before any later one, and not    *)
(* even when an earlier attempt, which could not be kept alive, still runs.*)
LeaseKept ==
    ~ gone => \A k \in 1..Attempts : Leased(k) => lease # 0

(* "Reliable delivery of jobs": whatever becomes of its attempts, a        *)
(* message does not stay for ever without being handed out, until it has   *)
(* been deleted or has no attempt left: no lease outlives its job for      *)
(* long, even if a keep-alive was under way when the job went.             *)
Settles == <>[](gone \/ lease = Null)

(* "This provides true exactly-once execution of jobs."                    *)
ExactlyOnce == effects <= 1
=============================================================================
