--------------------------- MODULE MqLeaseProofs ----------------------------
(***************************************************************************)
(* Types and leases of MqLease, for every number of attempts, backoff,     *)
(* commit interval and latency.                                            *)
(***************************************************************************)
EXTENDS MqLease, TLAPS

USE LeaseAssumption DEF LeaseAssumption

(* LeaseTypeOK, and what the steps rely on: only running jobs are kept     *)
(* alive, and no backoff is shorter than the first.                        *)
LeaseTypes ==
    /\ LeaseTypeOK
    /\ backoff >= HalfBackoff
    /\ \A k \in 1..Attempts :
          /\ job[k].at # "running" => job[k].keep = "off"
          /\ job[k].at \in {"batch", "discard", "running"} => job[k].half >= HalfBackoff

(* Types and the balance of attempts at first.                             *)
LEMMA TypesInit == Init => LeaseTypes
<1> SUFFICES ASSUME Init PROVE LeaseTypes
  OBVIOUS
<1>1. pending \in BOOLEAN /\ gone \in BOOLEAN
  BY Zenon DEF Init
<1>2. lease \in Nat
  BY DEF Init
<1>3. job \in [1..Attempts -> Job]
  BY DEF Init, Job
<1>4. attempts = Attempts /\ polls = 0 /\ backoff = HalfBackoff /\ stray = {} /\ effects = 0
      /\ \A k \in 1..Attempts : job[k].keep = "off" /\ job[k].at = "none"
  BY DEF Init
<1>5. QED
  BY <1>1, <1>2, <1>3, <1>4 DEF LeaseTypes, LeaseTypeOK

(* A poll moves an attempt from the row to the jobs.                       *)
LEMMA PollTypes == LeaseTypes /\ Poll => LeaseTypes'
<1> SUFFICES ASSUME LeaseTypes, Poll PROVE LeaseTypes'
  OBVIOUS
<1>1. attempts # 0 /\ polls + 1 \in 1..Attempts
  BY DEF Poll, LeaseTypes, LeaseTypeOK
<1>2. job' \in [1..Attempts -> Job]
  BY <1>1 DEF Poll, LeaseTypes, LeaseTypeOK, Job
<1>3. LeaseTypeOK'
  BY <1>1, <1>2 DEF Poll, LeaseTypes, LeaseTypeOK
<1>4. \A k \in 1..Attempts : job'[k] = job[k] \/ (job'[k].keep = "off" /\ job'[k].half = backoff)
  BY <1>1 DEF Poll, LeaseTypes, LeaseTypeOK
<1>5. backoff' >= HalfBackoff
  BY DEF Poll, LeaseTypes, LeaseTypeOK
<1>6. \A k \in 1..Attempts :
          /\ job'[k].at # "running" => job'[k].keep = "off"
          /\ job'[k].at \in {"batch", "discard", "running"} => job'[k].half >= HalfBackoff
  BY <1>4 DEF LeaseTypes
<1>7. QED
  BY <1>3, <1>5, <1>6 DEF LeaseTypes

(* The steps of one job, those that leave the lease alone.                 *)
JobStep(k) == Lose(k) \/ Discard(k) \/ Dispatch(k) \/ Send(k) \/ Answer(k) \/ Fail(k)
              \/ Complete(k) \/ Drop(k)

(* No step of a job spends or gains an attempt.                            *)
LEMMA JobTypes == ASSUME NEW k \in 1..Attempts PROVE LeaseTypes /\ JobStep(k) => LeaseTypes'
<1> SUFFICES ASSUME LeaseTypes, JobStep(k) PROVE LeaseTypes'
  OBVIOUS
<1>1. job[k] \in Job
  BY DEF LeaseTypes, LeaseTypeOK
<1>2. gone' \in BOOLEAN
  BY Zenon DEF LeaseTypes, LeaseTypeOK, JobStep, Lose, Discard, Dispatch, Send, Answer, Fail,
              Complete, Drop, row
<1>3. UNCHANGED <<lease, attempts, backoff, pending, polls>>
      /\ stray' \subseteq Nat /\ effects' \in Nat
  BY <1>1 DEF LeaseTypes, LeaseTypeOK, Job, OnItsWay, JobStep, Lose, Discard, Dispatch, Send,
              Answer, Fail, Complete, Drop, row
<1>4. /\ job'[k] \in Job
      /\ job'[k].at # "running" => job'[k].keep = "off"
      /\ job'[k].at \in {"batch", "discard", "running"} => job'[k].half >= HalfBackoff
      /\ job' = [job EXCEPT ![k] = job'[k]]
  <2> DEFINE Good(r) == /\ r \in Job
                        /\ r.at # "running" => r.keep = "off"
                        /\ r.at \in {"batch", "discard", "running"} => r.half >= HalfBackoff
  <2>1. Good(job[k])
    BY <1>1 DEF LeaseTypes
  <2>2. \A r : Good(r) /\ job' = [job EXCEPT ![k] = r] =>
                  job'[k] = r /\ job' = [job EXCEPT ![k] = job'[k]]
    BY DEF LeaseTypes, LeaseTypeOK
  <2> SUFFICES \E r : Good(r) /\ job' = [job EXCEPT ![k] = r]
    BY <2>2
  <2>3. CASE Lose(k) \/ Discard(k)
    <3>1. job' = [job EXCEPT ![k] = [job[k] EXCEPT !.at = "over"]]
      BY <2>3 DEF Lose, Discard
    <3>2. Good([job[k] EXCEPT !.at = "over"])
      BY <2>3, <2>1, <1>1 DEF Lose, Discard, Job
    <3>3. QED
      BY <3>1, <3>2
  <2>4. CASE Dispatch(k)
    <3> DEFINE r == [job[k] EXCEPT !.at = "running", !.keep = "sleep", !.clock = job[k].half]
    <3>1. job' = [job EXCEPT ![k] = r]
      BY <2>4 DEF Dispatch, LeaseTypes, LeaseTypeOK
    <3>2. Good(r)
      BY <2>4, <2>1, <1>1 DEF Dispatch, Job
    <3>3. QED
      BY <3>1, <3>2
  <2>5. CASE Send(k)
    <3> DEFINE r == [job[k] EXCEPT !.keep = "query", !.half = Doubled(job[k].half)]
    <3>1. job' = [job EXCEPT ![k] = r]
      BY <2>5 DEF Send, LeaseTypes, LeaseTypeOK
    <3>2. Good(r)
      <4>1. Doubled(job[k].half) \in Nat /\ Doubled(job[k].half) >= job[k].half
        BY <1>1 DEF Job, Doubled
      <4>2. job[k].keep = "sleep" /\ job[k].at = "running" /\ job[k].half >= HalfBackoff
        BY <2>5, <2>1 DEF Send
      <4>3. HalfBackoff \in Nat /\ job[k].half \in Nat
        BY <1>1 DEF Job
      <4>4. r.half = Doubled(job[k].half) /\ r.at = "running" /\ r \in Job
        BY <1>1, <4>1, <4>2 DEF Job
      <4>5. r.half >= HalfBackoff
        BY <4>1, <4>2, <4>3, <4>4
      <4>6. QED
        BY <4>4, <4>5
    <3>3. QED
      BY <3>1, <3>2
  <2>6. CASE Answer(k)
    <3> DEFINE r == [job[k] EXCEPT !.keep = "sleep", !.clock = job[k].half]
    <3>1. job' = [job EXCEPT ![k] = r]
      BY <2>6 DEF Answer, LeaseTypes, LeaseTypeOK
    <3>2. Good(r)
      BY <2>6, <2>1, <1>1 DEF Answer, Job
    <3>3. QED
      BY <3>1, <3>2
  <2>7. CASE Fail(k)
    <3> DEFINE r == [job[k] EXCEPT !.keep = "off"]
    <3>1. job' = [job EXCEPT ![k] = r]
      BY <2>7 DEF Fail
    <3>2. Good(r)
      BY <2>7, <2>1, <1>1 DEF Fail, Job
    <3>3. QED
      BY <3>1, <3>2
  <2>8. CASE Complete(k) \/ Drop(k)
    <3> DEFINE r == [job[k] EXCEPT !.at = "over", !.keep = "off", !.clock = 0]
    <3>1. job' = [job EXCEPT ![k] = r]
      BY <2>8 DEF Complete, Drop, Over, LeaseTypes, LeaseTypeOK
    <3>2. Good(r)
      BY <2>1, <1>1 DEF Job
    <3>3. QED
      BY <3>1, <3>2
  <2>9. QED
    BY <2>3, <2>4, <2>5, <2>6, <2>7, <2>8 DEF JobStep
<1>5. job' \in [1..Attempts -> Job] /\ \A i \in 1..Attempts : i = k \/ job'[i] = job[i]
  BY <1>4 DEF LeaseTypes, LeaseTypeOK
<1>6. QED
  BY <1>2, <1>3, <1>4, <1>5 DEF LeaseTypes, LeaseTypeOK

(* No step disturbs types and balance.                                     *)
LEMMA TypesStep == LeaseTypes /\ [Next]_vars => LeaseTypes'
<1> SUFFICES ASSUME LeaseTypes, [Next]_vars PROVE LeaseTypes'
  OBVIOUS
<1>1. CASE Poll
  BY <1>1, PollTypes
<1>2. ASSUME NEW k \in 1..Attempts, JobStep(k) PROVE LeaseTypes'
  BY <1>2, JobTypes
<1>3. ASSUME NEW k \in 1..Attempts, Renew(k) PROVE LeaseTypes'
  <2>1. job[k] \in Job
    BY DEF LeaseTypes, LeaseTypeOK
  <2>2. job[k].at = "running" /\ lease' \in Nat \cup {Null} /\ (lease' = Null <=> lease = Null)
    <3>1. job[k].keep = "query"
      BY <1>3 DEF Renew
    <3>2. job[k].at = "running"
      BY <3>1 DEF LeaseTypes
    <3>3. job[k].half \in Nat /\ lease \in Nat \cup {Null} /\ lease' = Renewed(2 * job[k].half)
      BY <1>3, <2>1 DEF Renew, LeaseTypes, LeaseTypeOK, Job
    <3>4. lease' \in Nat \cup {Null} /\ (lease' = Null <=> lease = Null)
      BY <3>3 DEF Renewed
    <3>5. QED
      BY <3>2, <3>4
  <2>3. job' \in [1..Attempts -> Job]
        /\ \A i \in 1..Attempts : job'[i].at = job[i].at /\ job'[i].half = job[i].half
                                  /\ (i # k => job'[i] = job[i])
    <3>1. job' = [job EXCEPT ![k] = [job[k] EXCEPT !.keep = "reply"]]
      BY <1>3 DEF Renew
    <3>2. [job[k] EXCEPT !.keep = "reply"] \in Job
      BY <2>1 DEF Job
    <3>3. QED
      BY <3>1, <3>2, <2>1 DEF LeaseTypes, LeaseTypeOK, Job
  <2>4. QED
    BY <1>3, <2>2, <2>3 DEF Renew, LeaseTypes, LeaseTypeOK
<1>4. ASSUME NEW h \in stray, Arrive(h) PROVE LeaseTypes'
  BY <1>4 DEF Arrive, Renewed, LeaseTypes, LeaseTypeOK
<1>5. CASE Commit
  <2>1. lease' \in Nat \cup {Null} /\ (lease' = Null <=> lease = Null)
    BY <1>5 DEF Commit, LeaseTypes, LeaseTypeOK
  <2>2. pending' \in BOOLEAN
    BY <1>5, Zenon DEF Commit
  <2>3. QED
    BY <1>5, <2>1, <2>2 DEF Commit, LeaseTypes, LeaseTypeOK
<1>6. CASE Tick
  <2>1. \A k \in 1..Attempts :
           /\ job'[k] \in Job
           /\ job'[k].at = job[k].at /\ job'[k].keep = job[k].keep /\ job'[k].half = job[k].half
    <3> SUFFICES ASSUME NEW k \in 1..Attempts
                 PROVE  /\ job'[k] \in Job
                        /\ job'[k].at = job[k].at /\ job'[k].keep = job[k].keep
                        /\ job'[k].half = job[k].half
      OBVIOUS
    <3>1. job[k] \in Job
      BY DEF LeaseTypes, LeaseTypeOK
    <3>2. CASE Waiting(k)
      <4>1. job'[k] = [job[k] EXCEPT !.clock = @ + 1]
        BY <1>6, <3>2 DEF Tick
      <4>2. QED
        BY <3>1, <4>1 DEF Job
    <3>3. CASE ~ Waiting(k) /\ job[k].keep = "sleep"
      <4>1. job'[k] = [job[k] EXCEPT !.clock = @ - 1] /\ job[k].clock > 0
        BY <1>6, <3>3 DEF Tick
      <4>2. QED
        BY <3>1, <4>1 DEF Job
    <3>4. CASE ~ Waiting(k) /\ job[k].keep # "sleep"
      BY <1>6, <3>1, <3>4 DEF Tick
    <3>5. QED
      BY <3>2, <3>3, <3>4
  <2>2. job' \in [1..Attempts -> Job]
    BY <1>6, <2>1 DEF Tick
  <2>3. lease' \in Nat \cup {Null} /\ (lease' = Null <=> lease = Null)
    BY <1>6 DEF Tick, LeaseTypes, LeaseTypeOK
  <2>4. QED
    BY <1>6, <2>1, <2>2, <2>3 DEF Tick, LeaseTypes, LeaseTypeOK
<1>7. CASE UNCHANGED vars
  BY <1>7 DEF vars, row, LeaseTypes, LeaseTypeOK
<1>8. QED
  BY <1>1, <1>2, <1>3, <1>4, <1>5, <1>6, <1>7 DEF Next, KeepAlive, JobStep

(* The state keeps its types; attempts are used up one by one, and the     *)
(* message is scheduled for as long as any is left.                        *)
THEOREM LeaseTypesCorrect == Spec => []LeaseTypeOK
<1>1. LeaseTypes => LeaseTypeOK
  BY DEF LeaseTypes
<1>2. QED
  BY <1>1, TypesInit, TypesStep, PTL DEF Spec

-----------------------------------------------------------------------------
(* What is left of the lease while a job counts on it.  A batch has two    *)
(* halves of the backoff less the time since the poll; a sleeping          *)
(* keep-alive more than one query's time beyond its waking; then the query *)
(* eats into that, until it renews the lease.  A job polled before it was  *)
(* committed never runs, so that no commit cuts a lease that is needed.    *)
Slack(k) ==
    Leased(k) =>
        /\ ~ pending
        /\ Waiting(k) => job[k].clock <= Latency
        /\ lease # Null =>
              /\ job[k].at = "batch" => lease + job[k].clock >= 2 * job[k].half
              /\ job[k].keep = "sleep" => lease > job[k].clock + Latency
              /\ job[k].keep = "query" => lease + job[k].clock > Latency
              /\ job[k].keep = "reply" => lease + job[k].clock >= 2 * job[k].half

SlackInv == \A k \in 1..Attempts : Slack(k)

(* What the types say of one attempt.                                      *)
LEMMA JobFacts ==
    ASSUME LeaseTypes, NEW k \in 1..Attempts
    PROVE  /\ job[k] \in Job /\ job[k].clock \in Nat /\ job[k].half \in Nat
           /\ lease \in Nat \cup {Null}
           /\ Leased(k) => job[k].half >= HalfBackoff
           /\ job[k].at = "batch" => job[k].keep = "off"
           /\ job[k].keep # "off" => job[k].at = "running"
           /\ Leased(k) /\ job[k].at # "batch" => job[k].keep \in {"sleep", "query", "reply"}
BY DEF LeaseTypes, LeaseTypeOK, Job, Leased

(* Whoever has slack has a lease.                                          *)
LEMMA SlackSuffices ==
    ASSUME QueriesAreShort, LeaseTypes, NEW k \in 1..Attempts, Slack(k), Leased(k)
    PROVE  lease # 0
<1>1. CASE lease = Null
  BY <1>1
<1>2. CASE lease # Null /\ job[k].at = "batch"
  BY <1>2, JobFacts DEF Slack, Waiting, QueriesAreShort
<1>3. CASE lease # Null /\ job[k].at # "batch"
  BY <1>3, JobFacts DEF Slack, Waiting, QueriesAreShort
<1>4. QED
  BY <1>1, <1>2, <1>3

(* Nothing is lost while the job stays where it is and the lease grows.    *)
LEMMA SlackGrows ==
    ASSUME LeaseTypes, LeaseTypes', NEW k \in 1..Attempts, Slack(k),
           job'[k] = job[k], pending' = pending,
           lease' = Null \/ (lease # Null /\ lease' >= lease)
    PROVE  Slack(k)'
<1>1. Leased(k)' = Leased(k) /\ Waiting(k)' = Waiting(k)
  BY DEF Leased, Waiting
<1>2. job[k].clock \in Nat /\ job[k].half \in Nat /\ lease \in Nat \cup {Null}
      /\ lease' \in Nat \cup {Null}
  BY JobFacts DEF LeaseTypes, LeaseTypeOK
<1>3. QED
  BY <1>1, <1>2 DEF Slack

(* A poll starts with the whole backoff, and nobody else counts on the     *)
(* lease then.                                                             *)
LEMMA PollSlack ==
    ASSUME QueriesAreShort, LeaseTypes, LeaseTypes', SlackInv, Poll
    PROVE  SlackInv'
<1> SUFFICES ASSUME NEW k \in 1..Attempts, Leased(k)' PROVE Slack(k)'
  BY DEF SlackInv, Slack
<1>1. polls \in Nat /\ job \in [1..Attempts -> Job] /\ backoff \in Nat /\ lease = 0
      /\ polls + 1 \in 1..Attempts
  BY DEF Poll, LeaseTypes, LeaseTypeOK
<1>2. ~ Leased(k)
  BY <1>1, SlackSuffices DEF SlackInv
<1>3. k = polls + 1
  BY <1>1, <1>2 DEF Poll, Leased
<1>4. job'[k] = [at |-> IF pending THEN "discard" ELSE "batch", keep |-> "off",
                 clock |-> 0, half |-> backoff]
  BY <1>1, <1>3 DEF Poll
<1>5. ~ pending /\ pending' = pending
  BY <1>4 DEF Leased, Poll
<1>6. lease' = Null \/ lease' = 2 * backoff
  BY DEF Poll
<1>7. QED
  BY <1>1, <1>4, <1>5, <1>6 DEF Slack

(* A job passes its slack on from the batch to the sleep, the query and    *)
(* its answer.                                                             *)
LEMMA JobSlack ==
    ASSUME QueriesAreShort, LeaseTypes, LeaseTypes', SlackInv,
           NEW k \in 1..Attempts, JobStep(k)
    PROVE  SlackInv'
<1>1. lease' = lease /\ pending' = pending
  BY DEF JobStep, Lose, Discard, Dispatch, Send, Answer, Fail, Complete, Drop, row
<1>2. \A i \in 1..Attempts : i # k => job'[i] = job[i]
  BY DEF JobStep, Lose, Discard, Dispatch, Send, Answer, Fail, Complete, Drop, Over,
         LeaseTypes, LeaseTypeOK
<1>3. job \in [1..Attempts -> Job]
  BY DEF LeaseTypes, LeaseTypeOK
<1>4. Slack(k)'
  <2> USE JobFacts
  <2>1. Slack(k)
    BY DEF SlackInv
  <2>2. CASE Lose(k) \/ Discard(k) \/ Complete(k) \/ Drop(k)
    <3>1. job'[k].at = "over"
      BY <2>2, <1>3 DEF Lose, Discard, Complete, Drop, Over, Job
    <3>2. QED
      BY <3>1 DEF Slack, Leased
  <2>3. CASE Dispatch(k)
    <3>1. job[k].at = "batch" /\ job'[k].at = "running" /\ job'[k].keep = "sleep"
          /\ job'[k].clock = job[k].half
      BY <2>3, <1>3 DEF Dispatch, Job
    <3>2. Leased(k) /\ Waiting(k) /\ ~ Waiting(k)'
      BY <3>1 DEF Leased, Waiting
    <3>3. job[k].clock <= Latency /\ ~ pending
          /\ (lease # Null => lease + job[k].clock >= 2 * job[k].half)
      BY <3>1, <3>2, <2>1 DEF Slack
    <3>4. job[k].half >= HalfBackoff
      BY <3>2
    <3>5. lease # Null => lease > job[k].half + Latency
      BY <3>3, <3>4 DEF QueriesAreShort
    <3>6. QED
      BY <1>1, <3>1, <3>2, <3>3, <3>5 DEF Slack
  <2>4. CASE Send(k)
    <3>1. job[k].keep = "sleep" /\ job[k].clock = 0 /\ job'[k].at = job[k].at
          /\ job'[k].keep = "query" /\ job'[k].clock = 0
      BY <2>4, <1>3 DEF Send, Job
    <3>2. Leased(k) /\ job[k].at = "running"
      BY <3>1 DEF Leased
    <3>3. QED
      BY <1>1, <2>1, <3>1, <3>2 DEF Slack
  <2>5. CASE Answer(k)
    <3>1. job[k].keep = "reply" /\ job'[k].at = job[k].at /\ job'[k].keep = "sleep"
          /\ job'[k].clock = job[k].half
      BY <2>5, <1>3 DEF Answer, Job
    <3>2. Leased(k) /\ Waiting(k) /\ job[k].at = "running" /\ ~ Waiting(k)'
      BY <3>1 DEF Leased, Waiting
    <3>3. job[k].clock <= Latency /\ ~ pending /\ job[k].half >= HalfBackoff
          /\ (lease # Null => lease + job[k].clock >= 2 * job[k].half)
      BY <3>1, <3>2, <2>1 DEF Slack
    <3>4. lease # Null => lease > job[k].half + Latency
      BY <3>3 DEF QueriesAreShort
    <3>5. QED
      BY <1>1, <3>1, <3>2, <3>3, <3>4 DEF Slack
  <2>6. CASE Fail(k)
    <3>1. job[k].keep \in {"query", "reply"} /\ job'[k].at = job[k].at /\ job'[k].keep = "off"
      BY <2>6, <1>3 DEF Fail, Job
    <3>2. job'[k].at = "running"
      BY <3>1
    <3>3. QED
      BY <3>1, <3>2 DEF Slack, Leased
  <2>7. QED
    BY <2>2, <2>3, <2>4, <2>5, <2>6 DEF JobStep
<1>5. ASSUME NEW i \in 1..Attempts PROVE Slack(i)'
  <2>1. CASE i = k
    BY <1>4, <2>1
  <2>2. CASE i # k
    <3>1. lease \in Nat \cup {Null} /\ Slack(i) /\ job'[i] = job[i]
      BY <2>2, <1>2 DEF SlackInv, LeaseTypes, LeaseTypeOK
    <3>2. lease' = Null \/ (lease # Null /\ lease' >= lease)
      BY <1>1, <3>1
    <3>3. QED
      BY <1>1, <3>1, <3>2, SlackGrows
  <2>3. QED
    BY <2>1, <2>2
<1>6. QED
  BY <1>5 DEF SlackInv

(* A renewal starts a new duration for its own job and shortens nobody's.  *)
LEMMA RenewSlack ==
    ASSUME LeaseTypes, LeaseTypes', SlackInv, NEW k \in 1..Attempts, Renew(k)
    PROVE  SlackInv'
<1>1. job[k].keep = "query" /\ job[k].at = "running" /\ lease \in Nat \cup {Null}
      /\ job[k].half \in Nat /\ job[k].clock \in Nat
  BY JobFacts DEF Renew
<1>2. lease' = Null \/ (lease # Null /\ lease' >= lease /\ lease' >= 2 * job[k].half)
  BY <1>1 DEF Renew, Renewed
<1>3. pending' = pending /\ job' = [job EXCEPT ![k] = [job[k] EXCEPT !.keep = "reply"]]
      /\ job \in [1..Attempts -> Job]
  BY DEF Renew, LeaseTypes, LeaseTypeOK
<1>4. Slack(k)'
  <2>1. job'[k].keep = "reply" /\ job'[k].at = "running" /\ job'[k].clock = job[k].clock
        /\ job'[k].half = job[k].half
    BY <1>1, <1>3 DEF Job
  <2>2. Leased(k) /\ Waiting(k) /\ Slack(k)
    BY <1>1 DEF Leased, Waiting, SlackInv
  <2>3. ~ pending /\ job[k].clock <= Latency
    BY <2>2 DEF Slack
  <2>4. lease' # Null => lease' + job[k].clock >= 2 * job[k].half
    <3>1. lease' \in Nat \cup {Null}
      BY DEF LeaseTypes, LeaseTypeOK
    <3>2. QED
      BY <1>1, <1>2, <3>1
  <2>5. QED
    BY <1>3, <2>1, <2>3, <2>4 DEF Slack
<1>5. ASSUME NEW i \in 1..Attempts, i # k PROVE Slack(i)'
  <2>1. job'[i] = job[i] /\ Slack(i)
    BY <1>3, <1>5 DEF SlackInv
  <2>2. QED
    BY <1>2, <1>3, <2>1, SlackGrows
<1>6. QED
  BY <1>4, <1>5 DEF SlackInv

(* Nor does a query that arrives late.                                     *)
LEMMA ArriveSlack ==
    ASSUME LeaseTypes, LeaseTypes', SlackInv, NEW h \in stray, Arrive(h)
    PROVE  SlackInv'
<1>1. lease \in Nat \cup {Null} /\ h \in Nat
  BY DEF LeaseTypes, LeaseTypeOK
<1>2. lease' = Null \/ (lease # Null /\ lease' >= lease)
  BY <1>1 DEF Arrive, Renewed
<1>3. QED
  BY <1>2, SlackGrows DEF Arrive, SlackInv

(* A tick takes one from lease and slack alike.                            *)
LEMMA TickSlack ==
    ASSUME QueriesAreShort, LeaseTypes, SlackInv, Tick
    PROVE  SlackInv'
<1> SUFFICES ASSUME NEW k \in 1..Attempts, Leased(k)' PROVE Slack(k)'
  BY DEF SlackInv, Slack
<1>1. job'[k] = IF Waiting(k) THEN [job[k] EXCEPT !.clock = @ + 1]
                ELSE IF job[k].keep = "sleep" THEN [job[k] EXCEPT !.clock = @ - 1]
                ELSE job[k]
  BY DEF Tick
<1>2. job'[k].at = job[k].at /\ job'[k].keep = job[k].keep /\ job'[k].half = job[k].half
  BY <1>1, JobFacts DEF Job
<1>3. Leased(k) /\ Slack(k) /\ Waiting(k)' = Waiting(k)
  BY <1>2 DEF Leased, Waiting, SlackInv
<1>4. lease # 0
  BY <1>3, SlackSuffices
<1>5. pending' = pending /\ (lease' # Null => lease # Null /\ lease' = lease - 1)
  BY <1>4 DEF Tick
<1>6. CASE Waiting(k)
  <2>1. job'[k].clock = job[k].clock + 1 /\ job[k].clock < Latency
    BY <1>1, <1>6, JobFacts DEF Tick, Job
  <2>2. job[k].keep # "sleep"
    BY <1>6, JobFacts DEF Waiting
  <2>3. QED
    BY <1>2, <1>3, <1>5, <2>1, <2>2, JobFacts DEF Slack
<1>7. CASE ~ Waiting(k)
  <2>1. job[k].keep = "sleep" /\ job[k].at = "running"
    BY <1>3, <1>7, JobFacts DEF Waiting, Leased
  <2>2. job'[k].clock = job[k].clock - 1
    BY <1>1, <1>7, <2>1, JobFacts DEF Job
  <2>3. QED
    BY <1>2, <1>3, <1>5, <1>7, <2>1, <2>2, JobFacts DEF Slack
<1>8. QED
  BY <1>6, <1>7

(* No step takes slack away that is needed.                                *)
LEMMA SlackStep ==
    ASSUME QueriesAreShort, LeaseTypes, LeaseTypes', SlackInv, [Next]_vars
    PROVE  SlackInv'
<1>1. CASE Poll
  BY <1>1, PollSlack
<1>2. ASSUME NEW k \in 1..Attempts, JobStep(k) PROVE SlackInv'
  BY <1>2, JobSlack
<1>3. ASSUME NEW k \in 1..Attempts, Renew(k) PROVE SlackInv'
  BY <1>3, RenewSlack
<1>4. ASSUME NEW h \in stray, Arrive(h) PROVE SlackInv'
  BY <1>4, ArriveSlack
<1>5. CASE Commit
  <2>1. \A k \in 1..Attempts : ~ Leased(k) /\ Leased(k)' = Leased(k)
    <3> SUFFICES ASSUME NEW k \in 1..Attempts PROVE ~ Leased(k) /\ Leased(k)' = Leased(k)
      OBVIOUS
    <3>1. pending /\ job' = job
      BY <1>5 DEF Commit
    <3>2. Leased(k)' = Leased(k)
      BY <3>1 DEF Leased
    <3>3. Leased(k) => ~ pending
      BY Zenon DEF SlackInv, Slack
    <3>4. QED
      BY <3>1, <3>2, <3>3
  <2>2. QED
    BY <2>1 DEF SlackInv, Slack
<1>6. CASE Tick
  BY <1>6, TickSlack
<1>7. CASE UNCHANGED vars
  BY <1>7 DEF vars, row, SlackInv, Slack, Leased, Waiting
<1>8. QED
  BY <1>1, <1>2, <1>3, <1>4, <1>5, <1>6, <1>7 DEF Next, KeepAlive, JobStep

(* When a backoff is longer than four queries may take, no lease runs out  *)
(* while a batch or a job that is being kept alive counts on it, however   *)
(* many attempts there are and however many of them were left to run when  *)
(* their keep-alive had failed.                                            *)
THEOREM LeasesKept == QueriesAreShort => (Spec => []LeaseKept)
<1> SUFFICES ASSUME QueriesAreShort PROVE Spec => []LeaseKept
  OBVIOUS
<1>1. Init => SlackInv
  BY DEF Init, SlackInv, Slack, Leased
<1>2. LeaseTypes /\ LeaseTypes' /\ SlackInv /\ [Next]_vars => SlackInv'
  BY SlackStep
<1>3. LeaseTypes /\ SlackInv => LeaseKept
  BY SlackSuffices DEF SlackInv, LeaseKept
<1>4. QED
  BY <1>1, <1>2, <1>3, TypesInit, TypesStep, PTL DEF Spec
=============================================================================
