---------------------------- MODULE MqJobsProofs ----------------------------
(* Theorems of MqJobs, for every value of its constants.                   *)
EXTENDS MqJobs, MqStoreProofs

-----------------------------------------------------------------------------
(* The history of a message.                                               *)

(* The history of a message that was inserted only records more polls and  *)
(* grants; a message that was not is not polled; a row never comes back.   *)
LEMMA HistorySteps ==
    ASSUME IInv, [Next]_vars, NEW m \in MsgId
    PROVE  /\ hist[m].birth # 0 =>
                /\ hist'[m].birth = hist[m].birth
                /\ hist'[m].channel = hist[m].channel
                /\ hist'[m].ordered = hist[m].ordered
                /\ hist'[m].polls >= hist[m].polls
                /\ hist'[m].polls > hist[m].polls => m \in Live
                /\ m \in DOMAIN msgs' => m \in DOMAIN msgs
           /\ hist[m].birth = 0 => \/ hist'[m] = hist[m]
                                   \/ /\ hist'[m].polls = 0
                                      /\ hist'[m].birth = births + 1
                                      /\ births' = births + 1
                                   \/ /\ hist'[m].polls = hist[m].polls
                                      /\ hist'[m].birth = 0
           /\ births' >= births
<1> USE DEF IInv, TypeOK
<1>1. /\ hist[m] \in History /\ hist[m].polls \in Nat
      /\ births \in Nat /\ \A i \in Live : hist[i].birth # 0
  BY DEF History, ChainInv
<1>2. CASE Spawn
  <2>1. PICK i \in MsgId, new \in NewJobs, lag \in Lags : mq_insert(i, new, now - lag)
    BY <1>2 DEF Spawn
  <2>2. DOMAIN msgs' = DOMAIN msgs \cup {i}
    BY <2>1 DEF mq_insert, AfterInsert
  <2>3. CASE i = m
    BY <1>1, <2>1, <2>3 DEF mq_insert
  <2>4. CASE i # m
    BY <1>1, <2>1, <2>2, <2>4 DEF mq_insert
  <2>5. QED
    BY <2>3, <2>4
<1>3. CASE Poll
  <2>1. PICK names, limit, S : mq_poll(names, limit, S)
    BY <1>3 DEF Poll
  <2>2. S \subseteq Live
    BY <2>1 DEF mq_poll, IsBatch, Ready, Live
  <2>3. DOMAIN msgs' = DOMAIN msgs
    BY <2>1 DEF mq_poll, AfterPoll
  <2>4. CASE m \in S
    BY <1>1, <2>1, <2>2, <2>3, <2>4 DEF mq_poll, History
  <2>5. CASE m \notin S
    BY <1>1, <2>1, <2>3, <2>5 DEF mq_poll
  <2>6. QED
    BY <2>4, <2>5
<1>4. CASE Checkpoint
  <2>1. PICK i \in Polled, c \in Checkpoints : mq_checkpoint(i, c)
    BY <1>4 DEF Checkpoint
  <2>2. DOMAIN msgs' = DOMAIN msgs
    BY <2>1 DEF mq_checkpoint, AfterCheckpoint
  <2>3. QED
    BY <1>1, <2>1, <2>2 DEF mq_checkpoint, History
<1>5. CASE Commit \/ KeepAlive
  BY <1>1, <1>5 DEF Commit, mq_commit, KeepAlive, mq_keep_alive, history,
                    AfterCommit, AfterKeepAlive
<1>6. CASE Delete \/ Clear
  <2>1. PICK S : msgs' = AfterDelete(msgs, S) /\ UNCHANGED <<births, hist>>
    BY <1>6 DEF Delete, mq_delete, Clear, mq_clear, mq_clear_all, history
  <2>2. QED
    BY <1>1, <2>1 DEF AfterDelete
<1>7. CASE Tick \/ UNCHANGED vars \/ \E name \in ChannelName : Receive(name)
  BY <1>1, <1>7 DEF Tick, Receive, vars, tables, history
<1>8. QED
  BY <1>2, <1>3, <1>4, <1>5, <1>6, <1>7 DEF Next

-----------------------------------------------------------------------------
(* What runners and handles hold was handed out by a poll.                 *)

Handed(r) == {d[1] : d \in batch[r].dispatch} \cup batch[r].discard

HeldInv ==
    /\ batch \in [Runner -> PolledBatch]
    /\ running \subseteq Delivery
    /\ effects \in [MsgId -> Nat]
    /\ deadline \in [MsgId -> Int]
    /\ \A m \in Polled : hist[m].birth # 0
    /\ \A d \in running : d[1] \in Polled
    /\ \A r \in Runner : Handed(r) \subseteq Polled

(* Every step of a runner, a job or a producer is a step of the store.     *)
LEMMA StoreStep == TypeOK /\ HeldInv /\ [JobsNext]_jobsVars => [Next]_vars
<1> SUFFICES ASSUME TypeOK, HeldInv, [JobsNext]_jobsVars PROVE [Next]_vars
  OBVIOUS
<1>1. ASSUME NEW r \in Runner, RunnerStep(r) PROVE [Next]_vars
  <2>1. ASSUME NEW names \in Subscriptions, NEW limit \in BatchSizes,
               NEW S \in SUBSET Ready(msgs, now, names),
               PollBatch(r, names, limit, S)
        PROVE  Poll
    BY <2>1 DEF PollBatch, Poll
  <2>2. ASSUME DiscardUncommitted(r) PROVE Delete
    BY <2>2 DEF DiscardUncommitted, Delete, HeldInv, Handed
  <2>3. ASSUME Dispatch(r) \/ LoseBatch(r) PROVE UNCHANGED vars
    BY <2>3 DEF Dispatch, LoseBatch
  <2>4. QED
    BY <1>1, <2>1, <2>2, <2>3 DEF RunnerStep, Next
<1>2. ASSUME NEW d \in running, JobStep(d) PROVE [Next]_vars
  <2>1. d[1] \in Polled /\ {d[1]} \in SUBSET Polled
    BY DEF HeldInv
  <2>2. ASSUME complete(d) \/ complete_with_transaction(d) PROVE Delete
    BY <2>1, <2>2 DEF complete, complete_with_transaction, Delete
  <2>3. ASSUME NEW c \in Checkpoints, checkpoint(d, c) PROVE Checkpoint
    BY <2>1, <2>3 DEF checkpoint, Checkpoint
  <2>4. ASSUME NEW duration \in Durations, keep_alive(d, duration) PROVE [Next]_vars
    <3>1. CASE d[1] \in DOMAIN msgs
      <4>1. d[1] \in Live
        BY <2>1, <3>1, TablesAssumption DEF Live, Polled
      <4>2. QED
        BY <2>4, <4>1 DEF keep_alive, KeepAlive, Next
    <3>2. CASE d[1] \notin DOMAIN msgs
      <4>1. AfterKeepAlive(msgs, {d[1]}, now + duration) = msgs
        BY <3>2 DEF AfterKeepAlive, TypeOK
      <4>2. UNCHANGED vars
        BY <2>4, <4>1 DEF keep_alive, mq_keep_alive, vars, history
      <4>3. QED
        BY <4>2
    <3>3. QED
      BY <3>1, <3>2
  <2>5. ASSUME DropJob(d) PROVE UNCHANGED vars
    BY <2>5 DEF DropJob
  <2>6. QED
    BY <1>2, <2>2, <2>3, <2>4, <2>5 DEF JobStep, Next
<1>3. ASSUME ProducerStep PROVE [Next]_vars
  BY <1>3 DEF ProducerStep, spawn, commit, Commit, ProducerKeepAlive,
              KeepAlive, Next
<1>4. ASSUME NEW name \in ChannelName, Receive(name) PROVE [Next]_vars
  BY <1>4 DEF Next
<1>5. ASSUME JobsTick PROVE [Next]_vars
  BY <1>5 DEF JobsTick, Next
<1>6. ASSUME UNCHANGED jobsVars PROVE UNCHANGED vars
  BY <1>6 DEF jobsVars, vars
<1>7. QED
  BY <1>1, <1>2, <1>3, <1>4, <1>5, <1>6 DEF JobsNext

(* A poll hands out the messages it claims and nothing else, so what is    *)
(* held stays within what was polled, however it changes hands.            *)
LEMMA HeldStep == IInv /\ TypeOK' /\ HeldInv /\ [JobsNext]_jobsVars => HeldInv'
<1> SUFFICES ASSUME IInv, TypeOK', HeldInv, [JobsNext]_jobsVars PROVE HeldInv'
  OBVIOUS
<1> USE DEF IInv
<1>0. [Next]_vars
  BY StoreStep
<1>1. \A m \in Polled : m \in Polled' /\ hist'[m].birth # 0
  <2>1. ASSUME NEW m \in Polled PROVE m \in Polled' /\ hist'[m].birth # 0
    <3>1. /\ m \in MsgId /\ hist[m].polls > 0 /\ hist[m].birth # 0
          /\ hist[m].polls \in Nat /\ hist'[m].polls \in Nat
      BY DEF Polled, HeldInv, TypeOK, History
    <3>2. QED
      BY <1>0, <3>1, HistorySteps DEF Polled
  <2>2. QED
    BY <2>1
<1>2. \A m \in Polled' : hist'[m].birth # 0
  <2>1. ASSUME NEW m \in Polled' PROVE hist'[m].birth # 0
    <3>1. /\ m \in MsgId /\ hist'[m].polls > 0 /\ hist[m].polls \in Nat
          /\ births \in Nat
      BY DEF Polled, TypeOK, History
    <3>2. hist[m].polls > 0 => hist[m].birth # 0
      BY <3>1 DEF HeldInv, Polled
    <3>3. QED
      BY <1>0, <3>1, <3>2, HistorySteps
  <2>2. QED
    BY <2>1
<1>3. CASE \E r \in Runner : \E names \in Subscriptions, limit \in BatchSizes :
              \E S \in SUBSET Ready(msgs, now, names) : PollBatch(r, names, limit, S)
  <2>1. PICK r \in Runner, names \in Subscriptions, limit \in BatchSizes :
           \E S \in SUBSET Ready(msgs, now, names) : PollBatch(r, names, limit, S)
    BY <1>3
  <2>2. PICK S \in SUBSET Ready(msgs, now, names) : PollBatch(r, names, limit, S)
    BY <2>1
  <2> DEFINE committed == {m \in S : msgs'[m].commit_interval = Null}
             new == [dispatch |-> {<<m, hist'[m].polls>> : m \in committed},
                     discard  |-> S \ committed]
  <2>3. S \subseteq MsgId /\ S \subseteq Polled'
    <3>1. S \subseteq MsgId
      BY DEF Ready, TypeOK
    <3>2. \A m \in S : hist'[m].polls = hist[m].polls + 1 /\ hist[m].polls \in Nat
      BY <2>2, <3>1 DEF PollBatch, mq_poll, TypeOK, History
    <3>3. QED
      BY <3>1, <3>2 DEF Polled
  <2>4. batch' = [batch EXCEPT ![r] = new]
    BY <2>2 DEF PollBatch
  <2>5. \A m \in S : hist'[m].polls \in Nat
    BY <2>3 DEF TypeOK, History
  <2>6. new \in PolledBatch
    BY <2>3, <2>5 DEF PolledBatch, Delivery
  <2>7. \A i \in Runner : batch'[i] = IF i = r THEN new ELSE batch[i]
    BY <2>4 DEF HeldInv
  <2>8. batch' \in [Runner -> PolledBatch]
    BY <2>4, <2>6 DEF HeldInv
  <2>9. ASSUME NEW i \in Runner PROVE Handed(i)' \subseteq Polled'
    <3>1. CASE i = r
      <4>1. \A d \in new.dispatch : d[1] \in S
        OBVIOUS
      <4>2. new.discard \subseteq S
        OBVIOUS
      <4>3. batch'[i] = new
        BY <2>7, <3>1
      <4> HIDE DEF new
      <4>4. QED
        BY <2>3, <4>1, <4>2, <4>3 DEF Handed
    <3>2. CASE i # r
      BY <1>1, <2>7, <3>2 DEF Handed, HeldInv
    <3>3. QED
      BY <3>1, <3>2
  <2>10. UNCHANGED <<running, effects, deadline>>
    BY <2>2 DEF PollBatch
  <2>11. QED
    BY <1>1, <1>2, <2>8, <2>9, <2>10 DEF HeldInv
<1>4. CASE \E r \in Runner : DiscardUncommitted(r) \/ LoseBatch(r) \/ Dispatch(r)
  <2>1. PICK r \in Runner : DiscardUncommitted(r) \/ LoseBatch(r) \/ Dispatch(r)
    BY <1>4
  <2>2. batch' \in [Runner -> PolledBatch]
    BY <2>1 DEF DiscardUncommitted, LoseBatch, Dispatch, HeldInv, PolledBatch, NoBatch
  <2>3. \A i \in Runner : /\ batch'[i].dispatch \subseteq batch[i].dispatch
                          /\ batch'[i].discard \subseteq batch[i].discard
    BY <2>1 DEF DiscardUncommitted, LoseBatch, Dispatch, HeldInv, PolledBatch, NoBatch
  <2>4. running' \subseteq running \cup batch[r].dispatch
    BY <2>1 DEF DiscardUncommitted, LoseBatch, Dispatch
  <2>5. running' \subseteq Delivery /\ \A d \in running' : d[1] \in Polled
    BY <2>4 DEF HeldInv, Handed, PolledBatch
  <2>6. UNCHANGED <<effects, deadline>>
    BY <2>1 DEF DiscardUncommitted, LoseBatch, Dispatch
  <2>7. \A i \in Runner : Handed(i)' \subseteq Handed(i)
    BY <2>3 DEF Handed
  <2>8. QED
    BY <1>1, <1>2, <2>2, <2>5, <2>6, <2>7 DEF HeldInv
<1>5. CASE \E d \in running : JobStep(d)
  <2>1. PICK d \in running : JobStep(d)
    BY <1>5
  <2>2. running' \subseteq running /\ UNCHANGED <<batch, deadline>>
    BY <2>1 DEF JobStep, complete, complete_with_transaction, checkpoint,
                keep_alive, DropJob, jobs
  <2>3. d[1] \in MsgId
    BY DEF HeldInv, Delivery
  <2>4. effects' \in [MsgId -> Nat]
    BY <2>1, <2>3 DEF JobStep, complete, complete_with_transaction, checkpoint,
                      keep_alive, DropJob, jobs, HeldInv
  <2>5. QED
    BY <1>1, <1>2, <2>2, <2>4 DEF HeldInv, Handed
<1>6. CASE ProducerStep
  <2>1. UNCHANGED <<batch, running, effects>>
    BY <1>6 DEF ProducerStep, spawn, commit, ProducerKeepAlive, jobs
  <2>2. deadline' \in [MsgId -> Int]
    <3>1. CASE spawn
      <4>1. \A m \in MsgId \cap DOMAIN msgs' :
               /\ hist'[m].due \in Int
               /\ msgs'[m].commit_interval \in Int \cup {Null}
        BY DEF TypeOK, Row, History
      <4>2. ASSUME NEW m \in MsgId PROVE deadline'[m] \in Int
        BY <3>1, <4>1 DEF spawn, Live, HeldInv
      <4>3. QED
        BY <3>1, <4>2 DEF spawn
    <3>2. CASE \E m \in Live : commit(m)
      <4>1. PICK m \in Live : deadline' = [deadline EXCEPT ![m] = 0]
        BY <3>2 DEF commit
      <4>2. deadline \in [MsgId -> Int] /\ 0 \in Int
        BY DEF HeldInv
      <4>3. QED
        BY <4>1, <4>2
    <3>3. CASE \E m \in Live : \E duration \in Durations : ProducerKeepAlive(m, duration)
      <4>1. PICK m \in Live, duration \in Durations : ProducerKeepAlive(m, duration)
        BY <3>3
      <4>2. now + duration \in Int
        BY StoreAssumption DEF TypeOK
      <4>3. m \in MsgId /\ deadline[m] \in Int
        BY DEF Live, TypeOK, HeldInv
      <4>4. Greatest(deadline[m], now + duration) \in Int
        BY <4>2, <4>3 DEF Greatest
      <4>5. deadline' = [deadline EXCEPT ![m] = Greatest(deadline[m], now + duration)]
        BY <4>1 DEF ProducerKeepAlive
      <4>6. QED
        BY <4>4, <4>5 DEF HeldInv
    <3>4. CASE UNCHANGED jobs
      BY <3>4 DEF jobs, HeldInv
    <3>5. QED
      BY <1>6, <3>1, <3>2, <3>3, <3>4 DEF ProducerStep
  <2>3. QED
    BY <1>1, <1>2, <2>1, <2>2 DEF HeldInv, Handed
<1>7. CASE \/ JobsTick \/ UNCHANGED jobsVars
           \/ \E name \in ChannelName : Receive(name) /\ UNCHANGED jobs
  BY <1>1, <1>2, <1>7 DEF JobsTick, jobs, jobsVars, HeldInv, Handed
<1>8. QED
  BY <1>3, <1>4, <1>5, <1>6, <1>7 DEF JobsNext, RunnerStep

JobsInv == IInv /\ HeldInv

(* Nothing is held at first.                                               *)
LEMMA JobsInvInit == JobsInit => JobsInv
<1> SUFFICES ASSUME JobsInit PROVE JobsInv
  OBVIOUS
<1>1. IInv
  BY InvariantInit DEF JobsInit
<1>2. Polled = {}
  BY DEF JobsInit, Init, Unborn, Polled
<1>3. QED
  BY <1>1, <1>2 DEF JobsInit, JobsInv, HeldInv, NoBatch, PolledBatch, Handed

(* The invariants of the store hold in the library, as its steps do.       *)
LEMMA JobsInvStep == JobsInv /\ [JobsNext]_jobsVars => JobsInv' /\ [Next]_vars
  BY StoreStep, HeldStep, TypeStep, InvariantStep DEF JobsInv, IInv

(* The library implements the store: every theorem about the procedures    *)
(* is a theorem about any number of runners, jobs and producers.           *)
THEOREM StoreImplemented == JobsSpec => ImplementsStore
<1>1. JobsInit => Init
  BY DEF JobsInit
<1>2. QED
  BY <1>1, JobsInvInit, JobsInvStep, PTL DEF JobsSpec, ImplementsStore, Spec

(* Types of the tables, of what is held and of the histories.              *)
THEOREM JobsTypeCorrect == JobsSpec => []JobsTypeOK
<1>1. JobsInv => JobsTypeOK
  BY DEF JobsInv, IInv, HeldInv, JobsTypeOK
<1>2. QED
  BY <1>1, JobsInvInit, JobsInvStep, PTL DEF JobsSpec

-----------------------------------------------------------------------------
(* Two-phase commit.                                                       *)

Deliveries == running \cup UNION {batch[r].dispatch : r \in Runner}

(* Deliveries come from polls, and so do the messages to discard.          *)
LEMMA NewlyHeld ==
    ASSUME HeldInv, [JobsNext]_jobsVars
    PROVE  /\ \A d \in Deliveries' \ Deliveries :
                 \E r \in Runner, names \in Subscriptions, limit \in BatchSizes :
                    \E S \in SUBSET Ready(msgs, now, names) :
                       /\ PollBatch(r, names, limit, S)
                       /\ d[1] \in S /\ d = <<d[1], hist'[d[1]].polls>>
                       /\ msgs'[d[1]].commit_interval = Null
           /\ \A r \in Runner : \A m \in batch'[r].discard \ batch[r].discard :
                 msgs'[m].commit_interval # Null
<1>1. CASE \E r \in Runner : \E names \in Subscriptions, limit \in BatchSizes :
              \E S \in SUBSET Ready(msgs, now, names) : PollBatch(r, names, limit, S)
  <2>1. PICK r \in Runner, names \in Subscriptions, limit \in BatchSizes :
           \E S \in SUBSET Ready(msgs, now, names) : PollBatch(r, names, limit, S)
    BY <1>1
  <2>2. PICK S \in SUBSET Ready(msgs, now, names) : PollBatch(r, names, limit, S)
    BY <2>1
  <2> DEFINE committed == {m \in S : msgs'[m].commit_interval = Null}
             new == {<<m, hist'[m].polls>> : m \in committed}
  <2>3. /\ batch' = [batch EXCEPT ![r] = [dispatch |-> new, discard |-> S \ committed]]
        /\ running' = running
    BY <2>2 DEF PollBatch
  <2>4. \A i \in Runner : batch'[i] = IF i = r
           THEN [dispatch |-> new, discard |-> S \ committed] ELSE batch[i]
    BY <2>3 DEF HeldInv
  <2>5. \A d \in new : /\ d[1] \in S /\ d = <<d[1], hist'[d[1]].polls>>
                       /\ msgs'[d[1]].commit_interval = Null
    OBVIOUS
  <2>6. \A m \in S \ committed : msgs'[m].commit_interval # Null
    OBVIOUS
  <2> HIDE DEF new, committed
  <2>7. ASSUME NEW d \in Deliveries' \ Deliveries PROVE d \in new
    BY <2>3, <2>4 DEF Deliveries
  <2>8. ASSUME NEW i \in Runner, NEW m \in batch'[i].discard \ batch[i].discard
        PROVE  msgs'[m].commit_interval # Null
    BY <2>4, <2>6
  <2>9. QED
    BY <2>2, <2>5, <2>7, <2>8
<1>2. CASE \E r \in Runner : DiscardUncommitted(r) \/ LoseBatch(r) \/ Dispatch(r)
  <2>1. PICK r \in Runner : DiscardUncommitted(r) \/ LoseBatch(r) \/ Dispatch(r)
    BY <1>2
  <2>2. \A i \in Runner : /\ batch'[i].dispatch \subseteq batch[i].dispatch
                          /\ batch'[i].discard \subseteq batch[i].discard
    BY <2>1 DEF DiscardUncommitted, LoseBatch, Dispatch, HeldInv, PolledBatch, NoBatch
  <2>3. running' \subseteq running \cup batch[r].dispatch
    BY <2>1 DEF DiscardUncommitted, LoseBatch, Dispatch
  <2>4. QED
    BY <2>2, <2>3 DEF Deliveries
<1>3. CASE \E d \in running : JobStep(d)
  <2>1. running' \subseteq running /\ batch' = batch
    BY <1>3 DEF JobStep, complete, complete_with_transaction, checkpoint,
                keep_alive, DropJob, jobs
  <2>2. QED
    BY <2>1 DEF Deliveries
<1>4. CASE \/ ProducerStep \/ JobsTick \/ UNCHANGED jobsVars
           \/ \E name \in ChannelName : Receive(name) /\ UNCHANGED jobs
  <2>1. running' = running /\ batch' = batch
    BY <1>4 DEF ProducerStep, spawn, commit, ProducerKeepAlive, JobsTick, jobs, jobsVars
  <2>2. QED
    BY <2>1 DEF Deliveries
<1>5. QED
  BY <1>1, <1>2, <1>3, <1>4 DEF JobsNext, RunnerStep

(* A message that is committed when it is handed out stays so.             *)
CommittedInv ==
    \A d \in Deliveries : d[1] \in DOMAIN msgs => msgs[d[1]].commit_interval = Null

(* Only a new delivery needs a look at its commit interval.                *)
LEMMA CommittedStep ==
    JobsInv /\ JobsInv' /\ CommittedInv /\ [JobsNext]_jobsVars => CommittedInv'
<1> SUFFICES ASSUME JobsInv, JobsInv', CommittedInv, [JobsNext]_jobsVars,
                    NEW d \in Deliveries', d[1] \in DOMAIN msgs'
             PROVE  msgs'[d[1]].commit_interval = Null
  BY DEF CommittedInv
<1>1. [Next]_vars
  BY JobsInvStep
<1>2. CASE d \in Deliveries
  <2>1. /\ d[1] \in MsgId /\ hist[d[1]].birth # 0
    BY <1>2 DEF JobsInv, HeldInv, Deliveries, Handed, Polled
  <2>2. d[1] \in Live
    BY <1>1, <2>1, HistorySteps, TablesAssumption DEF JobsInv, Live
  <2>3. msgs[d[1]] \in Row /\ msgs[d[1]].commit_interval = Null
    BY <1>2, <2>2 DEF CommittedInv, Live, JobsInv, IInv, TypeOK
  <2>4. QED
    <3>1. /\ Claimed(msgs[d[1]], now).commit_interval = Null
          /\ \A u : KeptAlive(msgs[d[1]], u).commit_interval = Null
      BY <2>3 DEF Claimed, KeptAlive, Row
    <3>2. TypeOK
      BY DEF JobsInv, IInv
    <3>3. QED
      BY <1>1, <2>1, <2>2, <2>3, <3>1, <3>2, RowSteps
<1>3. CASE d \notin Deliveries
  BY <1>3, NewlyHeld DEF JobsInv
<1>4. QED
  BY <1>2, <1>3

(* Nothing is delivered at first.                                          *)
LEMMA CommittedInit == JobsInit => CommittedInv
  BY DEF JobsInit, CommittedInv, Deliveries, NoBatch

(* No job starts, or goes on, before its producer has committed it.        *)
THEOREM CommittedJobsOnly == JobsSpec => []NoUncommittedJob
<1>1. CommittedInv => NoUncommittedJob
  BY DEF CommittedInv, NoUncommittedJob, Deliveries
<1>2. QED
  BY <1>1, CommittedInit, CommittedStep, JobsInvInit, JobsInvStep, PTL DEF JobsSpec

(* Only the commit of a message takes its commit interval away.            *)
LEMMA OnlyCommitCommits ==
    ASSUME JobsInv, [JobsNext]_jobsVars, NEW m \in Live, m \in DOMAIN msgs',
           msgs[m].commit_interval # Null, ~ commit(m)
    PROVE  msgs'[m].commit_interval # Null
<1> USE DEF JobsInv, IInv
<1>1. /\ msgs[m] \in Row /\ m \in MsgId /\ m \in DOMAIN msgs /\ hist[m].birth # 0
      /\ msgs[m].commit_interval \in Int \cup {Null}
  BY DEF TypeOK, Live, Row, ChainInv
<1>2. CASE \E S : msgs' = AfterDelete(msgs, S)
  BY <1>1, <1>2 DEF AfterDelete, Row
<1>3. CASE \E r \in Runner : RunnerStep(r)
  <2>1. PICK r \in Runner : RunnerStep(r)
    BY <1>3
  <2>2. ASSUME NEW S, msgs' = AfterPoll(msgs, S, now)
        PROVE  msgs'[m].commit_interval # Null
    BY <1>1, <2>2 DEF AfterPoll, Claimed, Row
  <2>3. ASSUME msgs' = msgs PROVE msgs'[m].commit_interval # Null
    BY <2>3
  <2>4. QED
    BY <1>2, <2>1, <2>2, <2>3
       DEF RunnerStep, PollBatch, mq_poll, DiscardUncommitted, mq_delete,
           Dispatch, LoseBatch, vars
<1>4. ASSUME NEW S, NEW duration \in Durations, mq_keep_alive(S, duration)
      PROVE  msgs'[m].commit_interval # Null
  <2> DEFINE u == now + duration
  <2>1. u \in Int
    BY StoreAssumption DEF TypeOK
  <2>2. msgs' = AfterKeepAlive(msgs, S, u)
    BY <1>4 DEF mq_keep_alive
  <2> HIDE DEF u
  <2>3. msgs[m].attempt_at # Null => KeptAlive(msgs[m], u).commit_interval # Null
    BY <1>1, <2>1, TablesAssumption DEF KeptAlive, Row
  <2>4. QED
    BY <1>1, <2>2, <2>3 DEF AfterKeepAlive
<1>5. CASE \E d \in running : JobStep(d)
  <2>1. PICK d \in running : JobStep(d)
    BY <1>5
  <2>2. ASSUME NEW c \in Checkpoints, checkpoint(d, c)
        PROVE  msgs'[m].commit_interval # Null
    BY <1>1, <2>2 DEF checkpoint, mq_checkpoint, AfterCheckpoint, Row
  <2>3. ASSUME DropJob(d) PROVE msgs' = msgs
    BY <2>3 DEF DropJob, vars
  <2>4. QED
    BY <1>2, <1>4, <2>1, <2>2, <2>3
       DEF JobStep, complete, complete_with_transaction, mq_delete, keep_alive
<1>6. CASE ProducerStep
  <2>1. ASSUME spawn PROVE msgs'[m] = msgs[m]
    <3>1. PICK i \in MsgId, new \in NewJobs, lag \in Lags : mq_insert(i, new, now - lag)
      BY <2>1 DEF spawn, Spawn
    <3>2. i # m
      BY <1>1, <3>1 DEF mq_insert
    <3>3. QED
      BY <1>1, <3>1, <3>2 DEF mq_insert, AfterInsert
  <2>2. ASSUME NEW i \in Live, commit(i) PROVE msgs'[m] = msgs[m]
    <3>1. i # m
      BY <2>2
    <3>2. QED
      BY <1>1, <2>2, <3>1 DEF commit, mq_commit, AfterCommit
  <2>3. QED
    BY <1>2, <1>4, <1>6, <2>1, <2>2
       DEF ProducerStep, Clear, mq_clear, mq_clear_all, ProducerKeepAlive
<1>7. CASE \/ JobsTick \/ UNCHANGED jobsVars
           \/ \E name \in ChannelName : Receive(name) /\ UNCHANGED jobs
  BY <1>7 DEF JobsTick, Tick, Receive, tables, jobsVars
<1>8. QED
  BY <1>3, <1>5, <1>6, <1>7 DEF JobsNext

(* What a producer knows of its uncommitted message: its deadline is not   *)
(* past the time the message first comes up, so when the message has come  *)
(* up the deadline has passed.                                             *)
Promised(m) ==
    msgs[m].commit_interval # Null =>
        IF hist[m].polls = 0
        THEN msgs[m].attempt_at # Null /\ deadline[m] <= msgs[m].attempt_at
        ELSE deadline[m] <= now

ProducerInv == \A m \in Live : Promised(m)

(* The steps that move a producer's deadline.                              *)
LEMMA DeadlineSteps ==
    ASSUME JobsInv, [JobsNext]_jobsVars, NEW m \in Live
    PROVE  \/ deadline'[m] = deadline[m]
           \/ commit(m)
           \/ \E duration \in Durations : ProducerKeepAlive(m, duration)
<1>0. m \in MsgId /\ deadline \in [MsgId -> Int]
  BY DEF JobsInv, IInv, HeldInv, TypeOK, Live
<1>1. ASSUME spawn PROVE deadline'[m] = deadline[m]
  BY <1>0, <1>1 DEF spawn
<1>2. ASSUME NEW i \in Live, commit(i), i # m PROVE deadline'[m] = deadline[m]
  BY <1>0, <1>2 DEF commit
<1>3. ASSUME NEW i \in Live, NEW duration \in Durations,
             ProducerKeepAlive(i, duration), i # m
      PROVE  deadline'[m] = deadline[m]
  BY <1>0, <1>3 DEF ProducerKeepAlive
<1>4. ASSUME UNCHANGED deadline PROVE deadline'[m] = deadline[m]
  BY <1>4
<1>5. CASE ProducerStep
  BY <1>1, <1>2, <1>3, <1>4, <1>5 DEF ProducerStep, jobs
<1>6. CASE ~ ProducerStep
  BY <1>4, <1>6
     DEF JobsNext, RunnerStep, PollBatch, DiscardUncommitted, Dispatch, LoseBatch,
         JobStep, complete, complete_with_transaction, checkpoint, keep_alive,
         DropJob, JobsTick, jobs, jobsVars
<1>7. QED
  BY <1>5, <1>6

(* A keep-alive moves the deadline and the row by as much; the rest moves  *)
(* the row alone, and later.                                               *)
LEMMA PromisedKept ==
    ASSUME PromptProducers, JobsInv, JobsInv', [JobsNext]_jobsVars,
           NEW m \in Live, m \in Live', Promised(m)
    PROVE  Promised(m)'
<1> DEFINE r == msgs[m]
           q == msgs'[m]
<1>1. /\ r \in Row /\ m \in MsgId /\ m \in DOMAIN msgs'
      /\ r.attempt_at \in Int \cup {Null} /\ q.attempt_at \in Int \cup {Null}
      /\ r.commit_interval \in Int \cup {Null} /\ r.retry_backoff \in Nat
      /\ deadline[m] \in Int /\ deadline'[m] \in Int
      /\ now \in Int /\ now' \in Int
      /\ hist[m] \in History /\ hist[m].polls \in Nat /\ hist[m].birth # 0
  BY DEF JobsInv, IInv, HeldInv, TypeOK, Live, Row, History, ChainInv
<1>2. Null \notin Int /\ TypeOK /\ [Next]_vars
  BY TablesAssumption, JobsInvStep DEF JobsInv, IInv
<1>3. CASE commit(m)
  <2>1. q = Committed(r)
    BY <1>1, <1>3 DEF commit, mq_commit, AfterCommit, Live
  <2>2. q.commit_interval = Null
    BY <1>1, <2>1 DEF Committed, Row
  <2>3. QED
    BY <2>2 DEF Promised
<1>4. CASE \E duration \in Durations : ProducerKeepAlive(m, duration)
  <2>1. PICK duration \in Durations : ProducerKeepAlive(m, duration)
    BY <1>4
  <2> DEFINE u == now + duration
  <2>2. /\ r.commit_interval # Null /\ now < deadline[m]
        /\ deadline'[m] = Greatest(deadline[m], u)
        /\ msgs' = AfterKeepAlive(msgs, {m}, u) /\ hist' = hist
    BY <1>1, <2>1 DEF ProducerKeepAlive, InTime, mq_keep_alive, history,
                      JobsInv, HeldInv
  <2>3. u \in Int
    BY <1>1, StoreAssumption
  <2> HIDE DEF u
  <2>4. /\ hist[m].polls = 0
        /\ r.attempt_at # Null /\ deadline[m] <= r.attempt_at
    BY <1>1, <2>2 DEF Promised
  <2>5. q.attempt_at = IF r.attempt_at < u THEN u ELSE r.attempt_at
    BY <1>1, <2>2, <2>4 DEF AfterKeepAlive, KeptAlive, Row, Live
  <2>6. deadline'[m] <= q.attempt_at /\ q.attempt_at # Null
    BY <1>1, <1>2, <2>2, <2>3, <2>4, <2>5 DEF Greatest
  <2>7. QED
    BY <2>2, <2>4, <2>6 DEF Promised
<1>5. CASE deadline'[m] = deadline[m]
  <2>1. CASE /\ q.attempt_at = r.attempt_at
             /\ q.commit_interval = r.commit_interval
             /\ hist'[m] = hist[m] /\ now' >= now
    BY <1>1, <1>5, <2>1 DEF Promised
  <2>2. CASE /\ Due(r, now) /\ q = Claimed(r, now)
             /\ hist'[m] = [hist[m] EXCEPT !.polls = @ + 1] /\ now' = now
    <3>1. q.commit_interval = r.commit_interval /\ hist'[m].polls = hist[m].polls + 1
      BY <1>1, <2>2 DEF Claimed, Row, History
    <3>2. r.attempt_at # Null /\ r.attempt_at <= now
      BY <2>2 DEF Due
    <3>3. QED
      BY <1>1, <1>5, <2>2, <3>1, <3>2 DEF Promised
  <2>3. CASE r.commit_interval # Null /\ q = Committed(r)
    BY <1>1, <2>3 DEF Committed, Row, Promised
  <2>4. CASE /\ r.attempt_at # Null
             /\ \E d \in Nat : r.attempt_at < now + d /\ q = KeptAlive(r, now + d)
             /\ hist'[m] = hist[m] /\ now' = now
    <3>1. PICK d \in Nat : r.attempt_at < now + d /\ q = KeptAlive(r, now + d)
      BY <2>4
    <3> DEFINE u == now + d
    <3>2. u \in Int /\ r.attempt_at < u /\ q = KeptAlive(r, u)
      BY <1>1, <3>1
    <3> HIDE DEF u
    <3>3. q.attempt_at = u /\ q.commit_interval # Null => r.commit_interval # Null
      BY <1>1, <3>2 DEF KeptAlive, Row
    <3>4. q.attempt_at = u
      BY <1>1, <3>2 DEF KeptAlive, Row
    <3>5. QED
      BY <1>1, <1>2, <1>5, <2>4, <3>2, <3>3, <3>4 DEF Promised
  <2>5. CASE /\ q.commit_interval = r.commit_interval
             /\ hist'[m].polls = hist[m].polls
             /\ hist[m].polls > 0 /\ now' = now
    BY <1>1, <1>5, <2>5 DEF Promised
  <2>6. \A e \in Nat : [hist[m] EXCEPT !.granted = @ + e].polls = hist[m].polls
    BY <1>1 DEF History
  <2>7. CASE /\ \E e \in Nat : hist'[m] = [hist[m] EXCEPT !.granted = @ + e]
             /\ q.commit_interval = r.commit_interval
             /\ hist[m].polls > 0 /\ now' = now
    BY <2>5, <2>6, <2>7
  <2>8. QED
    BY <1>1, <1>2, <2>1, <2>2, <2>3, <2>4, <2>7, RowSteps
<1>6. QED
  BY <1>3, <1>4, <1>5, DeadlineSteps

(* A spawn starts with the two in step.                                    *)
LEMMA ProducerStepKeeps ==
    PromptProducers =>
      (JobsInv /\ JobsInv' /\ ProducerInv /\ [JobsNext]_jobsVars => ProducerInv')
<1> SUFFICES ASSUME PromptProducers, JobsInv, JobsInv', ProducerInv,
                    [JobsNext]_jobsVars, NEW m \in Live'
             PROVE  Promised(m)'
  BY DEF ProducerInv
<1>1. CASE m \in Live
  BY <1>1, PromisedKept DEF ProducerInv
<1>2. CASE m \notin Live
  <2>1. TypeOK /\ [Next]_vars
    BY JobsInvStep DEF JobsInv, IInv
  <2>2. PICK new, lag, latest :
           /\ new \in NewJobs /\ lag \in Lags
           /\ mq_insert(m, new, now - lag)
           /\ msgs'[m] = NewRow(new, now - lag, latest)
    BY <1>2, <2>1, NewIsInserted
  <2>3. /\ m \in MsgId /\ new.delay \in Nat /\ now - lag \in Int /\ births \in Nat
        /\ new.commit_interval \in Nat \cup {Null}
    BY <2>1, <2>2, StoreAssumption DEF JobsInv, IInv, TypeOK, Live, NewJob
  <2>4. /\ msgs'[m].attempt_at = now - lag + new.delay + Coalesce(new.commit_interval, 0)
        /\ msgs'[m].commit_interval = new.commit_interval
    BY <2>2 DEF NewRow
  <2>5. hist'[m].polls = 0 /\ hist'[m].due = now - lag + new.delay
    BY <2>1, <2>2, <2>3 DEF mq_insert, TypeOK
  <2>6. spawn
    <3>1. births' # births
      BY <2>2, <2>3 DEF mq_insert
    <3>2. QED
      BY <3>1
         DEF JobsNext, RunnerStep, PollBatch, mq_poll, DiscardUncommitted,
             mq_delete, Dispatch, LoseBatch, JobStep, complete,
             complete_with_transaction, checkpoint, mq_checkpoint, keep_alive,
             mq_keep_alive, DropJob, ProducerStep, Clear, mq_clear, mq_clear_all,
             commit, mq_commit, ProducerKeepAlive, JobsTick, Tick, Receive,
             jobsVars, vars, history
  <2>7. ASSUME msgs'[m].commit_interval # Null
        PROVE  deadline'[m] = hist'[m].due + msgs'[m].commit_interval
    BY <1>2, <2>3, <2>6, <2>7 DEF spawn
  <2>8. QED
    BY <2>3, <2>4, <2>5, <2>7, TablesAssumption DEF Promised, Coalesce
<1>3. QED
  BY <1>1, <1>2

(* A commit made in time is final: no runner that polled the message while *)
(* it was uncommitted can still be about to delete it.                     *)
THEOREM CommitsAreFinal == PromptProducers => (JobsSpec => []CommitIsFinal)
<1> SUFFICES ASSUME PromptProducers PROVE JobsSpec => []CommitIsFinal
  OBVIOUS
<1>1. JobsInit => ProducerInv /\ CommitIsFinal
  <2>1. JobsInit => Live = {}
    BY DEF JobsInit, Init, Live
  <2>2. QED
    BY <2>1 DEF JobsInit, ProducerInv, CommitIsFinal, NoBatch
<1>2. ASSUME JobsInv, JobsInv', ProducerInv, CommitIsFinal, [JobsNext]_jobsVars,
             NEW r \in Runner, NEW m \in batch'[r].discard, m \in DOMAIN msgs'
      PROVE  msgs'[m].commit_interval # Null
  <2>1. CASE m \in batch[r].discard
    <3>1. m \in Polled /\ m \in MsgId /\ hist[m].birth # 0
      BY <1>2, <2>1 DEF JobsInv, HeldInv, Handed, Polled
    <3>2. m \in Live
      <4>1. IInv /\ [Next]_vars
        BY <1>2, JobsInvStep DEF JobsInv
      <4>2. QED
        BY <1>2, <3>1, <4>1, HistorySteps, TablesAssumption DEF Live
    <3>3. msgs[m].commit_interval # Null
      BY <1>2, <2>1, <3>2 DEF CommitIsFinal, Live
    <3>4. deadline[m] <= now /\ deadline[m] \in Int /\ now \in Int
      BY <1>2, <3>1, <3>2, <3>3
         DEF ProducerInv, Promised, Polled, JobsInv, HeldInv, IInv, TypeOK
    <3>5. ~ commit(m)
      BY <3>4 DEF commit, InTime
    <3>6. QED
      BY <1>2, <3>2, <3>3, <3>5, OnlyCommitCommits
  <2>2. CASE m \notin batch[r].discard
    BY <1>2, <2>2, NewlyHeld DEF JobsInv
  <2>3. QED
    BY <2>1, <2>2
<1>3. JobsInv /\ JobsInv' /\ ProducerInv /\ CommitIsFinal /\ [JobsNext]_jobsVars
        => CommitIsFinal'
  BY <1>2 DEF CommitIsFinal
<1>4. QED
  BY <1>1, <1>3, ProducerStepKeeps, JobsInvInit, JobsInvStep, PTL DEF JobsSpec

-----------------------------------------------------------------------------
(* Leases: when everything held is kept alive in time.                     *)

(* Without a backoff a claim is no lease, and a checkpoint that asks for   *)
(* no time schedules a job on its last attempt at once.                    *)
LeasesKept ==
    /\ PromptHolders
    /\ \A new \in NewJobs : new.retry_backoff > 0
    /\ \A c \in Checkpoints : c.duration > 0

(* No call moves a message to another channel, or shortens its backoff.    *)
LEMMA ColumnsKept ==
    ASSUME IInv, [Next]_vars, NEW m \in Live, m \in DOMAIN msgs'
    PROVE  /\ msgs'[m].channel = msgs[m].channel
           /\ msgs'[m].retry_backoff \in {msgs[m].retry_backoff, msgs[m].retry_backoff * 2}
<1> USE DEF IInv
<1>1. msgs[m] \in Row /\ m \in DOMAIN msgs /\ m \in MsgId /\ hist[m].birth # 0
  BY DEF TypeOK, Live, ChainInv
<1>2. CASE Spawn
  <2>1. PICK i \in MsgId, new \in NewJobs, lag \in Lags : mq_insert(i, new, now - lag)
    BY <1>2 DEF Spawn
  <2>2. i # m
    BY <1>1, <2>1 DEF mq_insert
  <2>3. QED
    BY <1>1, <2>1, <2>2 DEF mq_insert, AfterInsert
<1>3. CASE Poll
  BY <1>1, <1>3 DEF Poll, mq_poll, AfterPoll, Claimed, Row
<1>4. CASE Commit
  BY <1>1, <1>4 DEF Commit, mq_commit, AfterCommit, Committed, Row
<1>5. CASE KeepAlive
  <2>1. PICK S, u : msgs' = AfterKeepAlive(msgs, S, u)
    BY <1>5 DEF KeepAlive, mq_keep_alive
  <2>2. /\ KeptAlive(msgs[m], u).channel = msgs[m].channel
        /\ KeptAlive(msgs[m], u).retry_backoff = msgs[m].retry_backoff
    BY <1>1 DEF KeptAlive, Row
  <2>3. QED
    BY <1>1, <2>1, <2>2 DEF AfterKeepAlive
<1>6. CASE Checkpoint
  <2>1. PICK i, u, e : msgs' = AfterCheckpoint(msgs, i, u, e)
    BY <1>6 DEF Checkpoint, mq_checkpoint
  <2>2. \A x, y : /\ [msgs[m] EXCEPT !.attempt_at = x, !.attempts = y].channel
                       = msgs[m].channel
                  /\ [msgs[m] EXCEPT !.attempt_at = x, !.attempts = y].retry_backoff
                       = msgs[m].retry_backoff
    BY <1>1 DEF Row
  <2>3. QED
    BY <1>1, <2>1, <2>2 DEF AfterCheckpoint
<1>7. CASE Delete \/ Clear
  <2>1. PICK S : msgs' = AfterDelete(msgs, S)
    BY <1>7 DEF Delete, mq_delete, Clear, mq_clear, mq_clear_all
  <2>2. QED
    BY <1>1, <2>1 DEF AfterDelete, Row
<1>8. CASE Tick \/ UNCHANGED vars \/ \E name \in ChannelName : Receive(name)
  BY <1>8 DEF Tick, Receive, vars, tables
<1>9. QED
  BY <1>2, <1>3, <1>4, <1>5, <1>6, <1>7, <1>8 DEF Next

(* Every row has a backoff, and no message somebody works on is due.       *)
LeaseInv ==
    /\ \A m \in Live : msgs[m].retry_backoff > 0
    /\ \A d \in Deliveries : d[1] \in DOMAIN msgs => ~ Due(msgs[d[1]], now)

(* The row of a delivery goes on being one nobody else can claim.          *)
LEMMA LeaseKept ==
    ASSUME LeasesKept, JobsInv, JobsInv', CommittedInv, LeaseInv, [JobsNext]_jobsVars,
           NEW d \in Deliveries, d[1] \in DOMAIN msgs'
    PROVE  ~ Due(msgs'[d[1]], now')
<1> DEFINE m == d[1]
<1>1. /\ m \in MsgId /\ m \in Live /\ hist[m].birth # 0 /\ TypeOK /\ [Next]_vars
  <2>1. /\ m \in MsgId /\ hist[m].birth # 0
    BY DEF JobsInv, HeldInv, Deliveries, Handed, Polled
  <2>2. IInv /\ [Next]_vars
    BY JobsInvStep DEF JobsInv
  <2>3. QED
    BY <2>1, <2>2, HistorySteps, TablesAssumption DEF Live, IInv
<1> DEFINE r == msgs[m]
           q == msgs'[m]
<1>2. /\ r \in Row /\ r.attempt_at \in Int \cup {Null} /\ Null \notin Int
      /\ r.retry_backoff \in Nat /\ r.retry_backoff > 0
      /\ now \in Int /\ now' \in Int
  BY <1>1, TablesAssumption
     DEF JobsInv, IInv, TypeOK, Row, Live, LeaseInv
<1>3. r.commit_interval = Null /\ (r.attempt_at = Null \/ r.attempt_at > now)
  BY <1>1, <1>2 DEF CommittedInv, LeaseInv, Due, Live
<1>4. CASE q.attempt_at = r.attempt_at /\ now' = now
  BY <1>2, <1>3, <1>4 DEF Due
<1>5. CASE q.attempt_at = r.attempt_at /\ now' # now
  <2>1. JobsTick
    BY <1>5 DEF JobsNext, RunnerStep, PollBatch, mq_poll, DiscardUncommitted,
                mq_delete, Dispatch, LoseBatch, JobStep, complete,
                complete_with_transaction, checkpoint, mq_checkpoint, keep_alive,
                mq_keep_alive, DropJob, ProducerStep, spawn, Spawn, mq_insert,
                Clear, mq_clear, mq_clear_all, commit, mq_commit,
                ProducerKeepAlive, Receive, jobsVars, vars
  <2>2. m \in Held
    BY DEF Deliveries, Held
  <2>3. ~ Due(r, now + 1) /\ now' = now + 1
    BY <1>1, <2>1, <2>2 DEF JobsTick, Tick, LeasesKept, Live
  <2>4. QED
    BY <1>5, <2>3 DEF Due
<1>6. CASE \E u \in Int : /\ r.attempt_at # Null /\ r.attempt_at < u
                          /\ q = KeptAlive(r, u) /\ now' = now
  <2>1. PICK u \in Int : /\ r.attempt_at # Null /\ r.attempt_at < u
                         /\ q = KeptAlive(r, u) /\ now' = now
    BY <1>6
  <2>2. q.attempt_at = u
    BY <1>2, <2>1 DEF KeptAlive, Row
  <2>3. QED
    BY <1>2, <1>3, <2>1, <2>2 DEF Due
<1>7. CASE /\ \E c \in Checkpoints : q.attempt_at = Greatest(r.attempt_at, now + c.duration)
           /\ now' = now
  <2>1. PICK c \in Checkpoints : q.attempt_at = Greatest(r.attempt_at, now + c.duration)
    BY <1>7
  <2>2. c.duration \in Nat /\ c.duration > 0
    BY StoreAssumption DEF LeasesKept, CheckpointArgs
  <2>3. q.attempt_at \in Int /\ q.attempt_at > now
    BY <1>2, <1>3, <2>1, <2>2 DEF Greatest
  <2>4. QED
    BY <1>2, <1>7, <2>3 DEF Due
<1>8. \/ q.attempt_at = r.attempt_at
      \/ /\ \E u \in Int : /\ r.attempt_at # Null /\ r.attempt_at < u
                           /\ q = KeptAlive(r, u)
         /\ now' = now
      \/ /\ \E c \in Checkpoints : q.attempt_at = Greatest(r.attempt_at, now + c.duration)
         /\ now' = now
  <2>1. ~ Due(r, now)
    BY <1>2, <1>3 DEF Due
  <2>2. \A n \in Nat : now + n \in Int
    BY <1>2
  <2>3. m \in DOMAIN msgs'
    OBVIOUS
  <2> HIDE DEF m
  <2>4. QED
    BY <1>1, <1>3, <2>1, <2>2, <2>3, RowSteps
<1>9. QED
  BY <1>4, <1>5, <1>6, <1>7, <1>8

(* A poll starts a lease of a backoff; LeaseKept says who else keeps it.   *)
LEMMA LeaseStep ==
    LeasesKept =>
      (JobsInv /\ JobsInv' /\ CommittedInv /\ LeaseInv /\ [JobsNext]_jobsVars => LeaseInv')
<1> SUFFICES ASSUME LeasesKept, JobsInv, JobsInv', CommittedInv, LeaseInv,
                    [JobsNext]_jobsVars
             PROVE  LeaseInv'
  OBVIOUS
<1>1. TypeOK /\ IInv /\ [Next]_vars
  BY JobsInvStep DEF JobsInv, IInv
<1>2. ASSUME NEW m \in Live' PROVE msgs'[m].retry_backoff > 0
  <2>1. CASE m \in Live
    <3>1. msgs[m].retry_backoff \in Nat /\ msgs[m].retry_backoff > 0
      BY <1>1, <2>1 DEF TypeOK, Row, Live, LeaseInv
    <3>2. QED
      BY <1>1, <1>2, <2>1, <3>1, ColumnsKept DEF Live
  <2>2. CASE m \notin Live
    <3>1. PICK new, lag, latest :
             new \in NewJobs /\ msgs'[m] = NewRow(new, now - lag, latest)
      BY <1>1, <1>2, <2>2, NewIsInserted
    <3>2. QED
      BY <3>1 DEF NewRow, LeasesKept
  <2>3. QED
    BY <2>1, <2>2
<1>3. ASSUME NEW d \in Deliveries', d[1] \in DOMAIN msgs'
      PROVE  ~ Due(msgs'[d[1]], now')
  <2>1. CASE d \in Deliveries
    BY <1>3, <2>1, LeaseKept
  <2>2. CASE d \notin Deliveries
    <3>1. PICK r \in Runner, names \in Subscriptions, limit \in BatchSizes :
             \E S \in SUBSET Ready(msgs, now, names) :
                PollBatch(r, names, limit, S) /\ d[1] \in S
      BY <1>3, <2>2, NewlyHeld DEF JobsInv
    <3>2. PICK S \in SUBSET Ready(msgs, now, names) :
             PollBatch(r, names, limit, S) /\ d[1] \in S
      BY <3>1
    <3>3. /\ d[1] \in Live /\ now' = now /\ now \in Int
          /\ msgs'[d[1]] = Claimed(msgs[d[1]], now)
      BY <1>1, <3>2 DEF PollBatch, mq_poll, AfterPoll, Ready, Live, TypeOK
    <3>4. /\ msgs[d[1]] \in Row /\ msgs[d[1]].retry_backoff \in Nat
          /\ msgs[d[1]].retry_backoff > 0
      BY <1>1, <3>3 DEF TypeOK, Row, Live, LeaseInv
    <3>5. msgs'[d[1]].attempt_at \in {Null, now + msgs[d[1]].retry_backoff}
      BY <3>3, <3>4 DEF Claimed, Row
    <3>6. QED
      BY <3>3, <3>4, <3>5 DEF Due
  <2>3. QED
    BY <2>1, <2>2
<1>4. QED
  BY <1>2, <1>3 DEF LeaseInv

(* A message is in one place at most: with one handle, or with one runner  *)
(* that is about to create its handle.                                     *)
UniqueInv ==
    /\ \A d, e \in Deliveries : d[1] = e[1] => d = e
    /\ \A r \in Runner : running \cap batch[r].dispatch = {}
    /\ \A r, s \in Runner : r # s => batch[r].dispatch \cap batch[s].dispatch = {}

(* A poll claims only what is due, so nothing that is held.                *)
LEMMA UniqueStep == JobsInv /\ LeaseInv /\ UniqueInv /\ [JobsNext]_jobsVars => UniqueInv'
<1> SUFFICES ASSUME JobsInv, LeaseInv, UniqueInv, [JobsNext]_jobsVars
             PROVE  UniqueInv'
  OBVIOUS
<1>1. CASE \E r \in Runner : \E names \in Subscriptions, limit \in BatchSizes :
              \E S \in SUBSET Ready(msgs, now, names) : PollBatch(r, names, limit, S)
  <2>1. PICK r \in Runner, names \in Subscriptions, limit \in BatchSizes :
           \E S \in SUBSET Ready(msgs, now, names) : PollBatch(r, names, limit, S)
    BY <1>1
  <2>2. PICK S \in SUBSET Ready(msgs, now, names) : PollBatch(r, names, limit, S)
    BY <2>1
  <2> DEFINE committed == {m \in S : msgs'[m].commit_interval = Null}
             new == {<<m, hist'[m].polls>> : m \in committed}
  <2>3. /\ batch' = [batch EXCEPT ![r] = [dispatch |-> new, discard |-> S \ committed]]
        /\ running' = running /\ batch[r] = NoBatch
    BY <2>2 DEF PollBatch
  <2>4. \A i \in Runner : batch'[i].dispatch = IF i = r THEN new ELSE batch[i].dispatch
    BY <2>3 DEF JobsInv, HeldInv
  <2>5. \A d, e \in new : d[1] \in S /\ (d[1] = e[1] => d = e)
    OBVIOUS
  <2>6. ASSUME NEW d \in new, NEW e \in Deliveries PROVE d[1] # e[1]
    BY <2>5 DEF Ready, LeaseInv
  <2> HIDE DEF new
  <2>7. Deliveries' \subseteq Deliveries \cup new
    BY <2>3, <2>4 DEF Deliveries
  <2>8. ASSUME NEW d \in Deliveries', NEW e \in Deliveries', d[1] = e[1] PROVE d = e
    BY <2>5, <2>6, <2>7, <2>8 DEF UniqueInv
  <2>9. new \cap Deliveries = {}
    BY <2>6
  <2>10. \A i \in Runner : running' \cap batch'[i].dispatch = {}
    BY <2>3, <2>4, <2>9 DEF UniqueInv, Deliveries
  <2>11. ASSUME NEW i \in Runner, NEW j \in Runner, i # j
         PROVE  batch'[i].dispatch \cap batch'[j].dispatch = {}
    BY <2>4, <2>9, <2>11 DEF UniqueInv, Deliveries
  <2>12. QED
    BY <2>8, <2>10, <2>11 DEF UniqueInv
<1>2. CASE \E r \in Runner : Dispatch(r)
  <2>1. PICK r \in Runner : Dispatch(r)
    BY <1>2
  <2>2. \A i \in Runner : batch'[i].dispatch = IF i = r THEN {} ELSE batch[i].dispatch
    BY <2>1 DEF Dispatch, NoBatch, JobsInv, HeldInv
  <2>3. running' = running \cup batch[r].dispatch
    BY <2>1 DEF Dispatch
  <2>4. Deliveries' \subseteq Deliveries
    BY <2>2, <2>3 DEF Deliveries
  <2>5. QED
    BY <2>2, <2>3, <2>4 DEF UniqueInv
<1>3. CASE /\ running' \subseteq running
           /\ \A i \in Runner : batch'[i].dispatch \subseteq batch[i].dispatch
  <2>1. Deliveries' \subseteq Deliveries
    BY <1>3 DEF Deliveries
  <2>2. QED
    BY <1>3, <2>1 DEF UniqueInv
<1>4. ASSUME NEW r \in Runner, DiscardUncommitted(r) \/ LoseBatch(r)
      PROVE  /\ running' \subseteq running
             /\ \A i \in Runner : batch'[i].dispatch \subseteq batch[i].dispatch
  BY <1>4 DEF DiscardUncommitted, LoseBatch, JobsInv, HeldInv, PolledBatch, NoBatch
<1>5. CASE UNCHANGED batch /\ running' \subseteq running
  BY <1>3, <1>5
<1>6. CASE \E d \in running : JobStep(d)
  <2>1. UNCHANGED batch /\ running' \subseteq running
    BY <1>6 DEF JobStep, complete, complete_with_transaction, checkpoint,
                keep_alive, DropJob, jobs
  <2>2. QED
    BY <1>5, <2>1
<1>7. CASE \/ ProducerStep \/ JobsTick \/ UNCHANGED jobsVars
           \/ \E name \in ChannelName : Receive(name) /\ UNCHANGED jobs
  BY <1>5, <1>7 DEF ProducerStep, spawn, commit, ProducerKeepAlive, JobsTick,
                    jobs, jobsVars
<1>8. QED
  BY <1>1, <1>2, <1>3, <1>4, <1>6, <1>7 DEF JobsNext, RunnerStep

(* As long as every lease is kept, a message has one live handle, however  *)
(* many runners poll, crash and retry.                                     *)
THEOREM OneHandle == LeasesKept => (JobsSpec => []OneHandlePerMessage)
<1> SUFFICES ASSUME LeasesKept PROVE JobsSpec => []OneHandlePerMessage
  OBVIOUS
<1>1. JobsInit => LeaseInv /\ UniqueInv
  BY DEF JobsInit, Init, LeaseInv, UniqueInv, Deliveries, NoBatch, Live
<1>2. UniqueInv => OneHandlePerMessage
  BY DEF UniqueInv, OneHandlePerMessage, Deliveries
<1>3. QED
  BY <1>1, <1>2, CommittedInit, CommittedStep, LeaseStep, UniqueStep,
     JobsInvInit, JobsInvStep, PTL DEF JobsSpec

(* A message whose transaction has committed is gone for good: no row to   *)
(* poll, and nobody who still works on it.                                 *)
OnceInv ==
    \A m \in MsgId : effects[m] # 0 =>
        /\ effects[m] = 1
        /\ m \in Polled
        /\ m \notin DOMAIN msgs
        /\ \A d \in Deliveries : d[1] # m

(* The transaction that commits deletes the row and uses up the handle.    *)
LEMMA OnceStep == JobsInv /\ JobsInv' /\ UniqueInv /\ OnceInv /\ [JobsNext]_jobsVars => OnceInv'
<1> SUFFICES ASSUME JobsInv, JobsInv', UniqueInv, OnceInv, [JobsNext]_jobsVars,
                    NEW m \in MsgId, effects'[m] # 0
             PROVE  /\ effects'[m] = 1
                    /\ m \in Polled'
                    /\ m \notin DOMAIN msgs'
                    /\ \A d \in Deliveries' : d[1] # m
  BY DEF OnceInv
<1>1. IInv /\ [Next]_vars /\ effects \in [MsgId -> Nat] /\ TypeOK /\ TypeOK'
  BY JobsInvStep DEF JobsInv, HeldInv, IInv
<1>2. CASE effects'[m] = effects[m]
  <2>1. effects[m] = 1 /\ m \in Polled /\ m \notin DOMAIN msgs
    BY <1>2 DEF OnceInv
  <2>2. /\ hist[m].birth # 0 /\ hist[m].polls > 0
        /\ hist[m].polls \in Nat /\ hist'[m].polls \in Nat
    BY <1>1, <2>1 DEF JobsInv, HeldInv, Polled, TypeOK, History
  <2>3. m \in Polled' /\ m \notin DOMAIN msgs'
    BY <1>1, <2>1, <2>2, HistorySteps DEF Polled
  <2>4. ASSUME NEW d \in Deliveries', d[1] = m PROVE FALSE
    <3>1. d \notin Deliveries
      BY <1>2, <2>4 DEF OnceInv
    <3>2. \E r \in Runner, names \in Subscriptions, limit \in BatchSizes :
             \E S \in SUBSET Ready(msgs, now, names) : d[1] \in S
      BY <3>1, NewlyHeld DEF JobsInv
    <3>3. QED
      BY <2>1, <2>4, <3>2 DEF Ready
  <2>5. QED
    BY <1>2, <2>1, <2>3, <2>4
<1>3. CASE \E d \in running : complete_with_transaction(d) /\ d[1] = m
  <2>1. PICK d \in running : complete_with_transaction(d) /\ d[1] = m
    BY <1>3
  <2>2. d \in Deliveries /\ m \in Polled
    BY <2>1 DEF Deliveries, JobsInv, HeldInv
  <2>3. effects[m] = 0
    BY <2>1, <2>2 DEF OnceInv
  <2>4. effects'[m] = 1
    BY <1>1, <2>1, <2>3 DEF complete_with_transaction
  <2>5. m \notin DOMAIN msgs' /\ m \in Polled'
    BY <2>1, <2>2 DEF complete_with_transaction, mq_delete, AfterDelete, history, Polled
  <2>6. ASSUME NEW e \in Deliveries', e[1] = m PROVE FALSE
    <3>1. running' = running \ {d} /\ batch' = batch
      BY <2>1 DEF complete_with_transaction
    <3>2. e \in Deliveries
      BY <3>1 DEF Deliveries
    <3>3. e = d
      BY <2>1, <2>2, <2>6, <3>2 DEF UniqueInv
    <3>4. QED
      BY <3>1, <3>3 DEF Deliveries, UniqueInv
  <2>7. QED
    BY <2>4, <2>5, <2>6
<1>4. \/ effects'[m] = effects[m]
      \/ \E d \in running : complete_with_transaction(d) /\ d[1] = m
  <2>1. ASSUME NEW d \in running, complete_with_transaction(d), d[1] # m
        PROVE  effects'[m] = effects[m]
    BY <1>1, <2>1 DEF complete_with_transaction
  <2>2. CASE \E d \in running : complete_with_transaction(d)
    BY <2>1, <2>2
  <2>3. CASE ~ \E d \in running : complete_with_transaction(d)
    <3>1. effects' = effects
      BY <2>3
         DEF JobsNext, RunnerStep, PollBatch, DiscardUncommitted, Dispatch,
             LoseBatch, JobStep, complete, checkpoint, keep_alive, DropJob,
             ProducerStep, spawn, commit, ProducerKeepAlive, JobsTick, jobs,
             jobsVars
    <3>2. QED
      BY <3>1
  <2>4. QED
    BY <2>2, <2>3
<1>5. QED
  BY <1>2, <1>3, <1>4

(* Nothing is held, and no transaction has committed, at first.            *)
LEMMA OnceInit == JobsInit => LeaseInv /\ UniqueInv /\ OnceInv
  BY DEF JobsInit, Init, LeaseInv, UniqueInv, OnceInv, Deliveries, NoBatch, Live

(* Exactly-once: as long as every lease is kept, a message completes one   *)
(* transaction at most, whatever fails and however often it is retried.    *)
THEOREM CompletedOnce == LeasesKept => (JobsSpec => []ExactlyOnce)
<1> SUFFICES ASSUME LeasesKept PROVE JobsSpec => []ExactlyOnce
  OBVIOUS
<1>1. OnceInv => ExactlyOnce
  <2>1. \A m \in MsgId : OnceInv => effects[m] <= 1
    BY DEF OnceInv
  <2>2. QED
    BY <2>1 DEF ExactlyOnce
<1>2. QED
  BY <1>1, CommittedInit, CommittedStep, LeaseStep, UniqueStep, OnceInit, OnceStep,
     JobsInvInit, JobsInvStep, PTL DEF JobsSpec

-----------------------------------------------------------------------------
(* The order of a channel, from the polls to the transactions.             *)

(* When an ordered message has been handed out, every message of its       *)
(* channel inserted before it has left the table.                          *)
OrderInv ==
    /\ \A m \in MsgId : hist[m].birth <= births
    /\ \A m \in Live : hist[m].channel = msgs[m].channel
    /\ \A m \in MsgId, n \in Polled :
          /\ hist[m].ordered /\ hist[n].ordered
          /\ hist[m].channel = hist[n].channel
          /\ hist[m].birth # 0 /\ hist[m].birth < hist[n].birth
          => m \notin DOMAIN msgs

(* A new message is the last of its channel, a polled one the first.       *)
LEMMA OrderStep == JobsInv /\ JobsInv' /\ OrderInv /\ [JobsNext]_jobsVars => OrderInv'
<1> SUFFICES ASSUME JobsInv, JobsInv', OrderInv, [JobsNext]_jobsVars PROVE OrderInv'
  OBVIOUS
<1>1. IInv /\ TypeOK /\ [Next]_vars
  BY JobsInvStep DEF JobsInv, IInv
<1>2. /\ births \in Nat /\ births' \in Nat
      /\ \A m \in MsgId : /\ hist[m].birth \in Nat /\ hist'[m].birth \in Nat
                          /\ hist[m].polls \in Nat /\ hist'[m].polls \in Nat
  BY DEF JobsInv, IInv, TypeOK, History
<1>3. ASSUME NEW m \in MsgId PROVE hist'[m].birth <= births'
  BY <1>1, <1>2, HistorySteps DEF OrderInv
<1>4. ASSUME NEW m \in Live' PROVE hist'[m].channel = msgs'[m].channel
  <2>1. CASE m \in Live
    <3>1. m \in MsgId /\ m \in DOMAIN msgs' /\ hist[m].birth # 0
      BY <1>1, <1>4, <2>1 DEF Live, TypeOK, IInv, ChainInv
    <3>2. QED
      BY <1>1, <2>1, <3>1, ColumnsKept, HistorySteps DEF OrderInv
  <2>2. CASE m \notin Live
    <3>1. PICK new, lag, latest :
             /\ mq_insert(m, new, now - lag)
             /\ msgs'[m] = NewRow(new, now - lag, latest)
      BY <1>1, <1>4, <2>2, NewIsInserted
    <3>2. m \in MsgId
      BY <1>4 DEF JobsInv, IInv, TypeOK, Live
    <3>3. QED
      BY <1>1, <3>1, <3>2 DEF mq_insert, NewRow, TypeOK
  <2>3. QED
    BY <2>1, <2>2
<1>5. ASSUME NEW m \in MsgId, NEW n \in Polled',
             hist'[m].ordered, hist'[n].ordered,
             hist'[m].channel = hist'[n].channel,
             hist'[m].birth # 0, hist'[m].birth < hist'[n].birth
      PROVE  m \notin DOMAIN msgs'
  <2>1. n \in MsgId /\ hist'[n].polls > 0
    BY <1>5 DEF Polled
  <2>2. /\ hist[n].birth # 0
        /\ hist'[n].birth = hist[n].birth /\ hist'[n].ordered = hist[n].ordered
        /\ hist'[n].channel = hist[n].channel
        /\ hist[n].polls = 0 => n \in Live
    <3>1. hist[n].birth # 0
      <4>1. hist[n].polls > 0 => hist[n].birth # 0
        BY <2>1 DEF JobsInv, HeldInv, Polled
      <4>2. ASSUME hist[n].birth = 0 PROVE FALSE
        <5>1. hist[n].polls = 0
          BY <1>2, <2>1, <4>1, <4>2
        <5>2. hist'[n].polls = 0
          BY <1>1, <2>1, <4>2, <5>1, HistorySteps
        <5>3. QED
          BY <2>1, <5>2
      <4>3. QED
        BY <4>2
    <3>2. QED
      BY <1>1, <1>2, <2>1, <3>1, HistorySteps
  <2>3. /\ hist[m].birth # 0
        /\ hist'[m].birth = hist[m].birth /\ hist'[m].ordered = hist[m].ordered
        /\ hist'[m].channel = hist[m].channel
    <3>1. hist[n].birth <= births
      BY <2>1 DEF OrderInv
    <3>2. ASSUME hist[m].birth = 0 PROVE FALSE
      <4>1. hist'[m].birth \in {hist[m].birth, 0, births + 1}
        BY <1>1, <3>2, HistorySteps
      <4>2. QED
        BY <1>2, <1>5, <2>1, <2>2, <3>1, <3>2, <4>1
    <3>3. QED
      BY <1>1, <3>2, HistorySteps
  <2>4. CASE hist[n].polls > 0
    <3>1. m \notin DOMAIN msgs
      BY <1>5, <2>1, <2>2, <2>3, <2>4 DEF OrderInv, Polled
    <3>2. QED
      BY <1>1, <2>3, <3>1, HistorySteps
  <2>5. CASE hist[n].polls = 0
    <3>1. ASSUME m \in Live PROVE FALSE
      <4>1. n \in Live /\ msgs[m].channel = msgs[n].channel
        BY <1>5, <2>2, <2>3, <2>5, <3>1 DEF OrderInv
      <4>2. hist'[n].polls > hist[n].polls
        BY <2>1, <2>5
      <4>3. hist[m].birth >= hist[n].birth
        BY <1>1, <1>5, <2>2, <2>3, <3>1, <4>1, <4>2, PollInOrder
      <4>4. QED
        BY <1>2, <1>5, <2>1, <2>2, <2>3, <4>3
    <3>2. m \notin DOMAIN msgs
      BY <3>1, TablesAssumption DEF Live
    <3>3. QED
      BY <1>1, <2>3, <3>2, HistorySteps
  <2>6. QED
    BY <1>2, <2>1, <2>4, <2>5
<1>6. QED
  BY <1>3, <1>4, <1>5 DEF OrderInv

(* Where nothing is cleared, a message somebody works on is in the table:  *)
(* it is deleted by the handle that holds it, or as an uncommitted message *)
(* that nobody works on.                                                   *)
PresentInv == \A d \in Deliveries : d[1] \in DOMAIN msgs

(* Whoever deletes a row holds its only delivery, or finds it uncommitted. *)
LEMMA PresentStep ==
    ClearSets = {} =>
      (JobsInv /\ CommittedInv /\ CommitIsFinal /\ UniqueInv /\ PresentInv
         /\ [JobsNext]_jobsVars => PresentInv')
<1> SUFFICES ASSUME ClearSets = {}, JobsInv, CommittedInv, CommitIsFinal, UniqueInv,
                    PresentInv, [JobsNext]_jobsVars, NEW d \in Deliveries'
             PROVE  d[1] \in DOMAIN msgs'
  BY DEF PresentInv
<1>1. CASE d \notin Deliveries
  <2>1. PICK r \in Runner, names \in Subscriptions, limit \in BatchSizes :
           \E S \in SUBSET Ready(msgs, now, names) :
              PollBatch(r, names, limit, S) /\ d[1] \in S
    BY <1>1, NewlyHeld DEF JobsInv
  <2>2. PICK S \in SUBSET Ready(msgs, now, names) :
           PollBatch(r, names, limit, S) /\ d[1] \in S
    BY <2>1
  <2>3. QED
    BY <2>2 DEF PollBatch, mq_poll, AfterPoll, Ready
<1>2. CASE d \in Deliveries
  <2>1. d[1] \in DOMAIN msgs
    BY <1>2 DEF PresentInv
  <2>2. CASE DOMAIN msgs \subseteq DOMAIN msgs'
    BY <2>1, <2>2
  <2>3. ASSUME NEW e \in running, complete(e) \/ complete_with_transaction(e)
        PROVE  d[1] \in DOMAIN msgs'
    <3>1. /\ msgs' = AfterDelete(msgs, {e[1]})
          /\ running' = running \ {e} /\ batch' = batch
      BY <2>3 DEF complete, complete_with_transaction, mq_delete
    <3>2. d # e
      BY <3>1 DEF Deliveries, UniqueInv
    <3>3. d[1] # e[1]
      BY <1>2, <3>2 DEF Deliveries, UniqueInv
    <3>4. QED
      BY <2>1, <3>1, <3>3 DEF AfterDelete
  <2>4. ASSUME NEW r \in Runner, DiscardUncommitted(r) PROVE d[1] \in DOMAIN msgs'
    <3>1. msgs' = AfterDelete(msgs, batch[r].discard)
      BY <2>4 DEF DiscardUncommitted, mq_delete
    <3>2. d[1] \notin batch[r].discard
      BY <1>2, <2>1 DEF CommittedInv, CommitIsFinal
    <3>3. QED
      BY <2>1, <3>1, <3>2 DEF AfterDelete
  <2>5. CASE \E r \in Runner : RunnerStep(r) /\ ~ DiscardUncommitted(r)
    BY <2>2, <2>5 DEF RunnerStep, PollBatch, mq_poll, AfterPoll, Dispatch,
                      LoseBatch, vars
  <2>6. CASE \E e \in running : /\ JobStep(e)
                                /\ ~ complete(e) /\ ~ complete_with_transaction(e)
    BY <2>2, <2>6 DEF JobStep, checkpoint, mq_checkpoint, AfterCheckpoint,
                      keep_alive, mq_keep_alive, AfterKeepAlive, DropJob, vars
  <2>7. CASE ProducerStep
    <3>1. ~ Clear
      BY DEF Clear, mq_clear_all
    <3>2. ASSUME spawn PROVE DOMAIN msgs \subseteq DOMAIN msgs'
      BY <3>2 DEF spawn, Spawn, mq_insert, AfterInsert
    <3>3. ASSUME NEW m \in Live, commit(m) PROVE DOMAIN msgs \subseteq DOMAIN msgs'
      BY <3>3 DEF commit, mq_commit, AfterCommit
    <3>4. ASSUME NEW m \in Live, NEW u \in Durations, ProducerKeepAlive(m, u)
          PROVE  DOMAIN msgs \subseteq DOMAIN msgs'
      BY <3>4 DEF ProducerKeepAlive, mq_keep_alive, AfterKeepAlive
    <3>5. QED
      BY <2>2, <2>7, <3>1, <3>2, <3>3, <3>4 DEF ProducerStep
  <2>8. CASE \/ JobsTick \/ UNCHANGED jobsVars
             \/ \E name \in ChannelName : Receive(name) /\ UNCHANGED jobs
    BY <2>2, <2>8 DEF JobsTick, Tick, Receive, tables, jobsVars
  <2>9. QED
    BY <2>3, <2>4, <2>5, <2>6, <2>7, <2>8 DEF JobsNext
<1>3. QED
  BY <1>1, <1>2

(* A transaction that has committed was that of a message handed out.      *)
EffectsInv == \A m \in MsgId : effects[m] # 0 => m \in Polled

(* The count goes up with the handle of a polled message.                  *)
LEMMA EffectSteps ==
    ASSUME HeldInv, [JobsNext]_jobsVars, NEW m \in MsgId, effects'[m] # effects[m]
    PROVE  \E d \in running : d[1] = m
<1>1. \E d \in running : complete_with_transaction(d)
  BY DEF JobsNext, RunnerStep, PollBatch, DiscardUncommitted, Dispatch,
         LoseBatch, JobStep, complete, checkpoint, keep_alive, DropJob,
         ProducerStep, spawn, commit, ProducerKeepAlive, JobsTick, jobs,
         jobsVars
<1>2. PICK d \in running : complete_with_transaction(d)
  BY <1>1
<1>3. CASE d[1] # m
  BY <1>2, <1>3 DEF complete_with_transaction, HeldInv
<1>4. QED
  BY <1>2, <1>3

(* What has been polled stays so.                                          *)
LEMMA EffectsStep == JobsInv /\ JobsInv' /\ EffectsInv /\ [JobsNext]_jobsVars => EffectsInv'
<1> SUFFICES ASSUME JobsInv, JobsInv', EffectsInv, [JobsNext]_jobsVars,
                    NEW m \in MsgId, effects'[m] # 0
             PROVE  m \in Polled'
  BY DEF EffectsInv
<1>1. m \in Polled
  BY EffectSteps DEF EffectsInv, JobsInv, HeldInv
<1>2. /\ hist[m].birth # 0 /\ hist[m].polls > 0
      /\ hist[m].polls \in Nat /\ hist'[m].polls \in Nat
  BY <1>1 DEF JobsInv, IInv, HeldInv, Polled, TypeOK, History
<1>3. QED
  BY <1>2, JobsInvStep, HistorySteps DEF Polled, JobsInv

(* The transactions of ordered jobs commit in the order the jobs were      *)
(* spawned in, of all that still find their message: as long as it is in   *)
(* the table no later one is handed out, whatever expires, is lost or is   *)
(* cleared.                                                                *)
THEOREM OrderedEffects == JobsSpec => EffectsInOrder
<1>1. JobsInit => OrderInv /\ EffectsInv
  <2>1. JobsInit => Live = {} /\ Polled = {} /\ \A m \in MsgId : hist[m].birth <= births
    BY DEF JobsInit, Init, Live, Polled, Unborn
  <2>2. JobsInit => \A m \in MsgId : effects[m] = 0
    BY DEF JobsInit
  <2>3. QED
    BY <2>1, <2>2 DEF OrderInv, EffectsInv
<1>2. ASSUME JobsInv, EffectsInv, OrderInv, [JobsNext]_jobsVars,
             NEW m \in MsgId, NEW n \in MsgId,
             effects'[m] > effects[m], m \in DOMAIN msgs,
             hist[m].ordered, hist[n].ordered,
             hist[m].channel = hist[n].channel,
             hist[m].birth < hist[n].birth,
             effects[n] # 0
      PROVE  FALSE
  <2>1. n \in Polled
    BY <1>2 DEF EffectsInv
  <2>2. hist[m].birth # 0
    BY <1>2, TablesAssumption DEF JobsInv, IInv, ChainInv, Live
  <2>3. QED
    BY <1>2, <2>1, <2>2 DEF OrderInv
<1>3. JobsInv /\ EffectsInv /\ OrderInv /\ [JobsNext]_jobsVars =>
        [\A m, n \in MsgId :
           /\ effects'[m] > effects[m]
           /\ m \in DOMAIN msgs
           /\ hist[m].ordered /\ hist[n].ordered
           /\ hist[m].channel = hist[n].channel
           /\ hist[m].birth < hist[n].birth
           => effects[n] = 0]_jobsVars
  BY <1>2
<1>4. QED
  BY <1>1, <1>3, OrderStep, EffectsStep, JobsInvInit, JobsInvStep, PTL
     DEF JobsSpec, EffectsInOrder

(* And they all do when leases are kept, commits come in time and nothing  *)
(* is cleared: every job that runs has its message in the table, so that   *)
(* no transaction commits out of order.                                    *)
THEOREM RunningJobsArePresent ==
    LeasesKept /\ PromptProducers /\ ClearSets = {} =>
      (JobsSpec => [](\A d \in running : d[1] \in DOMAIN msgs))
<1> SUFFICES ASSUME LeasesKept, PromptProducers, ClearSets = {}
             PROVE  JobsSpec => [](\A d \in running : d[1] \in DOMAIN msgs)
  OBVIOUS
<1>1. JobsInit => PresentInv
  BY DEF JobsInit, PresentInv, Deliveries, NoBatch
<1>2. JobsInv /\ CommittedInv /\ CommitIsFinal /\ UniqueInv /\ PresentInv
        /\ [JobsNext]_jobsVars => PresentInv'
  BY PresentStep
<1>3. JobsSpec => []CommitIsFinal
  BY CommitsAreFinal
<1>4. PresentInv => \A d \in running : d[1] \in DOMAIN msgs
  BY DEF PresentInv, Deliveries
<1>5. QED
  BY <1>1, <1>2, <1>3, <1>4, CommittedInit, CommittedStep, LeaseStep, UniqueStep,
     OnceInit, JobsInvInit, JobsInvStep, PTL DEF JobsSpec

-----------------------------------------------------------------------------
(* The abstract queue.                                                     *)

(* What a step leaves of the job, and of its row, that the queue sees.     *)
SameJob(m) == /\ hist'[m].birth = hist[m].birth
              /\ hist'[m].channel = hist[m].channel
              /\ hist'[m].ordered = hist[m].ordered

SameRow(m) == /\ m \in DOMAIN msgs' <=> m \in DOMAIN msgs
              /\ m \in DOMAIN msgs =>
                    (msgs'[m].commit_interval = Null <=> msgs[m].commit_interval = Null)

(* A job the queue sees no change of.                                      *)
LEMMA SameQueue ==
    /\ (\A m \in MsgId : SameJob(m)) => UNCHANGED QueueJob
    /\ (\A m \in MsgId : SameJob(m) /\ SameRow(m)) => UNCHANGED QueueStatus
  BY DEF SameJob, SameRow, QueueJob, QueueStatus

(* Rows that are deleted leave the queue, those of no message included.    *)
LEMMA DeletedLeave ==
    ASSUME NEW S, NEW T, msgs' = AfterDelete(msgs, S), hist' = hist,
           msgs \in [DOMAIN msgs -> Row],
           \A m \in MsgId \cap DOMAIN msgs : m \in T <=> m \in S,
           \A m \in MsgId \cap T : hist[m].birth # 0
    PROVE  Queue!Leave(T)
<1>1. ASSUME NEW m \in MsgId
      PROVE  QueueStatus'[m] = IF m \in T THEN "gone" ELSE QueueStatus[m]
  <2>1. CASE m \in DOMAIN msgs /\ m \in S
    BY <2>1 DEF AfterDelete, QueueStatus
  <2>2. CASE m \in DOMAIN msgs /\ m \notin S
    <3>1. m \in DOMAIN msgs' /\ msgs'[m].commit_interval = msgs[m].commit_interval
      BY <2>2 DEF AfterDelete, Row
    <3>2. QED
      BY <2>2, <3>1 DEF QueueStatus
  <2>3. CASE m \notin DOMAIN msgs
    <3>1. m \notin DOMAIN msgs'
      BY <2>3 DEF AfterDelete
    <3>2. QED
      BY <2>3, <3>1 DEF QueueStatus
  <2>4. QED
    BY <2>1, <2>2, <2>3
<1>2. QueueStatus' = [m \in MsgId |-> QueueStatus'[m]]
  BY DEF QueueStatus
<1>3. QED
  BY <1>1, <1>2 DEF Queue!Leave

(* The jobs taken are those delivered.                                     *)
LEMMA TakenDelivered == /\ QueueTaken = {d[1] : d \in Deliveries}
                        /\ QueueTaken' = {d[1] : d \in Deliveries'}
  BY DEF QueueTaken, Deliveries

(* What makes the library one queue.                                       *)
QueueInv == /\ JobsInv /\ CommittedInv /\ LeaseInv /\ UniqueInv /\ OrderInv
            /\ CommitIsFinal

(* A keep-alive leaves the commit interval of a message there or not.      *)
LEMMA KeptAliveSame ==
    ASSUME TypeOK, NEW S, NEW u \in Int, msgs' = AfterKeepAlive(msgs, S, u),
           NEW m \in MsgId
    PROVE  SameRow(m)
<1>1. CASE m \in DOMAIN msgs
  <2>1. /\ msgs[m] \in Row /\ msgs[m].commit_interval \in Int \cup {Null}
        /\ msgs[m].attempt_at \in Int \cup {Null} /\ Null \notin Int
    BY <1>1, TablesAssumption DEF TypeOK, Row
  <2>2. msgs[m].attempt_at # Null =>
           (KeptAlive(msgs[m], u).commit_interval = Null <=> msgs[m].commit_interval = Null)
    BY <2>1 DEF KeptAlive, Row
  <2>3. QED
    BY <1>1, <2>2 DEF AfterKeepAlive, SameRow
<1>2. CASE m \notin DOMAIN msgs
  BY <1>2 DEF AfterKeepAlive, SameRow
<1>3. QED
  BY <1>1, <1>2

(* A poll takes the committed jobs it claims.                              *)
LEMMA PollTakes ==
    ASSUME QueueInv, NEW r \in Runner, NEW names \in Subscriptions,
           NEW limit \in BatchSizes, NEW S \in SUBSET Ready(msgs, now, names),
           PollBatch(r, names, limit, S)
    PROVE  \E T \in SUBSET MsgId : Queue!Take(T)
<1> USE DEF QueueInv, JobsInv, IInv
<1> DEFINE T   == {m \in S : msgs'[m].commit_interval = Null}
           new == {<<m, hist'[m].polls>> : m \in T}
<1>1. /\ mq_poll(names, limit, S)
      /\ batch' = [batch EXCEPT ![r] = [dispatch |-> new, discard |-> S \ T]]
      /\ running' = running /\ effects' = effects /\ batch[r] = NoBatch
      /\ births' = births
  BY DEF PollBatch, mq_poll
<1>2. [Next]_vars
  BY <1>1 DEF Next, Poll
<1>3. ASSUME NEW m \in S
      PROVE  /\ m \in MsgId /\ m \in Live /\ m \in DOMAIN msgs
             /\ Due(msgs[m], now) /\ hist[m].birth # 0
  BY DEF Ready, TypeOK, Live, ChainInv
<1>4. ASSUME NEW m \in MsgId PROVE SameJob(m) /\ SameRow(m)
  <2>1. SameJob(m)
    BY <1>1 DEF mq_poll, SameJob, TypeOK, History
  <2>2. SameRow(m)
    BY <1>1 DEF mq_poll, AfterPoll, Claimed, SameRow, TypeOK, Row
  <2>3. QED
    BY <2>1, <2>2
<1>5. UNCHANGED <<QueueJob, QueueStatus>>
  BY <1>4, SameQueue
<1>6. QueueTaken' = QueueTaken \cup T
  <2>1. \A i \in Runner : batch'[i].dispatch = IF i = r THEN new ELSE batch[i].dispatch
    BY <1>1 DEF HeldInv
  <2>2. batch[r].dispatch = {}
    BY <1>1 DEF NoBatch
  <2>3. T = {d[1] : d \in new}
    <3>1. \A m \in T : <<m, hist'[m].polls>> \in new /\ <<m, hist'[m].polls>>[1] = m
      OBVIOUS
    <3>2. \A d \in new : d[1] \in T
      OBVIOUS
    <3> HIDE DEF T, new
    <3>3. QED
      BY <3>1, <3>2
  <2> HIDE DEF T, new
  <2>4. Deliveries' = Deliveries \cup new
    BY <1>1, <2>1, <2>2 DEF Deliveries
  <2>5. QED
    BY <2>3, <2>4, TakenDelivered
<1>7. T \cap QueueTaken = {}
  <2>1. \A d \in Deliveries : d[1] \notin S
    BY <1>3 DEF LeaseInv
  <2>2. QED
    BY <2>1, TakenDelivered
<1>8. ASSUME NEW m \in T PROVE QueueStatus[m] = "waiting"
  BY <1>3, <1>4 DEF QueueStatus, SameRow
<1>9. ASSUME NEW m \in T, NEW n \in MsgId, Queue!Queued(n), Queue!Ahead(n, m)
      PROVE  FALSE
  <2>1. n \in Live /\ hist[n].birth # 0
    BY <1>9, TablesAssumption DEF Queue!Queued, QueueStatus, Live
  <2>2. /\ hist[n].ordered /\ hist[m].ordered
        /\ hist[n].channel = hist[m].channel
        /\ hist[n].birth < hist[m].birth
    BY <1>3, <1>9 DEF Queue!Ahead, QueueJob
  <2>3. msgs[n].channel = msgs[m].channel
    BY <1>3, <2>1, <2>2 DEF OrderInv
  <2>4. hist'[m].polls > hist[m].polls
    BY <1>1, <1>3 DEF mq_poll, TypeOK, History
  <2>5. hist[n].birth >= hist[m].birth
    BY <1>2, <1>3, <2>1, <2>2, <2>3, <2>4, PollInOrder
  <2>6. hist[n].birth \in Nat /\ hist[m].birth \in Nat
    BY <1>3 DEF TypeOK, History
  <2>7. QED
    BY <2>2, <2>5, <2>6
<1>10. T \in SUBSET MsgId
  BY <1>3
<1> HIDE DEF T, new
<1>11. Queue!Take(T)
  BY <1>1, <1>5, <1>6, <1>7, <1>8, <1>9 DEF Queue!Take
<1>12. QED
  BY <1>10, <1>11

(* The other steps of a runner discard open jobs, let go of taken ones or  *)
(* create their handles.                                                   *)
LEMMA RunnerServes ==
    ASSUME QueueInv, NEW r \in Runner,
           DiscardUncommitted(r) \/ LoseBatch(r) \/ Dispatch(r)
    PROVE  \/ \E T \in SUBSET MsgId : Queue!Discard(T) \/ Queue!LetGo(T)
           \/ UNCHANGED Queue!qvars
<1> USE DEF QueueInv, JobsInv, IInv
<1>0. \A i \in Runner : batch[i] \in PolledBatch
  BY DEF HeldInv
<1>1. CASE DiscardUncommitted(r)
  <2> DEFINE S == batch[r].discard
             T == S \cap DOMAIN msgs
  <2>1. /\ msgs' = AfterDelete(msgs, S) /\ hist' = hist /\ births' = births
        /\ running' = running /\ effects' = effects
        /\ batch' = [batch EXCEPT ![r].discard = {}]
    BY <1>1 DEF DiscardUncommitted, mq_delete, history
  <2>2. S \subseteq Polled /\ S \subseteq MsgId
    BY DEF HeldInv, Handed, Polled
  <2>3. \A m \in S : hist[m].birth # 0
    BY <2>2 DEF HeldInv
  <2>4. \A m \in T : QueueStatus[m] = "open"
    BY <2>2, <2>3 DEF CommitIsFinal, QueueStatus
  <2>5. UNCHANGED QueueJob
    BY <2>1, SameQueue DEF SameJob
  <2>6. \A i \in Runner : batch'[i].dispatch = batch[i].dispatch
    BY <1>0, <2>1 DEF HeldInv, PolledBatch
  <2>7. Deliveries' = Deliveries
    BY <2>1, <2>6 DEF Deliveries
  <2>8. QueueTaken' = QueueTaken
    BY <2>7, TakenDelivered
  <2>9. Queue!Leave(T)
    <3>1. /\ \A m \in MsgId \cap DOMAIN msgs : m \in T <=> m \in S
          /\ \A m \in MsgId \cap T : hist[m].birth # 0
          /\ msgs \in [DOMAIN msgs -> Row]
      BY <2>3 DEF TypeOK
    <3> HIDE DEF S, T
    <3>2. QED
      BY <2>1, <3>1, DeletedLeave
  <2>10. T \in SUBSET MsgId
    BY <2>2
  <2> HIDE DEF S, T
  <2>11. Queue!Discard(T)
    BY <2>1, <2>4, <2>5, <2>8, <2>9 DEF Queue!Discard
  <2>12. QED
    BY <2>10, <2>11
<1>2. CASE LoseBatch(r)
  <2> DEFINE T == {d[1] : d \in batch[r].dispatch}
  <2>1. /\ UNCHANGED vars /\ running' = running /\ effects' = effects
        /\ batch' = [batch EXCEPT ![r] = NoBatch]
    BY <1>2 DEF LoseBatch
  <2>2. UNCHANGED <<births, effects, QueueJob, QueueStatus>>
    BY <2>1, SameQueue DEF SameJob, SameRow, vars
  <2>3. \A i \in Runner : batch'[i].dispatch = IF i = r THEN {} ELSE batch[i].dispatch
    BY <2>1 DEF HeldInv, NoBatch
  <2>4. Deliveries' = Deliveries \ batch[r].dispatch
    BY <2>1, <2>3 DEF Deliveries, UniqueInv
  <2>5. \A d \in Deliveries, e \in batch[r].dispatch : d[1] = e[1] => d = e
    BY DEF Deliveries, UniqueInv
  <2>6. {d[1] : d \in Deliveries'} = {d[1] : d \in Deliveries} \ T
    BY <2>4, <2>5
  <2>7. T \in SUBSET MsgId
    BY <1>0 DEF PolledBatch, Delivery
  <2> HIDE DEF T
  <2>8. QueueTaken' = QueueTaken \ T
    BY <2>6, TakenDelivered
  <2>9. Queue!LetGo(T)
    BY <2>2, <2>8 DEF Queue!LetGo
  <2>10. QED
    BY <2>7, <2>9
<1>3. CASE Dispatch(r)
  <2>1. /\ UNCHANGED vars /\ running' = running \cup batch[r].dispatch
        /\ effects' = effects /\ batch' = [batch EXCEPT ![r] = NoBatch]
    BY <1>3 DEF Dispatch
  <2>2. UNCHANGED <<births, effects, QueueJob, QueueStatus>>
    BY <2>1, SameQueue DEF SameJob, SameRow, vars
  <2>3. \A i \in Runner : batch'[i].dispatch = IF i = r THEN {} ELSE batch[i].dispatch
    BY <2>1 DEF HeldInv, NoBatch
  <2>4. Deliveries' = Deliveries
    BY <2>1, <2>3 DEF Deliveries
  <2>5. QueueTaken' = QueueTaken
    BY <2>4, TakenDelivered
  <2>6. QED
    BY <2>2, <2>5 DEF Queue!qvars
<1>4. QED
  BY <1>1, <1>2, <1>3

(* A job completes what it has, or lets go of it; its other calls are not  *)
(* seen.                                                                   *)
LEMMA JobServes ==
    ASSUME QueueInv, NEW d \in running, JobStep(d)
    PROVE  \/ \E m \in MsgId : Queue!Complete(m)
           \/ \E T \in SUBSET MsgId : Queue!LetGo(T)
           \/ UNCHANGED Queue!qvars
<1> USE DEF QueueInv, JobsInv, IInv
<1> DEFINE m == d[1]
<1>1. /\ m \in MsgId /\ d \in Deliveries /\ hist[m].birth # 0 /\ m \in QueueTaken
  <2>1. m \in MsgId /\ d \in Deliveries /\ hist[m].birth # 0
    BY DEF HeldInv, Delivery, Deliveries
  <2>2. QED
    BY <2>1, TakenDelivered
<1>2. ASSUME running' = running \ {d}, batch' = batch
      PROVE  QueueTaken' = QueueTaken \ {m}
  <2>1. Deliveries' = Deliveries \ {d}
    BY <1>2 DEF Deliveries, UniqueInv
  <2>2. \A e \in Deliveries : e[1] = m => e = d
    BY <1>1 DEF UniqueInv
  <2>3. QED
    BY <2>1, <2>2, TakenDelivered
<1>3. CASE complete(d) \/ complete_with_transaction(d)
  <2>1. /\ msgs' = AfterDelete(msgs, {m}) /\ hist' = hist /\ births' = births
        /\ running' = running \ {d} /\ batch' = batch
        /\ effects' \in {effects, [effects EXCEPT ![m] = @ + 1]}
    BY <1>3 DEF complete, complete_with_transaction, mq_delete, history
  <2>2. UNCHANGED QueueJob
    BY <2>1, SameQueue DEF SameJob
  <2>3. Queue!Leave({m})
    <3>1. \A i \in MsgId \cap {m} : hist[i].birth # 0
      BY <1>1
    <3>2. msgs \in [DOMAIN msgs -> Row]
      BY DEF TypeOK
    <3> HIDE DEF m
    <3>3. QED
      BY <2>1, <3>1, <3>2, DeletedLeave
  <2>4. Queue!Complete(m)
    BY <1>1, <1>2, <2>1, <2>2, <2>3 DEF Queue!Complete
  <2>5. QED
    BY <1>1, <2>4
<1>4. CASE DropJob(d)
  <2>1. /\ UNCHANGED vars /\ running' = running \ {d}
        /\ batch' = batch /\ effects' = effects
    BY <1>4 DEF DropJob
  <2>2. UNCHANGED <<births, effects, QueueJob, QueueStatus>>
    BY <2>1, SameQueue DEF SameJob, SameRow, vars
  <2>3. Queue!LetGo({m})
    BY <1>2, <2>1, <2>2 DEF Queue!LetGo
  <2>4. QED
    BY <1>1, <2>3
<1>5. CASE \/ \E c \in Checkpoints : checkpoint(d, c)
           \/ \E duration \in Durations : keep_alive(d, duration)
  <2>1. births' = births /\ UNCHANGED jobs
    BY <1>5 DEF checkpoint, keep_alive, mq_checkpoint, mq_keep_alive, history
  <2>2. ASSUME NEW i \in MsgId PROVE SameJob(i) /\ SameRow(i)
    <3>1. ASSUME NEW c \in Checkpoints, checkpoint(d, c) PROVE SameJob(i)
      <4>1. hist \in [MsgId -> History]
        BY DEF TypeOK
      <4>2. hist'[i] = hist[i] \/ \E g : hist'[i] = [hist[i] EXCEPT !.granted = g]
        BY <3>1, <4>1 DEF checkpoint, mq_checkpoint
      <4>3. QED
        BY <4>1, <4>2 DEF SameJob, History
    <3>2. ASSUME NEW c \in Checkpoints, checkpoint(d, c) PROVE SameRow(i)
      <4>1. PICK u, e : msgs' = AfterCheckpoint(msgs, m, u, e)
        BY <3>2 DEF checkpoint, mq_checkpoint
      <4>2. \A x, y : i \in DOMAIN msgs =>
               [msgs[i] EXCEPT !.attempt_at = x, !.attempts = y].commit_interval
                  = msgs[i].commit_interval
        BY DEF TypeOK, Row
      <4>3. QED
        BY <4>1, <4>2 DEF AfterCheckpoint, SameRow
    <3>3. ASSUME NEW duration \in Durations, keep_alive(d, duration) PROVE SameJob(i)
      BY <3>3 DEF keep_alive, mq_keep_alive, history, SameJob
    <3>4. ASSUME NEW duration \in Durations, keep_alive(d, duration) PROVE SameRow(i)
      <4>1. now + duration \in Int
        BY StoreAssumption DEF TypeOK
      <4>2. msgs' = AfterKeepAlive(msgs, {m}, now + duration)
        BY <3>4 DEF keep_alive, mq_keep_alive
      <4>3. QED
        BY <4>1, <4>2, KeptAliveSame
    <3>5. QED
      BY <1>5, <3>1, <3>2, <3>3, <3>4
  <2>4. QueueTaken' = QueueTaken
    BY <2>1 DEF jobs, QueueTaken
  <2>5. UNCHANGED <<QueueJob, QueueStatus>>
    BY <2>2, SameQueue
  <2>6. QED
    BY <2>1, <2>4, <2>5 DEF Queue!qvars, jobs
<1>6. QED
  BY <1>3, <1>4, <1>5 DEF JobStep

(* Producers spawn, commit and clear; keeping alive is not seen.           *)
LEMMA ProducerServes ==
    ASSUME QueueInv, TypeOK', ProducerStep
    PROVE  \/ \E m \in MsgId : Queue!Spawn(m) \/ Queue!Commit(m)
           \/ \E C \in SUBSET Channel : Queue!Clear(C)
           \/ UNCHANGED Queue!qvars
<1> USE DEF QueueInv, JobsInv, IInv
<1>1. CASE spawn
  <2>1. PICK i \in MsgId, new \in NewJobs, lag \in Lags : mq_insert(i, new, now - lag)
    BY <1>1 DEF spawn, Spawn
  <2>2. PICK latest : msgs' = AfterInsert(msgs, i, NewRow(new, now - lag, latest))
    BY <2>1 DEF mq_insert
  <2>3. /\ births' = births + 1 /\ births' \in Nat
        /\ UNCHANGED <<batch, running, effects>>
        /\ new.channel \in Channel /\ new.ordered \in BOOLEAN
        /\ hist[i].birth = 0 /\ births \in Nat
    BY <1>1, <2>1, StoreAssumption DEF spawn, mq_insert, TypeOK, NewJob
  <2>4. i \notin DOMAIN msgs
    BY <2>3, TablesAssumption DEF ChainInv, Live
  <2>5. /\ hist'[i].birth = births + 1 /\ hist'[i].channel = new.channel
        /\ hist'[i].ordered = new.ordered
        /\ \A m \in MsgId : m # i => hist'[m] = hist[m]
    BY <2>1 DEF mq_insert, TypeOK
  <2>6. QueueJob' = [QueueJob EXCEPT ![i] = [birth |-> births + 1,
                        channel |-> new.channel, ordered |-> new.ordered]]
    BY <2>5 DEF QueueJob
  <2>7. i \in DOMAIN msgs' /\ \A m \in MsgId : m # i =>
           /\ m \in DOMAIN msgs' <=> m \in DOMAIN msgs
           /\ m \in DOMAIN msgs => msgs'[m] = msgs[m]
    BY <2>2 DEF AfterInsert
  <2>8. \A m \in MsgId : m # i => QueueStatus'[m] = QueueStatus[m]
    BY <2>5, <2>7 DEF QueueStatus
  <2>9. QueueStatus'[i] \in {"open", "waiting"} /\ QueueStatus[i] = "none"
    BY <2>3, <2>5, <2>7 DEF QueueStatus
  <2>10. QueueStatus' = [QueueStatus EXCEPT ![i] = QueueStatus'[i]]
    BY <2>8 DEF QueueStatus
  <2>11. QueueTaken' = QueueTaken
    BY <2>3 DEF QueueTaken
  <2>12. Queue!Spawn(i)
    BY <2>3, <2>6, <2>9, <2>10, <2>11 DEF Queue!Spawn
  <2>13. QED
    BY <2>12
<1>2. ASSUME NEW i \in Live, commit(i) PROVE \E m \in MsgId : Queue!Commit(m)
  <2>1. /\ msgs[i].commit_interval # Null /\ msgs' = AfterCommit(msgs, {i})
        /\ hist' = hist /\ births' = births /\ UNCHANGED <<batch, running, effects>>
    BY <1>2 DEF commit, mq_commit, history
  <2>2. i \in MsgId /\ i \in DOMAIN msgs /\ msgs[i] \in Row /\ hist[i].birth # 0
    BY DEF TypeOK, Live, ChainInv
  <2>3. DOMAIN msgs' = DOMAIN msgs /\ msgs'[i].commit_interval = Null
    BY <2>1, <2>2 DEF AfterCommit, Committed, Row
  <2>4. \A m \in DOMAIN msgs : m # i => msgs'[m] = msgs[m]
    BY <2>1 DEF AfterCommit
  <2>5. \A m \in MsgId : QueueStatus'[m] = IF m = i THEN "waiting" ELSE QueueStatus[m]
    BY <2>1, <2>2, <2>3, <2>4 DEF QueueStatus
  <2>6. QueueStatus' = [QueueStatus EXCEPT ![i] = "waiting"]
    BY <2>5 DEF QueueStatus
  <2>7. QueueStatus[i] = "open"
    BY <2>1, <2>2 DEF QueueStatus
  <2>8. UNCHANGED <<QueueJob, QueueTaken>>
    BY <2>1 DEF QueueJob, QueueTaken
  <2>9. QED
    BY <2>1, <2>2, <2>6, <2>7, <2>8 DEF Queue!Commit
<1>3. ASSUME NEW i \in Live, NEW duration \in Durations, ProducerKeepAlive(i, duration)
      PROVE  UNCHANGED Queue!qvars
  <2>1. /\ msgs' = AfterKeepAlive(msgs, {i}, now + duration) /\ hist' = hist
        /\ births' = births /\ UNCHANGED <<batch, running, effects>>
    BY <1>3 DEF ProducerKeepAlive, mq_keep_alive, history
  <2>2. now + duration \in Int
    BY StoreAssumption DEF TypeOK
  <2>3. \A m \in MsgId : SameJob(m) /\ SameRow(m)
    BY <2>1, <2>2, KeptAliveSame DEF SameJob
  <2>4. UNCHANGED <<QueueJob, QueueStatus>>
    BY <2>3, SameQueue
  <2>5. UNCHANGED QueueTaken
    BY <2>1 DEF QueueTaken
  <2>6. QED
    BY <2>1, <2>4, <2>5 DEF Queue!qvars
<1>4. CASE Clear /\ UNCHANGED jobs
  <2>0. \A m \in DOMAIN msgs \cap MsgId : m # Nil /\ msgs[m].channel \in Channel
    BY TablesAssumption DEF TypeOK, Row
  <2> DEFINE Matches(S, C) == \A m \in DOMAIN msgs \cap MsgId :
                                 m \in S <=> msgs[m].channel \in C
  <2>1. PICK S, C :
           /\ msgs' = AfterDelete(msgs, S) /\ hist' = hist /\ births' = births
           /\ C \in SUBSET Channel /\ Matches(S, C)
    <3>1. CASE mq_clear_all
      <4>1. Matches({i \in DOMAIN msgs : i # Nil}, Channel)
        BY <2>0
      <4> HIDE DEF Matches
      <4>2. QED
        BY <3>1, <4>1 DEF mq_clear_all, history
    <3>2. CASE \E names \in ClearSets : mq_clear(names)
      <4>1. PICK names \in ClearSets : mq_clear(names)
        BY <3>2
      <4>2. Matches(Cleared(msgs, names), {c \in Channel : c[1] \in names})
        BY <2>0 DEF Cleared
      <4>3. msgs' = AfterDelete(msgs, Cleared(msgs, names)) /\ UNCHANGED history
        BY <4>1 DEF mq_clear
      <4>4. {c \in Channel : c[1] \in names} \in SUBSET Channel
        OBVIOUS
      <4> HIDE DEF Matches
      <4>5. QED
        BY <4>2, <4>3, <4>4 DEF history
    <3>3. QED
      BY <1>4, <3>1, <3>2 DEF Clear
  <2> DEFINE T == {m \in MsgId : Queue!Queued(m) /\ QueueJob[m].channel \in C}
  <2>2. \A m \in MsgId : Queue!Queued(m) <=> hist[m].birth # 0 /\ m \in DOMAIN msgs
    BY DEF Queue!Queued, QueueStatus
  <2>3. \A m \in MsgId \cap DOMAIN msgs :
           hist[m].birth # 0 /\ QueueJob[m].channel = msgs[m].channel
    BY TablesAssumption DEF QueueJob, OrderInv, ChainInv, Live
  <2>4. \A m \in MsgId \cap DOMAIN msgs : m \in T <=> m \in S
    BY <2>1, <2>2, <2>3
  <2>5. \A m \in MsgId \cap T : hist[m].birth # 0
    BY <2>2
  <2>6. msgs \in [DOMAIN msgs -> Row]
    BY DEF TypeOK
  <2>7. UNCHANGED <<effects, QueueJob, QueueTaken>>
    BY <1>4, <2>1 DEF jobs, QueueJob, QueueTaken
  <2>8. Queue!Leave(T)
    <3> HIDE DEF T
    <3>1. QED
      BY <2>1, <2>4, <2>5, <2>6, DeletedLeave
  <2>9. Queue!Clear(C)
    BY <2>1, <2>7, <2>8 DEF Queue!Clear
  <2>10. C \in SUBSET Channel
    BY <2>1
  <2>11. QED
    BY <2>9, <2>10
<1>5. QED
  BY <1>1, <1>2, <1>3, <1>4 DEF ProducerStep

(* A step of the library is a step of the queue, or one it does not see.   *)
LEMMA QueueStep == QueueInv /\ TypeOK' /\ [JobsNext]_jobsVars => [Queue!Next]_(Queue!qvars)
<1> SUFFICES ASSUME QueueInv, TypeOK', [JobsNext]_jobsVars
             PROVE  [Queue!Next]_(Queue!qvars)
  OBVIOUS
<1>1. ASSUME NEW r \in Runner, RunnerStep(r)
      PROVE  \/ \E T \in SUBSET MsgId : Queue!Take(T) \/ Queue!Discard(T) \/ Queue!LetGo(T)
             \/ UNCHANGED Queue!qvars
  BY <1>1, PollTakes, RunnerServes DEF RunnerStep
<1>2. CASE \E d \in running : JobStep(d)
  BY <1>2, JobServes DEF Queue!Next
<1>3. CASE ProducerStep
  BY <1>3, ProducerServes DEF Queue!Next
<1>4. CASE \/ JobsTick \/ UNCHANGED jobsVars
           \/ \E name \in ChannelName : Receive(name) /\ UNCHANGED jobs
  BY <1>4 DEF JobsTick, Tick, Receive, tables, history, jobs, jobsVars,
              Queue!qvars, QueueJob, QueueStatus, QueueTaken
<1>5. QED
  BY <1>1, <1>2, <1>3, <1>4 DEF JobsNext, Queue!Next

(* The library is one queue: when leases are kept and commits come in      *)
(* time, no schedule, retry or crash of any number of runners lets a       *)
(* worker see anything but a queue of jobs taken once at a time, in the    *)
(* order of their channel, and completed once; clearing included.          *)
THEOREM QueueImplemented ==
    LeasesKept /\ PromptProducers => (JobsSpec => ImplementsQueue)
<1> SUFFICES ASSUME LeasesKept, PromptProducers PROVE JobsSpec => ImplementsQueue
  OBVIOUS
<1>1. JobsInit => OrderInv /\ Queue!Init
  <2>1. JobsInit => OrderInv
    BY DEF JobsInit, Init, Live, Polled, Unborn, OrderInv
  <2>2. JobsInit => /\ births = 0 /\ effects = [m \in MsgId |-> 0]
                    /\ hist = [m \in MsgId |-> Unborn] /\ QueueTaken = {}
    BY DEF JobsInit, Init, QueueTaken, NoBatch
  <2>3. ASSUME hist = [m \in MsgId |-> Unborn]
        PROVE  /\ QueueJob \in [MsgId -> Queue!Job]
               /\ \A m \in MsgId : QueueJob[m].birth = 0
               /\ QueueStatus = [m \in MsgId |-> "none"]
    BY <2>3, TablesAssumption DEF QueueJob, QueueStatus, Unborn, Queue!Job
  <2>4. QED
    BY <2>1, <2>2, <2>3 DEF Queue!Init
<1>2. JobsInv' => TypeOK'
  BY DEF JobsInv, IInv
<1>3. JobsSpec => []CommitIsFinal
  BY CommitsAreFinal
<1>4. QED
  BY <1>1, <1>2, <1>3, QueueStep, CommittedInit, CommittedStep, LeaseStep, UniqueStep,
     OnceInit, OrderStep, JobsInvInit, JobsInvStep, PTL
     DEF JobsSpec, ImplementsQueue, Queue!Spec, QueueInv
=============================================================================
