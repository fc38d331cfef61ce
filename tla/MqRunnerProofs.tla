--------------------------- MODULE MqRunnerProofs ---------------------------
(* Theorems of MqRunner, for every value of its constants.                 *)
EXTENDS MqRunner, FiniteSetTheorems, WellFoundedInduction, TLAPS

(* A nonempty set of naturals has a least element: the wait of a poll that *)
(* found nothing.                                                          *)
LEMMA LeastTime ==
    ASSUME NEW T \in SUBSET Nat, T # {}
    PROVE  \E t \in T : \A u \in T : t <= u
<1>1. PICK t \in T : \A u \in T : ~ (<<u, t>> \in OpToRel(<, Nat))
  BY WFMin, NatLessThanWellFounded
<1>2. \A u \in T : ~ (u < t)
  BY <1>1 DEF OpToRel
<1>3. QED
  BY <1>2

(* The wait time is at most the time of any message.                       *)
LEMMA WaitTimeIsLeast ==
    ASSUME RunnerTypeOK
    PROVE  /\ WaitTime \in Nat
           /\ \A m \in Msg : due[m] # Null => WaitTime <= due[m]
           /\ Claimable = {} /\ MaxWait > 0 => WaitTime > 0
<1> DEFINE times == {due[m] : m \in {n \in Msg : due[n] # Null}}
<1>1. times \in SUBSET Nat
  BY DEF RunnerTypeOK
<1>2. CASE times = {}
  BY <1>2, RunnerAssumption DEF WaitTime
<1>3. CASE times # {}
  <2>1. WaitTime \in times /\ \A u \in times : WaitTime <= u
    <3>1. \E t \in times : \A u \in times : t <= u
      BY <1>1, <1>3, LeastTime
    <3>2. WaitTime = CHOOSE t \in times : \A u \in times : t <= u
      BY <1>3 DEF WaitTime
    <3>3. QED
      BY <3>1, <3>2
  <2>2. PICK m \in Msg : due[m] = WaitTime /\ due[m] # Null
    BY <2>1
  <2>3. Claimable = {} => due[m] # 0
    BY DEF Claimable
  <2>4. QED
    BY <1>1, <2>1, <2>2, <2>3
<1>4. QED
  BY <1>2, <1>3

(* A claim leaves the times of all messages well typed.                    *)
LEMMA ClaimTyped ==
    ASSUME RunnerTypeOK, NEW S \in SUBSET Msg, Claim(S)
    PROVE  due' \in [Msg -> Nat \cup {Null}]
<1>1. PICK lease \in [S -> Delays \cup {Null}] :
          due' = [m \in Msg |-> IF m \in S THEN lease[m] ELSE due[m]]
  BY DEF Claim
<1>2. QED
  BY <1>1, RunnerAssumption DEF RunnerTypeOK

(* So does a delete, and it keeps to the messages there are.               *)
LEMMA RemoveTyped ==
    ASSUME RunnerTypeOK, NEW S \in SUBSET Msg, Remove(S)
    PROVE  /\ due' \in [Msg -> Nat \cup {Null}]
           /\ uncommitted' \subseteq Msg
           /\ notices' \subseteq Msg
BY DEF Remove, RunnerTypeOK

(* A lost answer leaves the queue well typed.                              *)
LEMMA QueryLostTyped ==
    ASSUME RunnerTypeOK, QueryLost
    PROVE  /\ due' \in [Msg -> Nat \cup {Null}]
           /\ uncommitted' \subseteq Msg
           /\ notices' \subseteq Msg
           /\ untold' \subseteq Msg
           /\ raced' \subseteq Msg
<1>1. CASE UNCHANGED <<due, uncommitted, notices>>
  BY <1>1 DEF QueryLost, RunnerTypeOK
<1>2. CASE Claim(found \cap Claimable) /\ UNCHANGED <<uncommitted, notices>>
  BY <1>2, ClaimTyped DEF QueryLost, Claimable, RunnerTypeOK
<1>3. CASE Remove(expired)
  BY <1>3, RemoveTyped DEF QueryLost, RunnerTypeOK
<1>4. QED
  BY <1>1, <1>2, <1>3 DEF QueryLost, RunnerTypeOK

(* How many messages of a batch are dispatched: no more than were chosen.  *)
LEMMA BatchSize ==
    ASSUME RunnerTypeOK
    PROVE  LET T == (found \cap Claimable) \ uncommitted
           IN  Cardinality(T) \in Nat /\ Cardinality(T) <= Cardinality(found)
<1> DEFINE T == (found \cap Claimable) \ uncommitted
<1>1. IsFiniteSet(found)
  BY FS_Subset, RunnerAssumption DEF RunnerTypeOK
<1>2. /\ IsFiniteSet(T)
      /\ Cardinality(T) <= Cardinality(found)
  BY <1>1, FS_Subset
<1>3. Cardinality(T) \in Nat
  BY <1>2, FS_CardinalityType
<1>4. QED
  BY <1>2, <1>3

(* What the subquery chooses, it chooses of the messages.                  *)
LEMMA SelectTyped ==
    ASSUME RunnerTypeOK, Select
    PROVE  /\ found' \subseteq Msg
           /\ Cardinality(found') <= batch
BY DEF Select, Claimable

-----------------------------------------------------------------------------
(* running_jobs counts the handles and the one about to be given; what a   *)
(* round asked for or still has to dispatch fits beside them; and what is  *)
(* left over from a round is gone when it ends.                            *)
CountInv ==
    /\ pc # "start" => running = handles
    /\ pc = "start" => running = handles + 1
    /\ handles + todo + batch <= MaxConcurrency
    /\ pc = "start" => todo > 0
    /\ pc \notin {"discard", "dispatch", "start"} => todo = 0
    /\ pc \notin {"poll", "update", "earliest"} => batch = 0
    /\ pc = "update" => Cardinality(found) <= batch
    /\ handle = "stopped" => pc \in Ended

RunnerInv == RunnerTypeOK /\ CountInv

(* Nothing is counted and nothing runs at first.                           *)
LEMMA CountInit == Init => RunnerInv
<1> SUFFICES ASSUME Init PROVE RunnerInv
  OBVIOUS
<1> USE DEF Init
<1>1. due \in [Msg -> Nat \cup {Null}]
  BY RunnerAssumption
<1>2. RunnerTypeOK
  <2>1. batch \in 0..MaxConcurrency
    BY RunnerAssumption
  <2>2. pc \in Steps \cup Ended
    BY DEF Steps
  <2>3. QED
    BY <1>1, <2>1, <2>2 DEF RunnerTypeOK
<1>3. CountInv
  BY RunnerAssumption DEF CountInv, Ended
<1>4. QED
  BY <1>2, <1>3 DEF RunnerInv

(* The loop's steps keep types and counts.                                 *)
LEMMA LoopCounts ==
    ASSUME RunnerInv, Loop
    PROVE  RunnerInv'
<1> USE DEF RunnerInv, RunnerTypeOK, CountInv, Steps, Ended
<1> USE RunnerAssumption
<1>1. CASE Check
  BY <1>1 DEF Check, shared, owner, queue
<1>2. CASE mq_poll
  <2>1. CASE Select
    BY <2>1, SelectTyped DEF Select, shared, owner
  <2>2. CASE Polled
    <3>1. due' \in [Msg -> Nat \cup {Null}]
      BY <2>2, ClaimTyped DEF Polled, Claimable
    <3>2. todo' \in Nat /\ todo' <= Cardinality(found) /\ Cardinality(found) <= batch
      BY <2>2, BatchSize DEF Polled
    <3>3. expired' \subseteq Msg
      BY <2>2 DEF Polled
    <3>4. handles' + todo' + batch' <= MaxConcurrency
      <4>1. todo' <= batch
        <5>1. Cardinality(found) \in Nat
          BY FS_Subset, FS_CardinalityType
        <5>2. QED
          BY <3>2, <5>1
      <4>2. QED
        BY <2>2, <3>2, <4>1 DEF Polled, shared
    <3>5. QED
      BY <2>2, <3>1, <3>2, <3>3, <3>4 DEF Polled, shared, owner
  <2>3. CASE NotFound
    BY <2>3 DEF NotFound, shared, owner, queue
  <2>4. CASE PolledNothing
    BY <2>4, WaitTimeIsLeast DEF PolledNothing, shared, owner
  <2>5. QED
    BY <1>2, <2>1, <2>2, <2>3, <2>4 DEF mq_poll
<1>4. CASE Discarded
  <2>1. /\ due' \in [Msg -> Nat \cup {Null}]
        /\ uncommitted' \subseteq Msg
        /\ notices' \subseteq Msg
    BY <1>4, RemoveTyped DEF Discarded
  <2>2. QED
    BY <1>4, <2>1 DEF Discarded, shared, owner
<1>5. CASE QueryFails
  <2>1. /\ due' \in [Msg -> Nat \cup {Null}]
        /\ uncommitted' \subseteq Msg
        /\ notices' \subseteq Msg
        /\ untold' \subseteq Msg
        /\ raced' \subseteq Msg
    BY <1>5, QueryLostTyped DEF QueryFails
  <2>2. failures' \in Nat /\ alarm' \in Nat /\ pc' \in {"sleep", "panicked"}
        /\ listener' \in {"receive", "connect", "pause", "off"}
    <3>1. failures' \in Nat
      BY <1>5 DEF QueryFails
    <3>2. CASE OverflowChecks /\ failures' >= ShiftWidth
      BY <1>5, <3>1, <3>2 DEF QueryFails
    <3>3. CASE ~ (OverflowChecks /\ failures' >= ShiftWidth)
      BY <1>5, <3>1, <3>3 DEF QueryFails
    <3>4. QED
      BY <3>1, <3>2, <3>3
  <2>3. QED
    BY <1>5, <2>1, <2>2 DEF QueryFails, shared, owner
<1>6. CASE DispatchNext
  BY <1>6 DEF DispatchNext, owner, queue
<1>7. CASE DispatchDone \/ Wake \/ Timeout
  BY <1>7 DEF DispatchDone, Wake, Timeout, shared, owner, queue
<1>8. QED
  BY <1>1, <1>2, <1>4, <1>5, <1>6, <1>7 DEF Loop

(* So do those of jobs, listener and owner.                                *)
LEMMA TaskCounts ==
    ASSUME RunnerInv, Job \/ Listener \/ Owner
    PROVE  RunnerInv'
<1> USE DEF RunnerInv, RunnerTypeOK, CountInv, Steps, Ended
<1> USE RunnerAssumption
<1>1. CASE Job
  <2>1. CASE JobEnds
    <3>1. /\ handles' \in Nat /\ running' \in Nat /\ falling' \in Nat
          /\ handles' = handles - 1 /\ running' = running - 1
      BY <2>1 DEF JobEnds
    <3>2. UNCHANGED <<loop, permit, listener, owner, queue>>
      BY <2>1 DEF JobEnds
    <3>3. QED
      BY <3>1, <3>2 DEF loop, owner, queue
  <2>2. CASE DropNotifies
    BY <2>2 DEF DropNotifies, loop, owner, queue
  <2>3. QED
    BY <1>1, <2>1, <2>2 DEF Job
<1>2. CASE Listener
  <2>1. ASSUME NEW m \in Msg, Receive(m) PROVE RunnerInv'
    BY <2>1 DEF Receive, loop, owner
  <2>2. CASE Disconnect \/ ListenerFails
    <3>1. untold' \subseteq Msg /\ notices' \subseteq Msg
      BY <2>2 DEF Disconnect, ListenerFails
    <3>2. listener' \in {"receive", "connect", "pause", "off"}
      BY <2>2 DEF Disconnect, ListenerFails
    <3>3. UNCHANGED <<loop, shared, owner, due, uncommitted, raced>>
      BY <2>2 DEF Disconnect, ListenerFails
    <3>4. QED
      BY <3>1, <3>2, <3>3 DEF loop, shared, owner
  <2>3. CASE Connect
    BY <2>3 DEF Connect, loop, shared, owner, queue
  <2>4. CASE ListenerResumes
    BY <2>4 DEF ListenerResumes, loop, owner, queue
  <2>5. QED
    BY <1>2, <2>1, <2>2, <2>3, <2>4 DEF Listener
<1>3. CASE Cancel
  <2>1. /\ due' \in [Msg -> Nat \cup {Null}]
        /\ uncommitted' \subseteq Msg
        /\ notices' \subseteq Msg
        /\ untold' \subseteq Msg
        /\ raced' \subseteq Msg
    BY <1>3, QueryLostTyped DEF Cancel
  <2>2. /\ pc' = "stopped" /\ listener' = "off" /\ batch' = 0 /\ todo' = 0
        /\ expired' = {} /\ found' = {}
        /\ UNCHANGED <<alarm, failures, running, handles, falling, permit, handle, aborted>>
        /\ pc # "start"
    BY <1>3 DEF Cancel, shared, owner
  <2>3. RunnerTypeOK'
    BY <2>1, <2>2
  <2>4. CountInv'
    BY <2>2
  <2>5. QED
    BY <2>3, <2>4
<1>4. CASE Stop \/ StopReturns \/ DropHandle
  BY <1>4 DEF Stop, StopReturns, DropHandle, loop, shared, queue
<1> HIDE DEF RunnerInv
<1>5. QED
  BY <1>1, <1>2, <1>3, <1>4 DEF Owner

(* And what others do to the messages, and time.                           *)
LEMMA OthersCounts ==
    ASSUME RunnerInv, Others \/ Tick \/ UNCHANGED vars
    PROVE  RunnerInv'
<1> USE DEF RunnerInv, RunnerTypeOK, CountInv, Steps, Ended
<1> USE RunnerAssumption
<1>1. ASSUME NEW m \in Msg, Commit(m) PROVE RunnerInv'
  <2>1. PICK time \in 0..due[m] : due' = [due EXCEPT ![m] = time]
    BY <1>1 DEF Commit
  <2>2. due[m] \in Nat /\ time \in Nat
    BY <1>1 DEF Commit
  <2>3. QED
    BY <1>1, <2>1, <2>2 DEF Commit, Race, loop, shared, owner
<1>2. ASSUME NEW m \in Msg, Delete(m) PROVE RunnerInv'
  <2>1. /\ due' \in [Msg -> Nat \cup {Null}]
        /\ uncommitted' \subseteq Msg
        /\ notices' \subseteq Msg
    BY <1>2, RemoveTyped DEF Delete
  <2>2. QED
    BY <1>2, <2>1 DEF Delete, Race, loop, shared, owner
<1>3. ASSUME NEW m \in Msg, NEW delay \in Delays, Announce(m, delay) \/ Revive(m, delay)
      PROVE  RunnerInv'
  BY <1>3 DEF Announce, Revive, Race, loop, shared, owner
<1>4. ASSUME NEW m \in Msg, NEW delay \in Delays \cup {Null}, Postpone(m, delay)
      PROVE  RunnerInv'
  BY <1>4 DEF Postpone, Race, loop, shared, owner
<1>5. CASE Tick
  BY <1>5 DEF Tick, Earlier, shared, owner
<1>6. CASE UNCHANGED vars
  BY <1>6 DEF vars
<1>7. QED
  BY <1>1, <1>2, <1>3, <1>4, <1>5, <1>6 DEF Others

(* One step for each action: the counter goes with the handles.            *)
LEMMA CountStep == RunnerInv /\ [Next]_vars => RunnerInv'
BY LoopCounts, TaskCounts, OthersCounts DEF Next

(* Types and counts hold throughout.                                       *)
LEMMA Counted == Spec => []RunnerInv
BY CountInit, CountStep, PTL DEF Spec

(* Every state has its types; running_jobs and the batch size, which are   *)
(* unsigned in the code, never fall below zero.                            *)
THEOREM RunnerTypesCorrect == Spec => []RunnerTypeOK
<1>1. RunnerInv => RunnerTypeOK
  BY DEF RunnerInv
<1>2. QED
  BY <1>1, Counted, PTL

(* Never are there more jobs than the maximum, whatever minimum and        *)
(* maximum are, and however jobs end while the runner polls.               *)
THEOREM ConcurrencyBounded == Spec => []ConcurrencyBound
<1>1. RunnerInv => ConcurrencyBound
  BY RunnerAssumption DEF RunnerInv, RunnerTypeOK, CountInv, ConcurrencyBound
<1>2. QED
  BY <1>1, Counted, PTL

(* Once stop() has returned no job starts.                                 *)
THEOREM StoppingIsFinal == Spec => StopIsFinal
<1>1. RunnerInv /\ [Next]_vars => [handle = "stopped" => handles' <= handles]_vars
  <2> SUFFICES ASSUME RunnerInv, Next, handle = "stopped"
               PROVE  handles' <= handles
    BY DEF vars
  <2>1. pc \in Ended /\ handles \in Nat
    BY DEF RunnerInv, CountInv, RunnerTypeOK
  <2>2. CASE Loop
    BY <2>1, <2>2 DEF Loop, Check, mq_poll, Select, Polled, NotFound, PolledNothing,
                      Discarded, QueryFails, DispatchNext, DispatchDone, Wake, Timeout, Ended
  <2>3. CASE Job \/ Listener \/ Owner \/ Tick
    BY <2>1, <2>3 DEF Job, JobEnds, DropNotifies, Listener, Receive, Disconnect,
                      Connect, ListenerFails, ListenerResumes, Owner, Cancel, Stop,
                      StopReturns, DropHandle, Tick, shared
  <2>4. CASE Others
    BY <2>1, <2>4 DEF Others, Commit, Delete, Announce, Revive, Postpone, shared
  <2>5. QED
    BY <2>2, <2>3, <2>4 DEF Next
<1>2. QED
  BY <1>1, Counted, PTL DEF Spec, StopIsFinal

-----------------------------------------------------------------------------
(* Sleep and wake-ups.                                                     *)

(* NoOversleep with what makes it inductive: a notification on its way     *)
(* excuses only the messages it tells of.                                  *)
WakeInv ==
    /\ pc \in {"discard", "dispatch", "start"} => alarm = 0
    /\ listener = "off" => pc \in Ended
    /\ /\ pc = "sleep" /\ failures = 0 /\ running < MinConcurrency
       /\ ~ permit /\ falling = 0 /\ listener # "pause"
       => \A m \in Msg \ (untold \cup notices) : due[m] # Null => alarm <= due[m]

(* Nobody has been told of anything, and there is nothing to tell.         *)
LEMMA WakeInit == Init => WakeInv
BY DEF Init, WakeInv

(* A loop that goes to sleep wanting jobs does so after a poll that found  *)
(* nothing and set the alarm, or with an alarm of zero.                    *)
LEMMA LoopWakes ==
    ASSUME RunnerInv, WakeInv, Loop
    PROVE  WakeInv'
<1> USE DEF WakeInv, Ended
<1>1. CASE Check
  BY <1>1, RunnerAssumption
     DEF Check, shared, owner, queue, RunnerInv, RunnerTypeOK
<1>2. CASE Select \/ Polled \/ NotFound
  BY <1>2 DEF Select, Polled, NotFound, shared, owner, queue
<1>3. CASE PolledNothing
  <2>1. \A m \in Msg : due'[m] # Null => alarm' <= due'[m]
    BY <1>3, WaitTimeIsLeast DEF PolledNothing, RunnerInv
  <2>2. QED
    BY <1>3, <2>1 DEF PolledNothing, shared, owner
<1>4. CASE Discarded
  BY <1>4 DEF Discarded, shared, owner
<1>5. CASE QueryFails
  <2>1. failures' # 0
    BY <1>5, RunnerAssumption DEF QueryFails, RunnerInv, RunnerTypeOK
  <2>2. pc' \in {"sleep", "panicked"} /\ listener' = "off" => pc' = "panicked" \/ listener = "off"
    BY <1>5 DEF QueryFails
  <2>3. pc' \in {"sleep", "panicked"} /\ pc \notin Ended
    BY <1>5 DEF QueryFails
  <2>4. QED
    BY <2>1, <2>2, <2>3
<1>6. CASE DispatchNext
  BY <1>6 DEF DispatchNext, owner, queue
<1>7. CASE DispatchDone
  <2>1. \A m \in Msg : due'[m] # Null => alarm' <= due'[m]
    BY <1>7 DEF DispatchDone, queue, RunnerInv, RunnerTypeOK
  <2>2. QED
    BY <1>7, <2>1 DEF DispatchDone, shared, owner, queue
<1>8. CASE Wake \/ Timeout
  BY <1>8 DEF Wake, Timeout, shared, owner, queue
<1>9. QED
  BY <1>1, <1>2, <1>3, <1>4, <1>5, <1>6, <1>7, <1>8 DEF Loop, mq_poll

(* A drop that makes the runner want jobs is on its way to the permit; a   *)
(* notification is received, or lost with the messages it tells of.        *)
LEMMA TasksWake ==
    ASSUME RunnerInv, WakeInv, Job \/ Listener \/ Owner
    PROVE  WakeInv'
<1> USE DEF WakeInv, Ended
<1>1. CASE JobEnds
  <2>1. running = MinConcurrency => falling' # 0
    BY <1>1 DEF JobEnds, RunnerInv, RunnerTypeOK
  <2>2. falling' = 0 => falling = 0
    BY <1>1 DEF JobEnds, RunnerInv, RunnerTypeOK
  <2>3. running' < MinConcurrency => running <= MinConcurrency
    BY <1>1, RunnerAssumption DEF JobEnds, RunnerInv, RunnerTypeOK
  <2>4. running' < MinConcurrency /\ falling' = 0 => running < MinConcurrency
    BY <2>1, <2>3, RunnerAssumption DEF RunnerInv, RunnerTypeOK
  <2>5. UNCHANGED <<loop, permit, listener, queue>>
    BY <1>1 DEF JobEnds
  <2>6. QED
    BY <2>2, <2>4, <2>5 DEF loop, queue
<1>2. CASE DropNotifies
  BY <1>2 DEF DropNotifies, loop
<1>3. ASSUME NEW m \in Msg, Receive(m) PROVE WakeInv'
  BY <1>3 DEF Receive, loop
<1>4. CASE Disconnect
  BY <1>4 DEF Disconnect, loop, shared
<1>5. CASE Connect
  BY <1>5 DEF Connect, loop, shared, queue
<1>6. CASE ListenerFails
  BY <1>6 DEF ListenerFails, loop
<1>7. CASE ListenerResumes
  BY <1>7 DEF ListenerResumes, loop
<1>8. CASE Cancel
  BY <1>8 DEF Cancel
<1>9. CASE Stop \/ StopReturns \/ DropHandle
  BY <1>9 DEF Stop, StopReturns, DropHandle, loop, shared, queue
<1> HIDE DEF WakeInv
<1>10. QED
  BY <1>1, <1>2, <1>3, <1>4, <1>5, <1>6, <1>7, <1>8, <1>9 DEF Job, Listener, Owner

(* A message comes forward with a notification or is untold.               *)
LEMMA OthersWake ==
    ASSUME RunnerInv, WakeInv, Others \/ Tick \/ UNCHANGED vars
    PROVE  WakeInv'
<1> USE DEF WakeInv, Ended
<1>1. ASSUME NEW m \in Msg, Commit(m) PROVE WakeInv'
  BY <1>1 DEF Commit, loop, shared, RunnerInv, RunnerTypeOK
<1>2. ASSUME NEW m \in Msg, Delete(m) PROVE WakeInv'
  <2>1. \A i \in Msg : due'[i] # Null => due'[i] = due[i] /\ i # m
    BY <1>2 DEF Delete, Remove
  <2>2. notices \subseteq notices' /\ untold' = untold \ {m}
    BY <1>2 DEF Delete, Remove
  <2>3. UNCHANGED <<loop, shared, listener>>
    BY <1>2 DEF Delete
  <2>4. QED
    BY <2>1, <2>2, <2>3 DEF loop, shared
<1>3. ASSUME NEW m \in Msg, NEW delay \in Delays, Announce(m, delay) PROVE WakeInv'
  <2>1. \A i \in Msg \ {m} : due'[i] = due[i]
    BY <1>3 DEF Announce
  <2>2. \/ m \in notices' \cup untold'
        \/ listener \in {"pause", "off"}
    BY <1>3 DEF Announce, RunnerInv, RunnerTypeOK
  <2>3. notices \subseteq notices' /\ untold \subseteq untold' \cup {m}
    BY <1>3 DEF Announce
  <2>4. UNCHANGED <<loop, shared, listener>>
    BY <1>3 DEF Announce
  <2>5. QED
    BY <2>1, <2>2, <2>3, <2>4 DEF loop, shared
<1>4. ASSUME NEW m \in Msg, NEW delay \in Delays, Revive(m, delay) PROVE WakeInv'
  BY <1>4 DEF Revive, loop, shared, RunnerInv, RunnerTypeOK
<1>5. ASSUME NEW m \in Msg, NEW delay \in Delays \cup {Null}, Postpone(m, delay)
      PROVE  WakeInv'
  <2>1. \A i \in Msg : due'[i] # Null => due[i] # Null /\ due[i] <= due'[i]
    BY <1>5, RunnerAssumption DEF Postpone, RunnerInv, RunnerTypeOK
  <2>2. UNCHANGED <<loop, shared, listener, notices, untold>>
    BY <1>5 DEF Postpone
  <2>3. due \in [Msg -> Nat \cup {Null}] /\ due' \in [Msg -> Nat \cup {Null}] /\ alarm \in Nat
    BY <1>5, RunnerAssumption DEF Postpone, RunnerInv, RunnerTypeOK
  <2>4. QED
    BY <2>1, <2>2, <2>3 DEF loop, shared
<1>6. CASE Tick
  <2>1. \A i \in Msg : due'[i] # Null =>
           due[i] # Null /\ (alarm <= due[i] => alarm' <= due'[i])
    BY <1>6, RunnerAssumption DEF Tick, Earlier, RunnerInv, RunnerTypeOK
  <2>2. alarm = 0 => alarm' = 0
    BY <1>6 DEF Tick, Earlier
  <2>3. QED
    BY <1>6, <2>1, <2>2 DEF Tick, shared
<1>7. CASE UNCHANGED vars
  BY <1>7 DEF vars
<1> HIDE DEF WakeInv
<1>8. QED
  BY <1>1, <1>2, <1>3, <1>4, <1>5, <1>6, <1>7 DEF Others

(* A runner that wants jobs does not sleep past the time of a message that *)
(* somebody was to be told of.                                             *)
THEOREM NoLostWakeup == Spec => []NoOversleep
<1>1. RunnerInv /\ WakeInv /\ [Next]_vars => WakeInv'
  BY LoopWakes, TasksWake, OthersWake DEF Next
<1>2. WakeInv => NoOversleep
  BY DEF WakeInv, NoOversleep
<1>3. QED
  BY <1>1, <1>2, WakeInit, Counted, PTL DEF Spec

-----------------------------------------------------------------------------
(* The wait after an empty poll.                                           *)

(* The batch size of a poll under way, and what the rows chosen, the due   *)
(* and the raced have to do with each other: a row that was chosen and is  *)
(* no longer due was raced, and if none was chosen a row that is due was.  *)
BusyInv ==
    /\ pc \in {"poll", "update", "earliest"} => batch > 0
    /\ pc \in Executed =>
          /\ \A m \in found : m \in raced \/ due[m] = 0
          /\ found = {} => \A m \in Msg : due[m] = 0 => m \in raced
    /\ pc = "earliest" => found \subseteq raced

(* No poll is under way at first.                                          *)
LEMMA BusyInit == Init => BusyInv
BY DEF Init, BusyInv, Executed

(* The loop asks for at least one message when the minimum is no more than *)
(* the maximum, and so chooses one if there is one.                        *)
LEMMA LoopAsks ==
    ASSUME MinConcurrency <= MaxConcurrency, RunnerInv, BusyInv, Loop
    PROVE  BusyInv'
<1> USE DEF BusyInv, Executed
<1>1. CASE Check
  <2>1. running < MinConcurrency => MaxConcurrency - running > 0
    BY RunnerAssumption DEF RunnerInv, RunnerTypeOK
  <2>2. QED
    BY <1>1, <2>1 DEF Check
<1>2. CASE Select
  <2>1. found' = {} => Claimable = {}
    <3>1. Cardinality({}) = 0
      BY FS_EmptySet
    <3>2. batch # 0
      BY <1>2 DEF Select, RunnerInv, RunnerTypeOK
    <3>3. QED
      BY <1>2, <3>1, <3>2 DEF Select
  <2>2. QED
    BY <1>2, <2>1 DEF Select, Claimable
<1>3. CASE NotFound
  <2>1. found \subseteq raced
    BY <1>3 DEF NotFound, Claimable, RunnerInv, RunnerTypeOK
  <2>2. QED
    BY <1>3, <2>1 DEF NotFound, queue
<1>4. CASE Polled \/ PolledNothing \/ Discarded \/ QueryFails
  BY <1>4 DEF Polled, PolledNothing, Discarded, QueryFails
<1>5. CASE DispatchNext \/ DispatchDone \/ Wake \/ Timeout
  BY <1>5 DEF DispatchNext, DispatchDone, Wake, Timeout
<1>6. QED
  BY <1>1, <1>2, <1>3, <1>4, <1>5 DEF Loop, mq_poll

(* Nobody but the loop touches what it has chosen.                         *)
LEMMA TasksAsk ==
    ASSUME RunnerInv, BusyInv, Job \/ Listener \/ Owner \/ Tick \/ UNCHANGED vars
    PROVE  BusyInv'
<1> USE DEF BusyInv, Executed
<1>1. CASE Job \/ Listener
  BY <1>1 DEF Job, JobEnds, DropNotifies, Listener, Receive, Disconnect, Connect,
              ListenerFails, ListenerResumes, loop, queue
<1>2. CASE Owner
  BY <1>2 DEF Owner, Cancel, Stop, StopReturns, DropHandle, loop, queue
<1>3. CASE Tick \/ UNCHANGED vars
  BY <1>3 DEF Tick, vars
<1>4. QED
  BY <1>1, <1>2, <1>3

(* Others who change a message meanwhile race with the poll.               *)
LEMMA OthersRace ==
    ASSUME RunnerInv, BusyInv, Others
    PROVE  BusyInv'
<1>1. PICK m \in Msg : /\ UNCHANGED loop
                       /\ Race(m)
                       /\ \A i \in Msg \ {m} : due'[i] = due[i]
  <2>1. PICK m \in Msg : \/ Commit(m)
                         \/ Delete(m)
                         \/ \E delay \in Delays : Announce(m, delay) \/ Revive(m, delay)
                         \/ \E delay \in Delays \cup {Null} : Postpone(m, delay)
    BY DEF Others
  <2>2. CASE Commit(m)
    BY <2>2 DEF Commit, RunnerInv, RunnerTypeOK
  <2>3. CASE Delete(m)
    BY <2>3 DEF Delete, Remove
  <2>4. CASE ~ Commit(m) /\ ~ Delete(m)
    BY <2>1, <2>4 DEF Announce, Revive, Postpone, RunnerInv, RunnerTypeOK
  <2>5. QED
    BY <2>2, <2>3, <2>4
<1>2. pc \in Executed => raced' = raced \cup {m}
  BY <1>1 DEF Race
<1>3. found \subseteq Msg
  BY DEF RunnerInv, RunnerTypeOK
<1>4. QED
  BY <1>1, <1>2, <1>3 DEF BusyInv, Executed, loop

(* A poll without result is not repeated at once unless others got in its  *)
(* way - when the minimum is no more than the maximum, which nothing in    *)
(* the code makes sure of.                                                 *)
THEOREM NoBusyLoop ==
    ASSUME MinConcurrency <= MaxConcurrency, MaxWait > 0
    PROVE  Spec => NoBusyPolling
<1>1. RunnerInv /\ BusyInv /\ [Next]_vars => BusyInv'
  BY LoopAsks, TasksAsk, OthersRace DEF Next
<1>2. RunnerInv /\ BusyInv /\ [Next]_vars =>
         [pc = "earliest" /\ pc' = "sleep" /\ failures' = 0 /\ alarm' = 0
          => \/ found # {} /\ found \subseteq raced
             \/ \E m \in raced : due[m] = 0]_vars
  <2> SUFFICES ASSUME RunnerInv, BusyInv, Next,
                      pc = "earliest", pc' = "sleep", failures' = 0, alarm' = 0
               PROVE  \/ found # {} /\ found \subseteq raced
                      \/ \E m \in raced : due[m] = 0
    BY DEF vars
  <2>1. CASE PolledNothing
    <3>1. Claimable # {}
      BY <2>1, WaitTimeIsLeast DEF PolledNothing, RunnerInv
    <3>2. QED
      BY <3>1 DEF Claimable, BusyInv, Executed
  <2>2. CASE QueryFails
    BY <2>2, RunnerAssumption DEF QueryFails, RunnerInv, RunnerTypeOK
  <2>3. CASE ~ PolledNothing /\ ~ QueryFails
    BY <2>3 DEF Next, Loop, mq_poll, Select, Polled, NotFound, Check, Discarded,
         DispatchNext, DispatchDone, Wake, Timeout, Job, JobEnds, DropNotifies,
         Listener, Receive, Disconnect, Connect, ListenerFails, ListenerResumes,
         Owner, Cancel, Stop, StopReturns, DropHandle, Others, Commit, Delete,
         Announce, Revive, Postpone, Tick, loop
  <2>4. QED
    BY <2>1, <2>2, <2>3
<1>3. QED
  BY <1>1, <1>2, BusyInit, Counted, PTL DEF Spec, NoBusyPolling
=============================================================================
