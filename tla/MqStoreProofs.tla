---------------------------- MODULE MqStoreProofs ---------------------------
(* Theorems of MqStore, for every value of its constants.                  *)
EXTENDS MqStore, MqTablesProofs, WellFoundedInduction

-----------------------------------------------------------------------------
(* The migrations create well-typed tables, and every call keeps the types. *)
LEMMA TypeInit == Init => TypeOK
  BY TablesAssumption, StoreAssumption
     DEF Init, TypeOK, NilRow, Row, Unborn, History

(* Each procedure's effect on the tables and the histories.                *)
LEMMA TypeStep == TypeOK /\ [Next]_vars => TypeOK'
<1> USE StoreAssumption
<1> SUFFICES ASSUME TypeOK, [Next]_vars PROVE TypeOK'
  OBVIOUS
<1> USE DEF TypeOK
<1>0. Table(msgs)
  BY DEF Table
<1>1. ASSUME Spawn PROVE TypeOK'
  <2>1. PICK m \in MsgId, new \in NewJobs, lag \in Lags :
           mq_insert(m, new, now - lag)
    BY <1>1 DEF Spawn
  <2>2. new \in NewJob /\ now - lag \in Int
    OBVIOUS
  <2>3. Table(msgs')
    <3>1. mq_latest_message(msgs, new.channel) \subseteq MsgId \cup {Nil, Null}
      BY DEF mq_latest_message, Tails
    <3>2. QED
      BY <1>0, <2>1, <2>2, <3>1, InsertTypes DEF mq_insert
  <2>4. new.payload \in Payload /\ new.channel[1] \in ChannelName
    BY <2>2 DEF NewJob, Channel
  <2>5. payloads' \in [DOMAIN payloads' -> Payload]
    BY <2>1, <2>4 DEF mq_insert
  <2>6. [birth |-> births + 1, channel |-> new.channel, ordered |-> new.ordered,
         due |-> (now - lag) + new.delay, granted |-> new.retries + 1,
         polls |-> 0] \in History
    BY <2>2 DEF History, NewJob
  <2>7. hist' \in [MsgId -> History]
    BY <2>1, <2>6 DEF mq_insert
  <2>8. QED
    BY <2>1, <2>3, <2>4, <2>5, <2>7 DEF mq_insert, Table
<1>2. ASSUME Poll PROVE TypeOK'
  <2>1. PICK names \in Subscriptions, limit \in BatchSizes :
           \E S \in SUBSET Ready(msgs, now, names) : mq_poll(names, limit, S)
    BY <1>2 DEF Poll
  <2>2. PICK S : mq_poll(names, limit, S)
    BY <2>1
  <2>3. Table(msgs')
    <3>1. now \in Int
      OBVIOUS
    <3>2. QED
      BY <3>1, <1>0, <2>2, TableTypes DEF mq_poll
  <2>4. \A m \in MsgId : [hist[m] EXCEPT !.polls = @ + 1] \in History
    BY DEF History
  <2>5. hist' \in [MsgId -> History]
    BY <2>2, <2>4 DEF mq_poll
  <2>6. QED
    BY <2>2, <2>3, <2>5 DEF mq_poll, Table
<1>3. ASSUME Commit PROVE TypeOK'
  <2>1. PICK m : mq_commit({m})
    BY <1>3 DEF Commit
  <2>2. Table(msgs')
    BY <1>0, <2>1, TableTypes DEF mq_commit
  <2>3. QED
    BY <2>1, <2>2 DEF mq_commit, Table, history
<1>4. ASSUME KeepAlive PROVE TypeOK'
  <2>1. PICK m \in Live, d \in Durations : mq_keep_alive({m}, d)
    BY <1>4 DEF KeepAlive
  <2>2. now + d \in Int
    OBVIOUS
  <2>3. Table(msgs')
    BY <1>0, <2>1, <2>2, TableTypes DEF mq_keep_alive
  <2>4. QED
    BY <2>1, <2>3 DEF mq_keep_alive, Table, history
<1>5. ASSUME Checkpoint PROVE TypeOK'
  <2>1. PICK m \in Polled, c \in Checkpoints : mq_checkpoint(m, c)
    BY <1>5 DEF Checkpoint
  <2>2. /\ c.duration \in Nat /\ c.extra_retries \in Nat
        /\ c.payload \in Payload \cup {Null}
    BY DEF CheckpointArgs
  <2>3. Table(msgs')
    <3>1. now + c.duration \in Int /\ c.extra_retries \in Int
      BY <2>2
    <3>2. QED
      BY <3>1, <1>0, <2>1, TableTypes DEF mq_checkpoint
  <2>4. payloads' \in [DOMAIN payloads' -> Payload]
    BY <2>1, <2>2 DEF mq_checkpoint, AfterPayload, Coalesce
  <2>5. m \in MsgId
    BY DEF Polled
  <2>6. \A n \in {hist[m].granted, hist[m].granted + c.extra_retries} :
           [hist[m] EXCEPT !.granted = n] \in History
    BY <2>2, <2>5 DEF History
  <2>7. hist' \in [MsgId -> History]
    BY <2>1, <2>5, <2>6 DEF mq_checkpoint
  <2>8. QED
    BY <2>1, <2>3, <2>4, <2>7 DEF mq_checkpoint, Table
<1>6. ASSUME Delete PROVE TypeOK'
  <2>1. PICK S : mq_delete(S)
    BY <1>6 DEF Delete
  <2>2. Table(msgs')
    BY <1>0, <2>1, TableTypes DEF mq_delete
  <2>3. Unblocked(msgs, S) \subseteq ChannelName
    <3>1. \A i \in DOMAIN msgs : msgs[i].channel[1] \in ChannelName
      BY DEF Row, Channel
    <3>2. QED
      BY <3>1 DEF Unblocked
  <2>4. QED
    BY <2>1, <2>2, <2>3 DEF mq_delete, Table, history, Without
<1>7. ASSUME Clear PROVE TypeOK'
  <2>1. PICK S : /\ msgs' = AfterDelete(msgs, S)
                 /\ payloads' = Without(payloads, S)
                 /\ UNCHANGED <<notices, now, history>>
    BY <1>7 DEF Clear, mq_clear, mq_clear_all
  <2>2. Table(msgs')
    BY <1>0, <2>1, TableTypes
  <2>3. QED
    BY <2>1, <2>2 DEF Table, history, Without
<1>8. ASSUME NEW name \in ChannelName, Receive(name) PROVE TypeOK'
  BY <1>8 DEF Receive, tables, history
<1>9. ASSUME Tick PROVE TypeOK'
  BY <1>9 DEF Tick, tables, history
<1>10. ASSUME UNCHANGED vars PROVE TypeOK'
  BY <1>10 DEF vars
<1>11. QED
  BY <1>1, <1>2, <1>3, <1>4, <1>5, <1>6, <1>7, <1>8, <1>9, <1>10 DEF Next

(* Type correctness: whatever the producers, runners and listeners do, the *)
(* tables hold well-typed rows, a NULL attempt_at only where one may be.   *)
THEOREM TypeCorrect == Spec => []TypeOK
  BY TypeInit, TypeStep, PTL DEF Spec
-----------------------------------------------------------------------------
(* The chains.                                                             *)

IInv == TypeOK /\ TablesAgree /\ ChainInv

(* A step that keeps the links and hands out only unblocked messages keeps *)
(* the chains: mq_poll, mq_commit, mq_keep_alive, mq_checkpoint.           *)
LEMMA LinksKept ==
    ASSUME IInv, TypeOK', SameLinks(msgs, msgs'),
           DOMAIN payloads' = DOMAIN payloads, births' = births,
           \A m \in MsgId : /\ hist'[m].birth = hist[m].birth
                            /\ hist'[m].ordered = hist[m].ordered,
           \A m \in Live : hist'[m].polls > 0 =>
                hist[m].polls > 0 \/ ~ mq_uuid_exists(msgs[m].after)
    PROVE  TablesAgree' /\ ChainInv'
<1> USE DEF IInv, SameLinks
<1>1. TablesAgree' /\ Live' = Live
  BY DEF TablesAgree, Live
<1>2. msgs'[Nil].after = Null
  BY DEF TablesAgree, ChainInv
<1>3. Consistent(msgs')
  BY DEF ChainInv, Consistent, ForeignKeyOK, UniqueOK
<1>4. ASSUME NEW m \in Live
      PROVE  /\ m \in MsgId /\ m \in DOMAIN msgs
             /\ msgs[m].after \in MsgId => msgs[m].after \in Live
  BY TablesAssumption DEF Live, TypeOK, ChainInv, Consistent, ForeignKeyOK
<1>5. ASSUME NEW m \in Live
      PROVE  /\ hist'[m].birth \in 1..births'
             /\ hist'[m].ordered <=> msgs'[m].after # Null
             /\ msgs'[m].after \in MsgId =>
                   /\ msgs'[msgs'[m].after].channel = msgs'[m].channel
                   /\ msgs'[msgs'[m].after].after # Null
                   /\ hist'[msgs'[m].after].birth < hist'[m].birth
             /\ hist'[m].polls > 0 => ~ mq_uuid_exists(msgs'[m].after)
  <2>1. hist'[m].birth \in 1..births' /\ (hist'[m].ordered <=> msgs'[m].after # Null)
    BY <1>4, <1>5 DEF ChainInv
  <2>2. msgs'[m].after \in MsgId =>
           /\ msgs'[msgs'[m].after].channel = msgs'[m].channel
           /\ msgs'[msgs'[m].after].after # Null
           /\ hist'[msgs'[m].after].birth < hist'[m].birth
    <3>1. msgs'[m].after = msgs[m].after /\ msgs'[m].channel = msgs[m].channel
      BY <1>4
    <3>2. CASE msgs[m].after \in MsgId
      <4>1. msgs[m].after \in DOMAIN msgs
        BY <1>4, <3>2 DEF Live
      <4>2. QED
        BY <1>4, <3>1, <3>2, <4>1 DEF ChainInv
    <3>3. QED
      BY <3>1, <3>2
  <2>3. hist'[m].polls > 0 => ~ mq_uuid_exists(msgs'[m].after)
    BY <1>4 DEF ChainInv
  <2>4. QED
    BY <2>1, <2>2, <2>3
<1>6. QED
  BY <1>1, <1>2, <1>3, <1>5 DEF ChainInv

(* Deleting rows keeps the chains: what waited for a deleted row becomes   *)
(* the first of its channel, and the dummy row is never among the deleted. *)
LEMMA DeleteKeeps ==
    ASSUME IInv, TypeOK', NEW S \in SUBSET MsgId,
           Consistent(AfterDelete(msgs, S)),
           msgs' = AfterDelete(msgs, S), payloads' = Without(payloads, S),
           UNCHANGED history
    PROVE  TablesAgree' /\ ChainInv'
<1> USE DEF IInv
<1>1. /\ DOMAIN msgs' = DOMAIN msgs \ S
      /\ DOMAIN payloads' = DOMAIN payloads \ S
  BY DEF AfterDelete, Without
<1>2. TablesAgree'
  BY <1>1, TablesAssumption DEF TablesAgree
<1>3. Live' = Live \ S /\ Consistent(msgs') /\ births' = births /\ hist' = hist
  BY <1>1 DEF Live, history
<1>4. ASSUME NEW i \in DOMAIN msgs \ S
      PROVE  /\ msgs'[i].channel = msgs[i].channel
             /\ msgs'[i].after = IF msgs[i].after \in S THEN Nil ELSE msgs[i].after
  BY DEF AfterDelete, TypeOK, Row
<1>5. msgs'[Nil].after = Null
  BY <1>4, TablesAssumption DEF TablesAgree, ChainInv
<1>6. ASSUME NEW m \in Live \ S
      PROVE  /\ hist[m].birth \in 1..births
             /\ hist[m].ordered <=> msgs'[m].after # Null
             /\ msgs'[m].after \in MsgId =>
                   /\ msgs'[msgs'[m].after].channel = msgs'[m].channel
                   /\ msgs'[msgs'[m].after].after # Null
                   /\ hist[msgs'[m].after].birth < hist[m].birth
             /\ hist[m].polls > 0 => ~ mq_uuid_exists(msgs'[m].after)
  <2>1. m \in DOMAIN msgs \ S /\ Nil # Null /\ Nil \notin MsgId /\ Null \notin S
    BY TablesAssumption DEF Live
  <2>2. /\ hist[m].birth \in 1..births
        /\ hist[m].ordered <=> msgs[m].after # Null
        /\ hist[m].polls > 0 => ~ mq_uuid_exists(msgs[m].after)
    BY DEF ChainInv
  <2>3. msgs'[m].after # Null <=> msgs[m].after # Null
    BY <1>4, <2>1
  <2>4. ~ mq_uuid_exists(msgs[m].after) => ~ mq_uuid_exists(msgs'[m].after)
    BY <1>4, <2>1 DEF mq_uuid_exists
  <2>5. ASSUME msgs'[m].after \in MsgId
        PROVE  /\ msgs'[msgs'[m].after].channel = msgs'[m].channel
               /\ msgs'[msgs'[m].after].after # Null
               /\ hist[msgs'[m].after].birth < hist[m].birth
    <3> DEFINE p == msgs[m].after
    <3>1. msgs'[m].after = p /\ p \in MsgId \ S /\ msgs'[m].channel = msgs[m].channel
      BY <1>4, <2>1, <2>5
    <3>2. p \in DOMAIN msgs \ S
      BY <2>1, <3>1, TablesAssumption DEF ChainInv, Consistent, ForeignKeyOK
    <3>3. /\ msgs[p].channel = msgs[m].channel
          /\ msgs[p].after # Null
          /\ hist[p].birth < hist[m].birth
      BY <3>1 DEF ChainInv
    <3>4. msgs'[p].channel = msgs[p].channel /\ msgs'[p].after # Null
      BY <1>4, <2>1, <3>2, <3>3
    <3>5. QED
      BY <3>1, <3>3, <3>4
  <2>6. QED
    BY <2>2, <2>3, <2>4, <2>5
<1>7. QED
  BY <1>2, <1>3, <1>5, <1>6 DEF ChainInv

(* An insert keeps the chains: the new row comes last.                     *)
LEMMA InsertKeeps ==
    ASSUME IInv, TypeOK', NEW m \in MsgId, NEW new \in NewJob, NEW start \in Int,
           mq_insert(m, new, start)
    PROVE  TablesAgree' /\ ChainInv'
<1> USE DEF IInv
<1>1. PICK latest \in mq_latest_message(msgs, new.channel) :
         /\ Consistent(AfterInsert(msgs, m, NewRow(new, start, latest)))
         /\ msgs' = AfterInsert(msgs, m, NewRow(new, start, latest))
  BY DEF mq_insert
<1> DEFINE row == NewRow(new, start, latest)
<1>2. m \notin DOMAIN msgs /\ m # Nil
  BY TablesAssumption DEF mq_insert, ChainInv, Live, TypeOK, History
<1>3. /\ DOMAIN msgs' = DOMAIN msgs \cup {m}
      /\ msgs'[m] = row
      /\ \A i \in DOMAIN msgs : msgs'[i] = msgs[i]
  BY <1>1, <1>2 DEF AfterInsert
<1>4. TablesAgree' /\ Live' = Live \cup {m}
  BY <1>2, <1>3 DEF TablesAgree, mq_insert, Live
<1>5. msgs'[Nil].after = Null /\ Consistent(msgs')
  BY <1>1, <1>3 DEF TablesAgree, ChainInv
<1>6. /\ births' = births + 1
      /\ hist'[m].birth = births + 1
      /\ hist'[m].ordered = new.ordered
      /\ hist'[m].polls = 0
      /\ \A i \in MsgId \ {m} : hist'[i] = hist[i]
  BY DEF mq_insert, TypeOK
<1>7. \A i \in Live : i \in MsgId /\ i \in DOMAIN msgs /\ i # m /\ hist[i].birth \in 1..births
  BY <1>2 DEF Live, TypeOK, ChainInv
<1>8. /\ row.channel = new.channel
      /\ row.after = IF new.ordered THEN latest ELSE Null
  BY DEF NewRow
<1>9. /\ latest # Null
      /\ latest \in MsgId => /\ latest \in Live
                            /\ msgs[latest].channel = new.channel
                            /\ msgs[latest].after # Null
  BY TablesAssumption DEF mq_latest_message, Tails, Live, TypeOK
<1>10. ASSUME NEW i \in Live'
       PROVE  /\ hist'[i].birth \in 1..births'
              /\ hist'[i].ordered <=> msgs'[i].after # Null
              /\ msgs'[i].after \in MsgId =>
                    /\ msgs'[msgs'[i].after].channel = msgs'[i].channel
                    /\ msgs'[msgs'[i].after].after # Null
                    /\ hist'[msgs'[i].after].birth < hist'[i].birth
              /\ hist'[i].polls > 0 => ~ mq_uuid_exists(msgs'[i].after)
  <2>1. CASE i = m
    <3>1. births + 1 \in 1..births'
      BY <1>6 DEF TypeOK
    <3>2. hist'[m].ordered <=> msgs'[m].after # Null
      BY <1>3, <1>6, <1>8, <1>9 DEF NewJob
    <3>3. ASSUME msgs'[m].after \in MsgId
          PROVE  /\ msgs'[latest].channel = new.channel
                 /\ msgs'[latest].after # Null
                 /\ hist'[latest].birth < births + 1
                 /\ msgs'[m].after = latest
      <4>1. msgs'[m].after = latest
        BY <1>3, <1>8, <3>3, TablesAssumption
      <4>2. latest \in Live
        BY <1>9, <3>3, <4>1
      <4>3. hist'[latest] = hist[latest] /\ msgs'[latest] = msgs[latest]
        BY <1>3, <1>6, <1>7, <4>2
      <4>4. QED
        BY <1>7, <1>9, <3>3, <4>1, <4>2, <4>3 DEF TypeOK
    <3>4. QED
      BY <1>3, <1>6, <1>8, <2>1, <3>1, <3>2, <3>3
  <2>2. CASE i \in Live
    <3>1. hist'[i] = hist[i] /\ msgs'[i] = msgs[i]
      BY <1>3, <1>6, <1>7, <2>2
    <3>2. hist'[i].birth \in 1..births'
      BY <1>6, <1>7, <2>2, <3>1 DEF TypeOK
    <3>3. ASSUME msgs[i].after \in MsgId
          PROVE  /\ msgs'[msgs[i].after] = msgs[msgs[i].after]
                 /\ hist'[msgs[i].after] = hist[msgs[i].after]
      <4>1. msgs[i].after \in DOMAIN msgs
        BY <1>7, <2>2, <3>3, TablesAssumption DEF ChainInv, Consistent, ForeignKeyOK
      <4>2. QED
        BY <1>2, <1>3, <1>6, <3>3, <4>1
    <3>4. QED
      BY <2>2, <3>1, <3>2, <3>3 DEF ChainInv
  <2>3. QED
    BY <1>4, <2>1, <2>2
<1>11. QED
  BY <1>4, <1>5, <1>10 DEF ChainInv

(* The dummy row alone is a chain of no messages.                          *)
LEMMA InvariantInit == Init => IInv
<1>1. Init => TypeOK
  BY StoreAssumption, TablesAssumption
     DEF Init, TypeOK, NilRow, Row, Unborn, History
<1>2. ASSUME Init PROVE TablesAgree /\ ChainInv
  <2>1. DOMAIN msgs = {Nil} /\ msgs[Nil].after = Null /\ DOMAIN payloads = {}
    BY <1>2 DEF Init, NilRow
  <2>2. Live = {}
    BY <2>1 DEF Live
  <2>3. Consistent(msgs)
    BY <2>1 DEF Consistent, ForeignKeyOK, UniqueOK
  <2>4. QED
    BY <2>1, <2>2, <2>3 DEF TablesAgree, ChainInv
<1>3. QED
  BY <1>1, <1>2 DEF IInv

(* Inserts add a tail, deletes take handed-out heads or all of a channel.  *)
LEMMA InvariantStep == IInv /\ TypeOK' /\ [Next]_vars => IInv'
<1> SUFFICES ASSUME IInv, TypeOK', [Next]_vars PROVE TablesAgree' /\ ChainInv'
  BY DEF IInv
<1> USE StoreAssumption
<1>0. Table(msgs)
  BY DEF Table, IInv, TypeOK
<1>1. ASSUME Spawn PROVE TablesAgree' /\ ChainInv'
  <2>1. PICK m \in MsgId, new \in NewJobs, lag \in Lags : mq_insert(m, new, now - lag)
    BY <1>1 DEF Spawn
  <2>2. new \in NewJob /\ now - lag \in Int
    BY DEF IInv, TypeOK
  <2>3. QED
    BY <2>1, <2>2, InsertKeeps
<1>2. ASSUME Poll PROVE TablesAgree' /\ ChainInv'
  <2>1. PICK names, limit, S : mq_poll(names, limit, S)
    BY <1>2 DEF Poll
  <2>2. \A i \in S : ~ mq_uuid_exists(msgs[i].after)
    BY <2>1 DEF mq_poll, IsBatch, Ready
  <2>3. SameLinks(msgs, msgs')
    BY <1>0, <2>1, TableLinks DEF mq_poll
  <2>4. \A m \in MsgId : /\ hist'[m].birth = hist[m].birth
                         /\ hist'[m].ordered = hist[m].ordered
                         /\ m \notin S => hist'[m] = hist[m]
    BY <2>1 DEF mq_poll, IInv, TypeOK, History
  <2>5. \A m \in Live : hist'[m].polls > 0 =>
           hist[m].polls > 0 \/ ~ mq_uuid_exists(msgs[m].after)
    BY <2>2, <2>4 DEF Live, IInv, TypeOK
  <2>6. DOMAIN payloads' = DOMAIN payloads /\ births' = births
    BY <2>1 DEF mq_poll
  <2>7. QED
    BY <2>3, <2>4, <2>5, <2>6, LinksKept
<1>3. ASSUME Commit PROVE TablesAgree' /\ ChainInv'
  <2>1. PICK m : mq_commit({m})
    BY <1>3 DEF Commit
  <2>2. SameLinks(msgs, msgs')
    BY <1>0, <2>1, TableLinks DEF mq_commit
  <2>3. QED
    BY <2>1, <2>2, LinksKept DEF mq_commit, history
<1>4. ASSUME KeepAlive PROVE TablesAgree' /\ ChainInv'
  <2>1. PICK m \in Live, d \in Durations : mq_keep_alive({m}, d)
    BY <1>4 DEF KeepAlive
  <2>2. SameLinks(msgs, msgs')
    BY <1>0, <2>1, TableLinks DEF mq_keep_alive
  <2>3. QED
    BY <2>1, <2>2, LinksKept DEF mq_keep_alive, history
<1>5. ASSUME Checkpoint PROVE TablesAgree' /\ ChainInv'
  <2>1. PICK m \in Polled, c \in Checkpoints : mq_checkpoint(m, c)
    BY <1>5 DEF Checkpoint
  <2>2. SameLinks(msgs, msgs')
    BY <1>0, <2>1, TableLinks DEF mq_checkpoint
  <2>3. \A i \in MsgId : /\ hist'[i].birth = hist[i].birth
                         /\ hist'[i].ordered = hist[i].ordered
                         /\ hist'[i].polls = hist[i].polls
    BY <2>1 DEF mq_checkpoint, IInv, TypeOK, History
  <2>4. Live \subseteq MsgId
    BY DEF Live, IInv, TypeOK
  <2>5. DOMAIN payloads' = DOMAIN payloads /\ births' = births
    BY <2>1 DEF mq_checkpoint, AfterPayload
  <2>6. QED
    BY <2>2, <2>3, <2>4, <2>5, LinksKept
<1>6. ASSUME Delete PROVE TablesAgree' /\ ChainInv'
  <2>1. PICK S \in SUBSET Polled : mq_delete(S)
    BY <1>6 DEF Delete
  <2>2. S \in SUBSET MsgId
    BY DEF Polled
  <2>3. QED
    BY <2>1, <2>2, DeleteKeeps DEF mq_delete
<1>7. ASSUME Clear PROVE TablesAgree' /\ ChainInv'
  <2>1. ASSUME mq_clear_all PROVE TablesAgree' /\ ChainInv'
    <3>1. {i \in DOMAIN msgs : i # Nil} \in SUBSET MsgId
      BY DEF IInv, TypeOK
    <3>2. QED
      BY <2>1, <3>1, DeleteKeeps DEF mq_clear_all
  <2>2. ASSUME NEW names, mq_clear(names) PROVE TablesAgree' /\ ChainInv'
    <3>1. Cleared(msgs, names) \in SUBSET MsgId
      BY DEF IInv, TypeOK, Cleared
    <3>2. QED
      BY <2>2, <3>1, DeleteKeeps DEF mq_clear
  <2>3. QED
    BY <1>7, <2>1, <2>2 DEF Clear
<1>8. ASSUME \/ \E name \in ChannelName : Receive(name)
             \/ Tick
             \/ UNCHANGED vars
      PROVE  TablesAgree' /\ ChainInv'
  <2>1. UNCHANGED <<msgs, payloads, births, hist>>
    BY <1>8 DEF Receive, Tick, vars, tables, history
  <2>2. QED
    BY <2>1 DEF IInv, TablesAgree, ChainInv, Live
<1>9. QED
  BY <1>1, <1>2, <1>3, <1>4, <1>5, <1>6, <1>7, <1>8 DEF Next

(* The dummy row stays, and both tables hold the same messages, whatever   *)
(* is cleared, completed or spawned: the guard of the clear procedures and *)
(* the deletes of both tables in each of them are enough.                  *)
THEOREM TablesAlwaysAgree == Spec => []TablesAgree
<1>1. IInv /\ TypeOK' /\ [Next]_vars => IInv'
  BY InvariantStep
<1>2. IInv => TablesAgree
  BY DEF IInv
<1>3. QED
  BY <1>1, <1>2, InvariantInit, TypeCorrect, PTL DEF Spec

(* The chains are never broken, so a message waits only for an earlier one *)
(* of its channel, and none is handed out while it waits.                  *)
THEOREM ChainsKept == Spec => []ChainInv
<1>1. IInv /\ TypeOK' /\ [Next]_vars => IInv'
  BY InvariantStep
<1>2. IInv => ChainInv
  BY DEF IInv
<1>3. QED
  BY <1>1, <1>2, InvariantInit, TypeCorrect, PTL DEF Spec
-----------------------------------------------------------------------------
(* The ends of a channel: the message handed out is the earliest one, and  *)
(* mq_latest_message finds the last.                                       *)

(* A nonempty set of naturals has a least element: the first of a channel. *)
LEMMA LeastNat ==
    ASSUME NEW T \in SUBSET Nat, T # {}
    PROVE  \E x \in T : \A y \in T : x <= y
<1>1. PICK x \in T : \A y \in T : ~ (<<y, x>> \in OpToRel(<, Nat))
  BY WFMin, NatLessThanWellFounded
<1>2. \A y \in T : ~ (y < x)
  BY <1>1 DEF OpToRel
<1>3. QED
  BY <1>2

(* A bounded one has a greatest element: the last of a channel.            *)
LEMMA GreatestNat ==
    ASSUME NEW T \in SUBSET Nat, T # {}, NEW b \in Nat, \A x \in T : x <= b
    PROVE  \E x \in T : \A y \in T : y <= x
<1> DEFINE U == {b - x : x \in T}
<1>1. U \in SUBSET Nat /\ U # {}
  <2>1. \A x \in T : b - x \in Nat
    OBVIOUS
  <2>2. QED
    BY <2>1
<1>2. PICK u \in U : \A v \in U : u <= v
  BY <1>1, LeastNat
<1>3. PICK x \in T : u = b - x
  BY <1>2
<1>4. \A y \in T : b - x <= b - y
  BY <1>2, <1>3
<1>5. QED
  BY <1>3, <1>4

Line(ch) == {m \in Live : msgs[m].channel = ch /\ msgs[m].after # Null}

(* Only the earliest ordered message of a channel waits for nothing.       *)
LEMMA HeadIsEarliest ==
    ASSUME IInv, NEW n \in Live, msgs[n].after = Nil,
           NEW m \in Line(msgs[n].channel)
    PROVE  hist[n].birth <= hist[m].birth
<1> USE DEF IInv
<1> DEFINE L == Line(msgs[n].channel)
           T == {hist[i].birth : i \in L}
<1>1. \A i \in L : i \in Live /\ i \in MsgId /\ hist[i].birth \in Nat
  BY DEF Line, Live, TypeOK, History
<1>2. PICK x \in L : \A y \in L : hist[x].birth <= hist[y].birth
  <2>1. T \in SUBSET Nat /\ T # {}
    BY <1>1
  <2>2. PICK b \in T : \A c \in T : b <= c
    BY <2>1, LeastNat
  <2>3. QED
    BY <2>2
<1>3. msgs[x].after \notin MsgId
  <2>1. SUFFICES ASSUME msgs[x].after \in MsgId PROVE FALSE
    OBVIOUS
  <2>2. msgs[x].after \in L /\ hist[msgs[x].after].birth < hist[x].birth
    BY <1>1, <2>1, TablesAssumption
       DEF Line, Live, ChainInv, Consistent, ForeignKeyOK
  <2>3. QED
    BY <1>1, <1>2, <2>2
<1>4. msgs[x].after = Nil
  BY <1>1, <1>3 DEF Line, Live, TypeOK, Row
<1>5. x = n
  BY <1>1, <1>4, TablesAssumption
     DEF Line, Live, ChainInv, Consistent, UniqueOK
<1>6. QED
  BY <1>2, <1>5

(* A channel with no tail has no ordered message at all.                   *)
LEMMA TailExists ==
    ASSUME IInv, NEW ch, Line(ch) # {}
    PROVE  Tails(msgs, ch) # {}
<1> USE DEF IInv
<1> DEFINE L == Line(ch)
           T == {hist[i].birth : i \in L}
<1>1. \A i \in L : /\ i \in Live /\ i \in MsgId /\ i \in DOMAIN msgs
                  /\ hist[i].birth \in Nat /\ hist[i].birth <= births
  BY DEF Line, Live, TypeOK, History, ChainInv
<1>2. PICK x \in L : \A y \in L : hist[y].birth <= hist[x].birth
  <2>1. T \in SUBSET Nat /\ T # {} /\ births \in Nat /\ \A b \in T : b <= births
    BY <1>1 DEF TypeOK
  <2>2. PICK b \in T : \A c \in T : c <= b
    BY <2>1, GreatestNat
  <2>3. QED
    BY <2>2
<1>3. \A j \in DOMAIN msgs : msgs[j].after # x
  <2>1. SUFFICES ASSUME NEW j \in DOMAIN msgs, msgs[j].after = x PROVE FALSE
    OBVIOUS
  <2>2. j \in Live
    BY <1>1, <2>1, TablesAssumption DEF Live, ChainInv
  <2>3. j \in L /\ hist[x].birth < hist[j].birth
    BY <1>1, <2>1, <2>2, TablesAssumption DEF Line, ChainInv
  <2>4. QED
    BY <1>1, <1>2, <2>3
<1>4. x \in Tails(msgs, ch)
  BY <1>1, <1>3 DEF Tails, Line, Live
<1>5. QED
  BY <1>4
(* A spawn that runs alone is never rejected: mq_latest_message answers    *)
(* with a row nothing comes after, or with the dummy row and then the      *)
(* channel holds no ordered message.                                       *)
THEOREM InsertsSucceed == Spec => []InsertNeverConflicts
<1>1. IInv => InsertNeverConflicts
  <2> SUFFICES ASSUME IInv, NEW ch \in Channel, NEW latest \in mq_latest_message(msgs, ch),
                      NEW i \in DOMAIN msgs
               PROVE  /\ latest \in DOMAIN msgs
                      /\ msgs[i].channel = ch => msgs[i].after # latest
    BY DEF InsertNeverConflicts, IInv, TablesAgree
  <2>1. CASE Tails(msgs, ch) = {}
    <3>1. latest = Nil /\ Nil \in DOMAIN msgs
      BY <2>1 DEF mq_latest_message, IInv, TablesAgree
    <3>2. ASSUME msgs[i].channel = ch, msgs[i].after = Nil PROVE FALSE
      <4>1. i \in Line(ch)
        BY <3>2, TablesAssumption DEF Line, Live, IInv, ChainInv
      <4>2. QED
        BY <2>1, <4>1, TailExists
    <3>3. QED
      BY <3>1, <3>2
  <2>2. CASE Tails(msgs, ch) # {}
    <3>1. latest \in Tails(msgs, ch)
      BY <2>2 DEF mq_latest_message
    <3>2. QED
      BY <3>1 DEF Tails
  <2>3. QED
    BY <2>1, <2>2
<1>2. IInv /\ TypeOK' /\ [Next]_vars => IInv'
  BY InvariantStep
<1>3. QED
  BY <1>1, <1>2, InvariantInit, TypeCorrect, PTL DEF Spec

(* Completing jobs is never rejected, whichever handed-out messages are    *)
(* deleted together: at most one of them is in a given channel's order.    *)
THEOREM DeletesSucceed == Spec => []DeleteNeverConflicts
<1>1. IInv => DeleteNeverConflicts
  <2> SUFFICES ASSUME IInv, NEW S \in SUBSET Polled
               PROVE  Consistent(AfterDelete(msgs, S))
    BY DEF DeleteNeverConflicts
  <2> USE DEF IInv
  <2> DEFINE t == AfterDelete(msgs, S)
  <2>1. DOMAIN t = DOMAIN msgs \ S /\ Nil \in DOMAIN t
    BY TablesAssumption DEF AfterDelete, Polled, TablesAgree
  <2>2. ASSUME NEW i \in DOMAIN t
        PROVE  /\ i \in DOMAIN msgs /\ i \notin S
               /\ t[i].channel = msgs[i].channel
               /\ t[i].after = IF msgs[i].after \in S THEN Nil ELSE msgs[i].after
    BY DEF AfterDelete, TypeOK, Row
  <2> HIDE DEF t
  <2>3. ForeignKeyOK(t)
    BY <2>1, <2>2 DEF ForeignKeyOK, ChainInv, Consistent
  <2>4. ASSUME NEW i \in DOMAIN msgs, msgs[i].after \in S
        PROVE  /\ msgs[i].after \in DOMAIN msgs
               /\ msgs[msgs[i].after].channel = msgs[i].channel
               /\ msgs[msgs[i].after].after = Nil
    <3>1. msgs[i].after \in MsgId /\ msgs[i].after # Null /\ hist[msgs[i].after].polls > 0
      BY <2>4, TablesAssumption DEF Polled
    <3>2. i \in Live
      BY <3>1, TablesAssumption DEF ChainInv, Live
    <3>3. /\ msgs[i].after \in Live
          /\ msgs[msgs[i].after].channel = msgs[i].channel
          /\ msgs[msgs[i].after].after # Null
      BY <3>1, <3>2, TablesAssumption DEF ChainInv, Live, Consistent, ForeignKeyOK
    <3>4. ~ mq_uuid_exists(msgs[msgs[i].after].after)
      BY <3>1, <3>3 DEF ChainInv
    <3>5. QED
      BY <3>3, <3>4 DEF mq_uuid_exists, Live
  <2>5. ASSUME NEW i \in DOMAIN t, NEW j \in DOMAIN t, t[i].channel = t[j].channel,
               t[i].after # Null, t[i].after = t[j].after
        PROVE  i = j
    <3>1. CASE msgs[i].after \in S /\ msgs[j].after \in S
      <4>1. msgs[i].after = msgs[j].after
        BY <2>2, <2>4, <2>5, <3>1, TablesAssumption DEF ChainInv, Consistent, UniqueOK
      <4>2. QED
        BY <2>2, <2>4, <2>5, <3>1, <4>1, TablesAssumption
           DEF ChainInv, Consistent, UniqueOK, Polled
    <3>2. CASE msgs[i].after \in S /\ msgs[j].after \notin S
      <4>1. msgs[i].after = j
        BY <2>2, <2>4, <2>5, <3>2, TablesAssumption DEF ChainInv, Consistent, UniqueOK
      <4>2. QED
        BY <2>2, <3>2, <4>1
    <3>3. CASE msgs[i].after \notin S /\ msgs[j].after \in S
      <4>1. msgs[j].after = i
        BY <2>2, <2>4, <2>5, <3>3, TablesAssumption DEF ChainInv, Consistent, UniqueOK
      <4>2. QED
        BY <2>2, <3>3, <4>1
    <3>4. CASE msgs[i].after \notin S /\ msgs[j].after \notin S
      BY <2>2, <2>5, <3>4 DEF ChainInv, Consistent, UniqueOK
    <3>5. QED
      BY <3>1, <3>2, <3>3, <3>4
  <2>6. UniqueOK(t)
    BY <2>5 DEF UniqueOK
  <2>7. QED
    BY <2>3, <2>6 DEF Consistent, t
<1>2. IInv /\ TypeOK' /\ [Next]_vars => IInv'
  BY InvariantStep
<1>3. QED
  BY <1>1, <1>2, InvariantInit, TypeCorrect, PTL DEF Spec
-----------------------------------------------------------------------------
(* What a step may never do.                                               *)

(* A poll that hands out the head of a channel has nothing left before it.  *)
LEMMA PollInOrder ==
    ASSUME IInv, [Next]_vars, NEW m \in Live, NEW n \in Live,
           hist'[n].polls > hist[n].polls,
           hist[m].ordered, hist[n].ordered,
           msgs[m].channel = msgs[n].channel
    PROVE  hist[m].birth >= hist[n].birth
<1> USE DEF IInv
<1>1. /\ m \in MsgId /\ n \in MsgId /\ n \in DOMAIN msgs
      /\ hist[n].birth > 0 /\ hist[n].polls \in Nat
      /\ hist[m].birth \in Nat /\ hist[n].birth \in Nat
  BY DEF Live, TypeOK, ChainInv, History
<1>2. CASE Poll
  <2>1. PICK names, limit, S : mq_poll(names, limit, S)
    BY <1>2 DEF Poll
  <2>2. n \in S
    BY <1>1, <2>1 DEF mq_poll
  <2>3. ~ mq_uuid_exists(msgs[n].after)
    BY <2>1, <2>2 DEF mq_poll, IsBatch, Ready
  <2>4. msgs[n].after = Nil
    BY <2>3 DEF mq_uuid_exists, ChainInv
  <2>5. m \in Line(msgs[n].channel)
    BY DEF Line, ChainInv
  <2>6. QED
    BY <1>1, <2>4, <2>5, HeadIsEarliest
<1>3. CASE ~ Poll
  <2>1. hist'[n].polls = hist[n].polls
    <3>1. ASSUME Spawn PROVE hist'[n] = hist[n]
      <4>1. PICK i \in MsgId, new \in NewJobs, lag \in Lags : mq_insert(i, new, now - lag)
        BY <3>1 DEF Spawn
      <4>2. i # n
        BY <1>1, <4>1 DEF mq_insert
      <4>3. QED
        BY <1>1, <4>1, <4>2 DEF mq_insert, TypeOK
    <3>2. ASSUME Checkpoint PROVE hist'[n].polls = hist[n].polls
      BY <1>1, <3>2 DEF Checkpoint, mq_checkpoint, TypeOK, History
    <3>3. CASE Commit \/ KeepAlive \/ Delete \/ Clear
      BY <3>3 DEF Commit, mq_commit, KeepAlive, mq_keep_alive, Delete,
                  mq_delete, Clear, mq_clear, mq_clear_all, history
    <3>4. CASE Tick \/ UNCHANGED vars \/ \E name \in ChannelName : Receive(name)
      BY <3>4 DEF Tick, Receive, vars, history
    <3>5. QED
      BY <1>3, <3>1, <3>2, <3>3, <3>4 DEF Next
  <2>2. QED
    BY <1>1, <2>1
<1>4. QED
  BY <1>2, <1>3

(* Strict order within a channel: a poll hands out an ordered message only *)
(* when no earlier one of its channel is left, for any number of messages, *)
(* channels and pollers.                                                   *)
THEOREM OrderedPolls == Spec => PollsInOrder
<1>1. IInv /\ TypeOK' /\ [Next]_vars => IInv'
  BY InvariantStep
<1>2. IInv /\ [Next]_vars =>
        [\A m, n \in Live :
           /\ hist'[n].polls > hist[n].polls
           /\ hist[m].ordered /\ hist[n].ordered
           /\ msgs[m].channel = msgs[n].channel
           => hist[m].birth >= hist[n].birth]_vars
  BY PollInOrder
<1>3. QED
  BY <1>1, <1>2, InvariantInit, TypeCorrect, PTL DEF Spec, PollsInOrder

(* No lost wake-up: every step that makes a message available to polls     *)
(* notifies its channel - mq_insert always, mq_delete because the message  *)
(* it deletes is the first of the channel - and the others make none so.   *)
THEOREM UnblockingNotifies == Spec => WakeupOnUnblock
<1>1. ASSUME IInv, TypeOK', [Next]_vars, NEW m \in MsgId, m \in DOMAIN msgs',
             m \notin DOMAIN msgs \/ (Blocked(m) /\ ~ Blocked(m)')
      PROVE  msgs'[m].channel[1] \in notices'
  <2> USE <1>1, StoreAssumption DEF IInv
  <2>0. Table(msgs)
    BY DEF Table, TypeOK
  <2>1. CASE SameLinks(msgs, msgs')
    BY <1>1, <2>1 DEF SameLinks, Blocked
  <2>2. ASSUME Spawn PROVE msgs'[m].channel[1] \in notices'
    <3>1. PICK i \in MsgId, new \in NewJobs, lag \in Lags : mq_insert(i, new, now - lag)
      BY <2>2 DEF Spawn
    <3>2. PICK latest : msgs' = AfterInsert(msgs, i, NewRow(new, now - lag, latest))
      BY <3>1 DEF mq_insert
    <3>3. i = m
      BY <1>1, <3>2 DEF AfterInsert, Blocked
    <3>4. msgs'[m].channel = new.channel
      BY <3>2, <3>3 DEF AfterInsert, NewRow
    <3>5. QED
      BY <3>1, <3>4 DEF mq_insert
  <2>3. ASSUME NEW S \in SUBSET MsgId, msgs' = AfterDelete(msgs, S)
        PROVE  /\ m \in Live \ S
               /\ msgs[m].after \in S /\ msgs[m].after \in Live
               /\ msgs[msgs[m].after].channel = msgs[m].channel
               /\ msgs[msgs[m].after].after # Null
               /\ msgs'[m].channel = msgs[m].channel
    <3>1. m \in Live \ S
      BY <1>1, <2>3, TablesAssumption DEF AfterDelete, Live
    <3>2. msgs[m].after \in S /\ msgs'[m].channel = msgs[m].channel
      BY <1>1, <2>3, <3>1 DEF AfterDelete, Blocked, Live, TypeOK, Row
    <3>3. msgs[m].after \in Live
      BY <3>1, <3>2, TablesAssumption
         DEF Live, ChainInv, Consistent, ForeignKeyOK
    <3>4. QED
      BY <3>1, <3>2, <3>3 DEF ChainInv
  <2>4. ASSUME Delete PROVE msgs'[m].channel[1] \in notices'
    <3>1. PICK S \in SUBSET Polled : mq_delete(S)
      BY <2>4 DEF Delete
    <3> DEFINE p == msgs[m].after
    <3>2. /\ p \in S /\ p \in Live /\ msgs[p].after # Null
          /\ msgs[p].channel = msgs'[m].channel
      BY <2>3, <3>1 DEF mq_delete, Polled
    <3>3. msgs[p].after = Nil
      BY <3>2 DEF ChainInv, mq_uuid_exists, Polled
    <3>4. msgs[p].channel[1] \in Unblocked(msgs, S)
      BY <3>2, <3>3 DEF Unblocked, Live
    <3>5. QED
      BY <3>1, <3>2, <3>4 DEF mq_delete
  <2>5. ASSUME mq_clear_all PROVE FALSE
    <3>1. {i \in DOMAIN msgs : i # Nil} \in SUBSET MsgId
      BY DEF TypeOK
    <3>2. QED
      BY <2>3, <2>5, <3>1 DEF mq_clear_all, Live
  <2>6. ASSUME NEW names, mq_clear(names) PROVE FALSE
    <3>1. Cleared(msgs, names) \in SUBSET MsgId
      BY DEF TypeOK, Cleared
    <3>2. QED
      BY <2>3, <2>6, <3>1 DEF mq_clear, Cleared, Live
  <2>7. CASE Poll \/ Commit \/ KeepAlive \/ Checkpoint
    <3>1. CASE Poll
      BY <2>0, <2>1, <3>1, TableLinks DEF Poll, mq_poll
    <3>2. CASE Commit
      BY <2>0, <2>1, <3>2, TableLinks DEF Commit, mq_commit
    <3>3. CASE KeepAlive
      BY <2>0, <2>1, <3>3, TableLinks DEF KeepAlive, mq_keep_alive
    <3>4. CASE Checkpoint
      BY <2>0, <2>1, <3>4, TableLinks DEF Checkpoint, mq_checkpoint
    <3>5. QED
      BY <2>7, <3>1, <3>2, <3>3, <3>4
  <2>8. CASE Tick \/ UNCHANGED vars \/ \E name \in ChannelName : Receive(name)
    <3>1. msgs' = msgs
      BY <2>8 DEF Tick, Receive, vars, tables
    <3>2. QED
      BY <2>1, <3>1 DEF SameLinks
  <2>9. QED
    BY <1>1, <2>2, <2>4, <2>5, <2>6, <2>7, <2>8 DEF Next, Clear
<1>2. IInv /\ TypeOK' /\ [Next]_vars => IInv'
  BY InvariantStep
<1>3. IInv /\ TypeOK' /\ [Next]_vars =>
        [\A m \in MsgId \cap DOMAIN msgs' :
           m \notin DOMAIN msgs \/ (Blocked(m) /\ ~ Blocked(m)')
           => msgs'[m].channel[1] \in notices']_vars
  BY <1>1
<1>4. QED
  BY <1>2, <1>3, InvariantInit, TypeCorrect, PTL DEF Spec, WakeupOnUnblock
-----------------------------------------------------------------------------
(* Time: leases and the schedule of uncommitted messages.                  *)

(* What the statements do to one row, for a message that is not deleted.   *)
LEMMA RowSteps ==
    ASSUME TypeOK, [Next]_vars, NEW m \in Live, m \in DOMAIN msgs',
           ~ (hist[m].birth = 0)
    PROVE  \/ /\ msgs'[m].attempt_at = msgs[m].attempt_at
              /\ msgs'[m].commit_interval = msgs[m].commit_interval
              /\ msgs'[m].attempts = msgs[m].attempts
              /\ hist'[m] = hist[m] /\ now' >= now
           \/ /\ Due(msgs[m], now)
              /\ msgs'[m] = Claimed(msgs[m], now)
              /\ hist'[m] = [hist[m] EXCEPT !.polls = @ + 1] /\ now' = now
           \/ /\ msgs[m].commit_interval # Null
              /\ msgs'[m] = Committed(msgs[m])
              /\ hist'[m] = hist[m] /\ now' = now
           \/ /\ msgs[m].attempt_at # Null
              /\ \E d \in Nat : /\ msgs[m].attempt_at < now + d
                               /\ msgs'[m] = KeptAlive(msgs[m], now + d)
              /\ hist'[m] = hist[m] /\ now' = now
           \/ /\ \E d, e \in Nat :
                    /\ \E c \in Checkpoints : c.duration = d
                    /\ msgs'[m].attempt_at = Greatest(msgs[m].attempt_at, now + d)
                    /\ msgs'[m].attempts = msgs[m].attempts + e
                    /\ hist'[m] = [hist[m] EXCEPT !.granted = @ + e]
                    /\ msgs[m].attempt_at = Null => Reviving \/ e > 0
              /\ msgs'[m].commit_interval = msgs[m].commit_interval
              /\ hist[m].polls > 0 /\ now' = now
<1> USE StoreAssumption DEF TypeOK
<1>1. /\ m \in MsgId /\ m \in DOMAIN msgs /\ m # Nil /\ msgs[m] \in Row
      /\ hist[m] \in History /\ hist[m].polls \in Nat
  BY DEF Live, History
<1>2. CASE Spawn
  <2>1. PICK i \in MsgId, new \in NewJobs, lag \in Lags : mq_insert(i, new, now - lag)
    BY <1>2 DEF Spawn
  <2>2. i # m
    BY <2>1 DEF mq_insert
  <2>3. msgs'[m] = msgs[m] /\ hist'[m] = hist[m] /\ now' = now
    BY <1>1, <2>1, <2>2 DEF mq_insert, AfterInsert
  <2>4. QED
    BY <1>1, <2>3
<1>3. CASE Poll
  <2>1. PICK names, limit, S : mq_poll(names, limit, S)
    BY <1>3 DEF Poll
  <2>2. m \in S => Due(msgs[m], now)
    BY <2>1 DEF mq_poll, IsBatch, Ready
  <2>3. CASE m \in S
    BY <1>1, <2>1, <2>2, <2>3 DEF mq_poll, AfterPoll, History
  <2>4. CASE m \notin S
    BY <1>1, <2>1, <2>4 DEF mq_poll, AfterPoll
  <2>5. QED
    BY <2>3, <2>4
<1>4. CASE Commit
  <2>1. PICK S : mq_commit(S)
    BY <1>4 DEF Commit
  <2>2. QED
    BY <1>1, <2>1 DEF mq_commit, AfterCommit, history
<1>5. CASE KeepAlive
  <2>1. PICK i \in Live, d \in Durations : mq_keep_alive({i}, d)
    BY <1>5 DEF KeepAlive
  <2>2. d \in Nat
    OBVIOUS
  <2>3. QED
    BY <1>1, <2>1, <2>2 DEF mq_keep_alive, AfterKeepAlive, history
<1>6. CASE Checkpoint
  <2>1. PICK i \in Polled, c \in Checkpoints : MayCheckpoint(i, c) /\ mq_checkpoint(i, c)
    BY <1>6 DEF Checkpoint
  <2>2. /\ c.duration \in Nat /\ c.extra_retries \in Nat
        /\ i \in MsgId /\ hist[i].polls > 0
    BY DEF CheckpointArgs, Polled
  <2>3. CASE i = m
    <3>1. /\ msgs'[m].attempt_at = Greatest(msgs[m].attempt_at, now + c.duration)
          /\ msgs'[m].attempts = msgs[m].attempts + c.extra_retries
          /\ msgs'[m].commit_interval = msgs[m].commit_interval
      BY <1>1, <2>1, <2>3 DEF mq_checkpoint, AfterCheckpoint, Row
    <3>2. hist'[m] = [hist[m] EXCEPT !.granted = @ + c.extra_retries]
      BY <1>1, <2>1, <2>3 DEF mq_checkpoint
    <3>3. msgs[m].attempt_at = Null => Reviving \/ c.extra_retries > 0
      BY <1>1, <2>1, <2>3 DEF MayCheckpoint
    <3>4. now' = now
      BY <2>1 DEF mq_checkpoint
    <3>5. QED
      BY <2>2, <2>3, <3>1, <3>2, <3>3, <3>4
  <2>4. CASE i # m
    <3>1. msgs'[m] = msgs[m] /\ hist'[m] = hist[m] /\ now' = now
      BY <1>1, <2>1, <2>2, <2>4 DEF mq_checkpoint, AfterCheckpoint
    <3>2. QED
      BY <1>1, <3>1
  <2>5. QED
    BY <2>3, <2>4
<1>7. CASE Delete \/ Clear
  <2>1. PICK S : msgs' = AfterDelete(msgs, S) /\ UNCHANGED <<now, hist>>
    BY <1>7 DEF Delete, mq_delete, Clear, mq_clear, mq_clear_all, history
  <2>2. /\ msgs'[m].attempt_at = msgs[m].attempt_at
        /\ msgs'[m].commit_interval = msgs[m].commit_interval
        /\ msgs'[m].attempts = msgs[m].attempts
    BY <1>1, <2>1 DEF AfterDelete, Row
  <2>3. QED
    BY <1>1, <2>1, <2>2
<1>8. CASE Tick \/ UNCHANGED vars \/ \E name \in ChannelName : Receive(name)
  BY <1>1, <1>8 DEF Tick, Receive, vars, tables, history
<1>9. QED
  BY <1>2, <1>3, <1>4, <1>5, <1>6, <1>7, <1>8 DEF Next

(* A message that a step inserts.                                          *)
LEMMA NewIsInserted ==
    ASSUME TypeOK, [Next]_vars, NEW m \in Live', m \notin Live
    PROVE  \E new \in NewJobs, lag \in Lags : \E latest :
              /\ mq_insert(m, new, now - lag)
              /\ msgs'[m] = NewRow(new, now - lag, latest)
<1>1. m \notin DOMAIN msgs /\ m \in DOMAIN msgs'
  BY DEF Live
<1>2. CASE Spawn
  <2>1. PICK i \in MsgId, new \in NewJobs, lag \in Lags : mq_insert(i, new, now - lag)
    BY <1>2 DEF Spawn
  <2>2. PICK latest : msgs' = AfterInsert(msgs, i, NewRow(new, now - lag, latest))
    BY <2>1 DEF mq_insert
  <2>3. i = m /\ msgs'[m] = NewRow(new, now - lag, latest)
    BY <1>1, <2>2 DEF AfterInsert
  <2>4. QED
    BY <2>1, <2>3
<1>3. CASE ~ Spawn
  <2>1. DOMAIN msgs' \subseteq DOMAIN msgs
    BY <1>3
       DEF Next, Poll, mq_poll, AfterPoll, Commit, mq_commit, AfterCommit,
           KeepAlive, mq_keep_alive, AfterKeepAlive, Checkpoint,
           mq_checkpoint, AfterCheckpoint, Delete, mq_delete, Clear,
           mq_clear, mq_clear_all, AfterDelete, Receive, Tick, vars, tables
  <2>2. QED
    BY <1>1, <2>1
<1>4. QED
  BY <1>2, <1>3

(* No call ever brings the next attempt of a committed message forward:    *)
(* mq_poll claims only what is due, mq_keep_alive and mq_checkpoint only   *)
(* move a deadline back, whatever their arguments and their order.         *)
THEOREM LeasesOnlyGrow == Spec => LeaseNeverShortened
<1>1. ASSUME IInv, [Next]_vars, NEW m \in Live \cap DOMAIN msgs',
             msgs[m].commit_interval = Null, msgs[m].attempt_at # Null
      PROVE  \/ msgs'[m].attempt_at = Null
             \/ msgs'[m].attempt_at >= msgs[m].attempt_at
  <2> USE StoreAssumption
  <2>1. /\ msgs[m] \in Row /\ msgs[m].attempt_at \in Int
        /\ msgs[m].retry_backoff \in Nat /\ now \in Nat
        /\ hist[m].birth # 0 /\ TypeOK /\ m \in Live
    BY <1>1 DEF IInv, TypeOK, Row, Live, ChainInv
  <2>2. ASSUME Due(msgs[m], now), msgs'[m] = Claimed(msgs[m], now)
        PROVE  \/ msgs'[m].attempt_at = Null
               \/ msgs'[m].attempt_at >= msgs[m].attempt_at
    <3>1. msgs'[m].attempt_at \in {Null, now + msgs[m].retry_backoff}
      BY <2>1, <2>2 DEF Claimed, Row
    <3>2. QED
      BY <2>1, <2>2, <3>1 DEF Due
  <2>3. ASSUME NEW d \in Nat, msgs[m].attempt_at < now + d,
               msgs'[m] = KeptAlive(msgs[m], now + d)
        PROVE  msgs'[m].attempt_at >= msgs[m].attempt_at
    <3>1. msgs'[m].attempt_at = now + d
      BY <2>1, <2>3 DEF KeptAlive, Row
    <3>2. QED
      BY <2>1, <2>3, <3>1
  <2>4. ASSUME NEW d \in Nat, msgs'[m].attempt_at = Greatest(msgs[m].attempt_at, now + d)
        PROVE  msgs'[m].attempt_at >= msgs[m].attempt_at
    BY <1>1, <2>1, <2>4 DEF Greatest
  <2>5. \/ msgs'[m].attempt_at = msgs[m].attempt_at
        \/ Due(msgs[m], now) /\ msgs'[m] = Claimed(msgs[m], now)
        \/ msgs[m].commit_interval # Null
        \/ \E d \in Nat : /\ msgs[m].attempt_at < now + d
                         /\ msgs'[m] = KeptAlive(msgs[m], now + d)
        \/ \E d \in Nat : msgs'[m].attempt_at = Greatest(msgs[m].attempt_at, now + d)
    <3>1. m \in DOMAIN msgs' /\ ~ (hist[m].birth = 0)
      BY <1>1, <2>1
    <3>2. QED
      BY <1>1, <2>1, <3>1, RowSteps
  <2>6. QED
    BY <1>1, <2>1, <2>2, <2>3, <2>4, <2>5
<1>2. IInv /\ TypeOK' /\ [Next]_vars => IInv'
  BY InvariantStep
<1>3. IInv /\ [Next]_vars =>
        [\A m \in Live \cap DOMAIN msgs' :
           /\ msgs[m].commit_interval = Null
           /\ msgs[m].attempt_at # Null
           => \/ msgs'[m].attempt_at = Null
              \/ msgs'[m].attempt_at >= msgs[m].attempt_at]_vars
  BY <1>1
<1>4. QED
  BY <1>2, <1>3, InvariantInit, TypeCorrect, PTL DEF Spec, LeaseNeverShortened
(* The schedule of a message is recovered by its commit.  A message whose  *)
(* attempts are used up has no attempt_at to say when it was due; what     *)
(* remains is that it has been polled, so its time had come - which a      *)
(* checkpoint that gives it an attempt_at again relies on.                 *)
TimeInv ==
    /\ CommitRestoresSchedule
    /\ \A m \in Live :
        /\ msgs[m].commit_interval # Null => msgs[m].commit_interval >= 0
        /\ msgs[m].attempt_at = Null =>
              /\ hist[m].polls > 0
              /\ now - Coalesce(msgs[m].commit_interval, 0) >= hist[m].due

Scheduled(m) ==
    LET r == msgs[m] IN
    /\ r.attempt_at # Null =>
          r.attempt_at - Coalesce(r.commit_interval, 0) >= hist[m].due
    /\ r.commit_interval # Null /\ hist[m].polls = 0 =>
          r.attempt_at - r.commit_interval = hist[m].due
    /\ r.commit_interval # Null => r.commit_interval >= 0
    /\ r.attempt_at = Null =>
          /\ hist[m].polls > 0
          /\ now - Coalesce(r.commit_interval, 0) >= hist[m].due

(* One case for each thing a statement can do to a row.                    *)
LEMMA ScheduledKept ==
    ASSUME IInv, TypeOK', [Next]_vars, NEW m \in Live, m \in Live', Scheduled(m)
    PROVE  Scheduled(m)'
<1> DEFINE r == msgs[m]
           q == msgs'[m]
<1>1. /\ r \in Row /\ q \in Row
      /\ r.attempt_at \in Int \cup {Null} /\ q.attempt_at \in Int \cup {Null}
      /\ r.commit_interval \in Int \cup {Null} /\ q.commit_interval \in Int \cup {Null}
      /\ r.retry_backoff \in Nat /\ now \in Nat /\ now' \in Nat
      /\ hist[m].due \in Int /\ hist'[m].due \in Int
      /\ hist[m].polls \in Nat /\ hist'[m].polls \in Nat
      /\ hist[m].birth # 0
  BY DEF IInv, TypeOK, Live, Row, History, ChainInv
<1>2. 0 \in Int /\ Null \notin Int
  BY TablesAssumption
<1>3. CASE /\ q.attempt_at = r.attempt_at
           /\ q.commit_interval = r.commit_interval
           /\ hist'[m] = hist[m] /\ now' >= now
  <2>1. CASE r.attempt_at = Null
    BY <1>1, <1>2, <1>3, <2>1 DEF Scheduled, Coalesce
  <2>2. CASE r.attempt_at # Null
    BY <1>1, <1>2, <1>3, <2>2 DEF Scheduled, Coalesce
  <2>3. QED
    BY <2>1, <2>2
<1>4. CASE /\ Due(r, now) /\ q = Claimed(r, now)
           /\ hist'[m].polls = hist[m].polls + 1
           /\ hist'[m].due = hist[m].due /\ now' = now
  <2>1. /\ q.attempt_at \in {Null, now + r.retry_backoff}
        /\ q.commit_interval = r.commit_interval
    BY <1>1, <1>4 DEF Claimed, Row
  <2>2. r.attempt_at # Null /\ r.attempt_at <= now
    BY <1>4 DEF Due
  <2>3. now - Coalesce(r.commit_interval, 0) >= hist[m].due
    BY <1>1, <1>2, <2>2 DEF Scheduled, Coalesce
  <2>4. QED
    BY <1>1, <1>2, <1>4, <2>1, <2>3 DEF Scheduled, Coalesce
<1>5. CASE /\ r.commit_interval # Null /\ q = Committed(r)
           /\ hist'[m] = hist[m] /\ now' = now
  <2>1. /\ q.commit_interval = Null
        /\ q.attempt_at = IF r.attempt_at = Null THEN Null
                          ELSE r.attempt_at - r.commit_interval
    BY <1>1, <1>5 DEF Committed, Row
  <2>2. CASE r.attempt_at = Null
    BY <1>1, <1>2, <1>5, <2>1, <2>2 DEF Scheduled, Coalesce
  <2>3. CASE r.attempt_at # Null
    BY <1>1, <1>2, <1>5, <2>1, <2>3 DEF Scheduled, Coalesce
  <2>4. QED
    BY <2>2, <2>3
<1>6. CASE /\ r.attempt_at # Null
           /\ \E d \in Nat : r.attempt_at < now + d /\ q = KeptAlive(r, now + d)
           /\ hist'[m] = hist[m] /\ now' = now
  <2>1. PICK d \in Nat : r.attempt_at < now + d /\ q = KeptAlive(r, now + d)
    BY <1>6
  <2>2. /\ q.attempt_at = now + d
        /\ q.commit_interval = IF r.commit_interval = Null THEN Null
              ELSE r.commit_interval + ((now + d) - r.attempt_at)
    <3> DEFINE u == now + d
    <3>1. q = KeptAlive(r, u)
      BY <2>1
    <3> HIDE DEF u
    <3>2. /\ q.attempt_at = u
          /\ q.commit_interval = IF r.commit_interval = Null THEN Null
                                 ELSE r.commit_interval + (u - r.attempt_at)
      BY <1>1, <3>1 DEF KeptAlive, Row
    <3>3. QED
      BY <3>2 DEF u
  <2>3. QED
    BY <1>1, <1>2, <1>6, <2>1, <2>2 DEF Scheduled, Coalesce
<1>7. CASE /\ \E d \in Nat : q.attempt_at = Greatest(r.attempt_at, now + d)
           /\ q.commit_interval = r.commit_interval
           /\ hist'[m].polls = hist[m].polls
           /\ hist'[m].due = hist[m].due /\ now' = now
           /\ hist[m].polls > 0
  <2>1. PICK d \in Nat : q.attempt_at = Greatest(r.attempt_at, now + d)
    BY <1>7
  <2>2. q.attempt_at # Null
    BY <1>1, <1>2, <2>1 DEF Greatest
  <2>3. CASE r.attempt_at = Null
    BY <1>1, <1>2, <1>7, <2>1, <2>2, <2>3 DEF Scheduled, Coalesce, Greatest
  <2>4. CASE r.attempt_at # Null
    BY <1>1, <1>2, <1>7, <2>1, <2>2, <2>4 DEF Scheduled, Coalesce, Greatest
  <2>5. QED
    BY <2>3, <2>4
<1>8. QED
  <2>1. TypeOK /\ m \in DOMAIN msgs' /\ ~ (hist[m].birth = 0)
    BY <1>1 DEF IInv, Live
  <2>2. /\ [hist[m] EXCEPT !.polls = @ + 1].polls = hist[m].polls + 1
        /\ [hist[m] EXCEPT !.polls = @ + 1].due = hist[m].due
        /\ \A e \in Nat : /\ [hist[m] EXCEPT !.granted = @ + e].polls = hist[m].polls
                          /\ [hist[m] EXCEPT !.granted = @ + e].due = hist[m].due
    BY DEF IInv, TypeOK, Live, History
  <2>3. QED
    BY <1>3, <1>4, <1>5, <1>6, <1>7, <2>1, <2>2, RowSteps

(* Two-phase commit keeps its promise for any number of keep-alives, polls *)
(* and checkpoints in between: no attempt before the time asked for, and a *)
(* commit before the first poll restores exactly that time.                *)
THEOREM ScheduleKept == Spec => []CommitRestoresSchedule
<1>1. TimeInv <=> \A m \in Live : Scheduled(m)
  BY DEF TimeInv, CommitRestoresSchedule, Scheduled
<1>2. Init => TimeInv
  BY DEF Init, TimeInv, CommitRestoresSchedule, Live
<1>3. ASSUME IInv, TypeOK', TablesAgree', [Next]_vars, TimeInv PROVE TimeInv'
  <2>1. ASSUME NEW m \in Live' PROVE Scheduled(m)'
    <3>1. CASE m \in Live
      <4>1. Scheduled(m)
        BY <1>1, <1>3, <3>1
      <4>2. QED
        BY <1>3, <2>1, <3>1, <4>1, ScheduledKept
    <3>2. CASE m \notin Live
      <4>1. TypeOK
        BY <1>3 DEF IInv
      <4>2. PICK new, lag, latest :
               /\ new \in NewJobs /\ lag \in Lags
               /\ mq_insert(m, new, now - lag)
               /\ msgs'[m] = NewRow(new, now - lag, latest)
        BY <1>3, <2>1, <3>2, <4>1, NewIsInserted
      <4>3. /\ new.delay \in Nat /\ new.commit_interval \in Nat \cup {Null}
            /\ now - lag \in Int /\ m \in MsgId
        BY <1>3, <2>1, <4>1, <4>2, StoreAssumption DEF NewJob, TypeOK, Live
      <4>4. /\ msgs'[m].attempt_at = now - lag + new.delay
                                     + Coalesce(new.commit_interval, 0)
            /\ msgs'[m].commit_interval = new.commit_interval
            /\ hist'[m].due = now - lag + new.delay
        BY <4>1, <4>2, <4>3 DEF NewRow, mq_insert, TypeOK
      <4>5. QED
        BY <4>3, <4>4, TablesAssumption DEF Scheduled, Coalesce
    <3>3. QED
      BY <3>1, <3>2
  <2>2. QED
    BY <2>1 DEF TimeInv, CommitRestoresSchedule, Scheduled
<1>4. IInv /\ TypeOK' /\ [Next]_vars => IInv'
  BY InvariantStep
<1>5. TimeInv => CommitRestoresSchedule
  BY DEF TimeInv
<1>6. IInv /\ IInv' /\ [Next]_vars /\ TimeInv => TimeInv'
  BY <1>3 DEF IInv
<1>7. QED
  BY <1>2, <1>4, <1>5, <1>6, InvariantInit, TypeCorrect, PTL DEF Spec
-----------------------------------------------------------------------------
(* Attempts.                                                               *)

(* The row keeps the balance between attempts paid for and handed out, and *)
(* is scheduled exactly as long as the balance is positive - exactly, if   *)
(* no checkpoint schedules it again without paying.                        *)
Balanced(m) ==
    LET r == msgs[m] IN
    /\ hist[m].polls + r.attempts = hist[m].granted
    /\ r.attempts > 0 => r.attempt_at # Null
    /\ Reviving \/ r.attempts >= IF r.attempt_at = Null THEN 0 ELSE 1

AttemptInv ==
    /\ \A m \in Live : Balanced(m)
    /\ Reviving \/ \A m \in MsgId : hist[m].polls <= hist[m].granted

(* A claim moves an attempt from the row to the history; grants add to both. *)
LEMMA BalanceKept ==
    ASSUME IInv, [Next]_vars, NEW m \in Live, m \in Live', Balanced(m)
    PROVE  Balanced(m)'
<1> DEFINE r == msgs[m]
           q == msgs'[m]
<1>1. /\ r \in Row /\ r.attempts \in Int /\ r.retry_backoff \in Nat
      /\ r.attempt_at \in Int \cup {Null} /\ now \in Nat
      /\ hist[m] \in History /\ hist[m].granted \in Nat /\ hist[m].polls \in Nat
  BY DEF IInv, TypeOK, Live, Row, History
<1>2. Null \notin Int
  BY TablesAssumption
<1>3. CASE /\ q.attempt_at = r.attempt_at /\ q.attempts = r.attempts
           /\ hist'[m] = hist[m]
  BY <1>1, <1>3 DEF Balanced
<1>4. CASE /\ q = Claimed(r, now)
           /\ hist'[m] = [hist[m] EXCEPT !.polls = @ + 1]
           /\ Due(r, now)
  <2>1. /\ q.attempts = r.attempts - 1
        /\ q.attempt_at = IF r.attempts = 1 THEN Null ELSE now + r.retry_backoff
    BY <1>1, <1>4 DEF Claimed, Row
  <2>2. hist'[m].polls = hist[m].polls + 1 /\ hist'[m].granted = hist[m].granted
    BY <1>1, <1>4 DEF History
  <2>3. r.attempt_at # Null
    BY <1>4 DEF Due
  <2>4. CASE r.attempts = 1
    BY <1>1, <1>2, <2>1, <2>2, <2>3, <2>4 DEF Balanced
  <2>5. CASE r.attempts # 1
    <3>1. q.attempt_at # Null
      BY <1>1, <1>2, <2>1, <2>5
    <3>2. QED
      BY <1>1, <1>2, <2>1, <2>2, <2>3, <2>5, <3>1 DEF Balanced
  <2>6. QED
    BY <2>4, <2>5
<1>5. CASE q = Committed(r) /\ hist'[m] = hist[m] /\ r.commit_interval # Null
  <2>1. r.commit_interval \in Int
    BY <1>1, <1>5 DEF Row
  <2>2. /\ q.attempts = r.attempts
        /\ q.attempt_at = IF r.attempt_at = Null THEN Null
                          ELSE r.attempt_at - r.commit_interval
    BY <1>1, <1>5 DEF Committed, Row
  <2>3. QED
    BY <1>1, <1>2, <1>5, <2>1, <2>2 DEF Balanced
<1>6. CASE /\ r.attempt_at # Null /\ hist'[m] = hist[m]
           /\ \E d \in Nat : q = KeptAlive(r, now + d)
  <2>1. PICK d \in Nat : q = KeptAlive(r, now + d)
    BY <1>6
  <2>2. q.attempts = r.attempts /\ q.attempt_at = now + d
    BY <1>1, <2>1 DEF KeptAlive, Row
  <2>3. QED
    BY <1>1, <1>2, <1>6, <2>2 DEF Balanced
<1>7. CASE \E d, e \in Nat :
              /\ q.attempt_at = Greatest(r.attempt_at, now + d)
              /\ q.attempts = r.attempts + e
              /\ hist'[m] = [hist[m] EXCEPT !.granted = @ + e]
              /\ r.attempt_at = Null => Reviving \/ e > 0
  <2>1. PICK d \in Nat, e \in Nat :
              /\ q.attempt_at = Greatest(r.attempt_at, now + d)
              /\ q.attempts = r.attempts + e
              /\ hist'[m] = [hist[m] EXCEPT !.granted = @ + e]
              /\ r.attempt_at = Null => Reviving \/ e > 0
    BY <1>7
  <2>2. hist'[m].polls = hist[m].polls /\ hist'[m].granted = hist[m].granted + e
    BY <1>1, <2>1 DEF History
  <2>3. q.attempt_at # Null
    BY <1>1, <1>2, <2>1 DEF Greatest
  <2>4. CASE r.attempt_at = Null
    BY <1>1, <1>2, <2>1, <2>2, <2>3, <2>4 DEF Balanced
  <2>5. CASE r.attempt_at # Null
    BY <1>1, <1>2, <2>1, <2>2, <2>3, <2>5 DEF Balanced
  <2>6. QED
    BY <2>4, <2>5
<1>8. QED
  <2>1. TypeOK /\ m \in DOMAIN msgs' /\ ~ (hist[m].birth = 0)
    BY DEF IInv, Live, ChainInv
  <2>2. \/ /\ q.attempt_at = r.attempt_at /\ q.attempts = r.attempts
           /\ hist'[m] = hist[m]
        \/ /\ q = Claimed(r, now) /\ Due(r, now)
           /\ hist'[m] = [hist[m] EXCEPT !.polls = @ + 1]
        \/ q = Committed(r) /\ hist'[m] = hist[m] /\ r.commit_interval # Null
        \/ /\ r.attempt_at # Null /\ hist'[m] = hist[m]
           /\ \E d \in Nat : q = KeptAlive(r, now + d)
        \/ \E d, e \in Nat :
              /\ q.attempt_at = Greatest(r.attempt_at, now + d)
              /\ q.attempts = r.attempts + e
              /\ hist'[m] = [hist[m] EXCEPT !.granted = @ + e]
              /\ r.attempt_at = Null => Reviving \/ e > 0
    BY <2>1, RowSteps
  <2>3. QED
    BY <1>3, <1>4, <1>5, <1>6, <1>7, <2>2
(* The history of a message that has no row does not change.               *)
LEMMA GoneIsGone ==
    ASSUME IInv, TypeOK', [Next]_vars, NEW m \in MsgId, m \notin Live'
    PROVE  hist'[m] = hist[m]
<1> USE DEF IInv
<1>1. m \notin DOMAIN msgs' /\ Nil \notin MsgId
  BY TablesAssumption DEF Live
<1>2. CASE Spawn
  <2>1. PICK i \in MsgId, new \in NewJobs, lag \in Lags : mq_insert(i, new, now - lag)
    BY <1>2 DEF Spawn
  <2>2. i # m
    BY <1>1, <2>1 DEF mq_insert, AfterInsert
  <2>3. QED
    BY <2>1, <2>2 DEF mq_insert, TypeOK
<1>3. CASE Poll
  <2>1. PICK names, limit, S : mq_poll(names, limit, S)
    BY <1>3 DEF Poll
  <2>2. m \notin S
    BY <1>1, <2>1 DEF mq_poll, AfterPoll, IsBatch, Ready
  <2>3. QED
    BY <2>1, <2>2 DEF mq_poll
<1>4. CASE Checkpoint
  <2>1. PICK i \in Polled, c \in Checkpoints : mq_checkpoint(i, c)
    BY <1>4 DEF Checkpoint
  <2>2. m \notin DOMAIN msgs
    BY <1>1, <2>1 DEF mq_checkpoint, AfterCheckpoint
  <2>3. CASE i = m
    BY <2>1, <2>2, <2>3 DEF mq_checkpoint, TypeOK, History
  <2>4. CASE i # m
    BY <2>1, <2>4 DEF mq_checkpoint, TypeOK
  <2>5. QED
    BY <2>3, <2>4
<1>5. CASE Commit \/ KeepAlive \/ Delete \/ Clear
  BY <1>5 DEF Commit, mq_commit, KeepAlive, mq_keep_alive, Delete, mq_delete,
              Clear, mq_clear, mq_clear_all, history
<1>6. CASE Tick \/ UNCHANGED vars \/ \E name \in ChannelName : Receive(name)
  BY <1>6 DEF Tick, Receive, vars, history
<1>7. QED
  BY <1>2, <1>3, <1>4, <1>5, <1>6 DEF Next

(* Without messages nothing is out of balance.                             *)
LEMMA AttemptsInit == Init => AttemptInv
<1>1. Init => Live = {} /\ \A m \in MsgId : hist[m].polls <= hist[m].granted
  BY DEF Init, Live, Unborn
<1>2. QED
  BY <1>1 DEF AttemptInv

(* A new message has paid for what its row has left.                       *)
LEMMA AttemptsStep == IInv /\ IInv' /\ AttemptInv /\ [Next]_vars => AttemptInv'
<1> SUFFICES ASSUME IInv, IInv', AttemptInv, [Next]_vars PROVE AttemptInv'
  OBVIOUS
<1>1. TypeOK /\ TypeOK'
  BY DEF IInv
<1>2. ASSUME NEW m \in Live' PROVE Balanced(m)'
  <2>1. CASE m \in Live
    BY <1>2, <2>1, BalanceKept DEF AttemptInv
  <2>2. CASE m \notin Live
    <3>1. PICK new, lag, latest :
             /\ new \in NewJobs /\ lag \in Lags
             /\ mq_insert(m, new, now - lag)
             /\ msgs'[m] = NewRow(new, now - lag, latest)
      BY <1>1, <1>2, <2>2, NewIsInserted
    <3>2. /\ new.retries \in Nat /\ new.delay \in Nat /\ now - lag \in Int
          /\ new.commit_interval \in Nat \cup {Null} /\ m \in MsgId
      BY <1>1, <1>2, <3>1, StoreAssumption DEF NewJob, TypeOK, Live
    <3>3. /\ hist'[m].polls = 0 /\ hist'[m].granted = new.retries + 1
      BY <1>1, <3>1, <3>2 DEF mq_insert, TypeOK
    <3>4. /\ msgs'[m].attempts = new.retries + 1
          /\ msgs'[m].attempt_at = now - lag + new.delay
                                   + Coalesce(new.commit_interval, 0)
      BY <3>1 DEF NewRow
    <3>5. msgs'[m].attempt_at # Null
      BY <3>2, <3>4, TablesAssumption DEF Coalesce
    <3>6. QED
      BY <3>2, <3>3, <3>4, <3>5 DEF Balanced
  <2>3. QED
    BY <2>1, <2>2
<1>3. ASSUME ~ Reviving, NEW m \in MsgId
      PROVE  hist'[m].polls <= hist'[m].granted
  <2>1. CASE m \in Live'
    <3>1. /\ Balanced(m)' /\ msgs'[m].attempts \in Int
          /\ hist'[m].polls \in Nat /\ hist'[m].granted \in Nat
      BY <1>1, <1>2, <2>1 DEF TypeOK, Live, Row, History
    <3>2. QED
      BY <1>3, <3>1 DEF Balanced
  <2>2. CASE m \notin Live'
    BY <1>1, <1>3, <2>2, GoneIsGone DEF AttemptInv
  <2>3. QED
    BY <2>1, <2>2
<1>4. QED
  BY <1>2, <1>3 DEF AttemptInv

(* A message with attempts left is never forgotten: no sequence of polls,  *)
(* keep-alives, checkpoints and commits leaves it without a next attempt.  *)
THEOREM NothingForgotten == Spec => []AttemptsLeftAreScheduled
<1>1. IInv /\ TypeOK' /\ [Next]_vars => IInv'
  BY InvariantStep
<1>2. AttemptInv => AttemptsLeftAreScheduled
  BY DEF AttemptInv, Balanced, AttemptsLeftAreScheduled
<1>3. QED
  BY <1>1, <1>2, InvariantInit, AttemptsInit, AttemptsStep, TypeCorrect, PTL DEF Spec

(* Unless a job on its last attempt checkpoints without asking for extra   *)
(* retries, no message is ever handed out more often than was paid for.    *)
THEOREM AttemptsBounded == ~ Reviving => (Spec => []AttemptsWithinGrant)
<1> SUFFICES ASSUME ~ Reviving PROVE Spec => []AttemptsWithinGrant
  OBVIOUS
<1>1. IInv /\ TypeOK' /\ [Next]_vars => IInv'
  BY InvariantStep
<1>2. AttemptInv => AttemptsWithinGrant
  BY DEF AttemptInv, AttemptsWithinGrant
<1>3. QED
  BY <1>1, <1>2, InvariantInit, AttemptsInit, AttemptsStep, TypeCorrect, PTL DEF Spec
=============================================================================
