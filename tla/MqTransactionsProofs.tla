------------------------- MODULE MqTransactionsProofs -------------------------
(***************************************************************************)
(* What MqTransactions keeps for any number of connections, any messages   *)
(* and any statements, proved: its type invariant, the constraints, that   *)
(* no attempt is handed out twice, who can be in a deadlock, what a        *)
(* rejected insert has seen, and that the serial specification is          *)
(* implemented.                                                            *)
(***************************************************************************)
EXTENDS MqTransactions, MqTablesProofs

-----------------------------------------------------------------------------
(* The inductive invariant.                                                *)

(* The table keeps what the procedures keep one at a time.                 *)
TableInv ==
    /\ IsFiniteSet(DOMAIN msgs)
    /\ Nil \in DOMAIN msgs /\ msgs[Nil] = NilRow
    /\ Consistent(msgs) /\ Chained(msgs) /\ AttemptsLeft(msgs)

(* Rows that t may come to change.                                         *)
Chosen(t) ==
    IF phase[t] = "update"
    THEN todo[t] \cup got[t] \cup ({next[t]} \ {Null})
    ELSE got[t]

Ordered(t) == Inserting(t) /\ stmt[t].new.ordered

(* The index knows the row t inserts.                                      *)
Written(t) == Ordered(t) /\ phase[t] \in {"foreign", "inserted"}

(* What t does at which phase.                                             *)
CallInv(t) ==
    /\ phase[t] \in {"update", "cascade"} => stmt[t] \in Serial!Call
    /\ phase[t] \in {"idle", "update", "cascade"} => tail[t] = Null
    /\ phase[t] \notin {"idle", "update", "cascade"} => stmt[t] \in Serial!Insert
    /\ phase[t] \in {"unique", "foreign", "failed"} => stmt[t].new.ordered
    /\ phase[t] = "inserted" /\ ~ stmt[t].new.ordered => tail[t] = Null
    /\ phase[t] \notin {"update", "cascade"}
       => todo[t] = {} /\ next[t] = Null /\ locks[t] = {} /\ got[t] = {}
    /\ phase[t] = "cascade" /\ ~ Deleting(t) => todo[t] = {} /\ next[t] = Null

(* Rows t has tested satisfy its condition from then on, because it has    *)
(* locked them; and those it deletes leave nothing before them.            *)
RowsInv(t) ==
    /\ todo[t] \cup ({next[t]} \ {Null}) \subseteq spent \ {Nil}
    /\ Nil \notin locks[t]
    /\ got[t] \subseteq locks[t]
    /\ got[t] # {} => got[t] \subseteq Serial!Eligible(stmt[t], msgs, start[t])
    /\ phase[t] = "update" /\ stmt[t].op = "poll"
       => \A m \in Chosen(t) \cap DOMAIN msgs : ~ mq_uuid_exists(msgs[m].after)
    /\ phase[t] = "update" /\ stmt[t].op = "delete" => Chosen(t) \subseteq stmt[t].ids
    /\ Deleting(t) => Closed(msgs, Chosen(t) \cap DOMAIN msgs)

(* Nobody waits for a row it has.                                          *)
WaitInv(t) == next[t] # Null => next[t] \notin locks[t]

(* The message before a new one is one of its channel as long as it is     *)
(* there, and after the checks stays there with no other successor.        *)
InsertInv(t) ==
    /\ Inserting(t) => stmt[t].id \notin spent
    /\ Ordered(t) =>
          /\ tail[t] \in spent
          /\ tail[t] \in DOMAIN msgs \ {Nil} =>
                msgs[tail[t]].channel = stmt[t].new.channel /\ msgs[tail[t]].after # Null
    /\ Written(t) => SameKey(t) = {}
    /\ Ordered(t) /\ phase[t] = "inserted" => tail[t] \in DOMAIN msgs

TxInv(t) == CallInv(t) /\ RowsInv(t) /\ WaitInv(t) /\ InsertInv(t)

(* What two transactions do not share.                                     *)
PairInv(t, u) ==
    /\ Inserting(t) /\ Inserting(u) => stmt[t].id # stmt[u].id
    /\ Written(t) /\ Written(u) =>
          stmt[t].new.channel # stmt[u].new.channel \/ tail[t] # tail[u]
    /\ Ordered(t) /\ phase[t] = "inserted" /\ Deleting(u) => tail[t] \notin locks[u]

IInv ==
    /\ TransactionsTypeOK
    /\ TableInv
    /\ \A t \in Tx : TxInv(t)
    /\ \A t, u \in Tx : t # u => PairInv(t, u)

-----------------------------------------------------------------------------
(* The operators of the serial specification are those of MqTables.        *)

(* The calls and inserts of the serial specification, and their arguments. *)
LEMMA StatementKinds ==
    /\ Statements \subseteq Serial!Call \cup Serial!Insert
    /\ Null \notin Statements
    /\ \A s \in Serial!Call : /\ s.op \in {"poll", "keep_alive", "commit", "delete", "clear"}
                              /\ s.ids \subseteq MsgId
                              /\ s.duration \in Nat
                              /\ s \notin Serial!Insert
    /\ \A s \in Serial!Insert : /\ s.op = "insert" /\ s.id \in MsgId /\ s.new \in NewJob
                                /\ s \notin Serial!Call
<1>1. /\ Statements \subseteq Serial!Call \cup Serial!Insert
      /\ Null \notin Statements
  BY TransactionsAssumption DEF Serial!SerialAssumption
<1>2. \A s \in Serial!Call : /\ s.op \in {"poll", "keep_alive", "commit", "delete", "clear"}
                             /\ s.ids \subseteq MsgId
                             /\ s.duration \in Nat
  BY DEF Serial!Call
<1>3. \A s \in Serial!Insert : s.op = "insert" /\ s.id \in MsgId /\ s.new \in NewJob
  BY DEF Serial!Insert, Serial!NewJob, NewJob, Serial!Channel, Channel
<1>4. QED
  BY <1>1, <1>2, <1>3

(* Which rows a call may change.                                           *)
LEMMA EligibleRows ==
    ASSUME NEW s \in Serial!Call, NEW t, NEW time
    PROVE  /\ Serial!Eligible(s, t, time) \subseteq DOMAIN t \ {Nil}
           /\ s.op = "poll" => Serial!Eligible(s, t, time) = Ready(t, time, Null)
           /\ s.op = "keep_alive" => Serial!Eligible(s, t, time) \subseteq s.ids
           /\ s.op = "delete" => Serial!Eligible(s, t, time) = s.ids \cap DOMAIN t
           /\ s.op = "clear" => Serial!Eligible(s, t, time) = DOMAIN t \ {Nil}
<1>1. s.ids \subseteq MsgId /\ Nil \notin MsgId
  BY StatementKinds, TablesAssumption
<1>2. CASE s.op = "poll"
  <2>1. Serial!Eligible(s, t, time) = Ready(t, time, Null)
    BY <1>2 DEF Serial!Eligible, Serial!Ready, Ready, Serial!Due, Due,
                Serial!Subscribed, Subscribed, Serial!mq_uuid_exists, mq_uuid_exists
  <2>2. QED
    BY <1>2, <2>1 DEF Ready
<1>3. CASE s.op = "keep_alive"
  BY <1>1, <1>3 DEF Serial!Eligible
<1>4. CASE s.op = "commit"
  BY <1>1, <1>4 DEF Serial!Eligible
<1>5. CASE s.op = "delete"
  BY <1>1, <1>5 DEF Serial!Eligible
<1>6. CASE s.op = "clear"
  BY <1>6 DEF Serial!Eligible
<1>7. QED
  BY <1>2, <1>3, <1>4, <1>5, <1>6, StatementKinds

(* A row goes on satisfying the condition of a call if what the condition  *)
(* is about stays as it is, or its predecessor goes.                       *)
LEMMA EligibleStays ==
    ASSUME NEW s \in Serial!Call, NEW t, NEW u, NEW time,
           NEW m \in Serial!Eligible(s, t, time), m \in DOMAIN u,
           u[m].attempt_at = t[m].attempt_at,
           u[m].commit_interval = t[m].commit_interval,
           mq_uuid_exists(u[m].after) => mq_uuid_exists(t[m].after)
    PROVE  m \in Serial!Eligible(s, u, time)
<1>2. CASE s.op = "poll"
  <2>1. /\ Serial!Eligible(s, t, time) = Ready(t, time, Null)
        /\ Serial!Eligible(s, u, time) = Ready(u, time, Null)
    BY <1>2, EligibleRows
  <2>2. QED
    BY <2>1 DEF Ready, Due, Subscribed
<1>3. CASE s.op = "keep_alive"
  BY <1>3 DEF Serial!Eligible
<1>4. CASE s.op = "commit"
  BY <1>4 DEF Serial!Eligible
<1>5. CASE s.op = "delete"
  BY <1>5 DEF Serial!Eligible
<1>6. CASE s.op = "clear"
  BY <1>6 DEF Serial!Eligible
<1>7. QED
  BY <1>2, <1>3, <1>4, <1>5, <1>6, StatementKinds

(* What a call does to the table.                                          *)
LEMMA AfterCalls ==
    ASSUME NEW s \in Serial!Call, NEW t, NEW S, NEW time
    PROVE  /\ s.op = "poll" => Serial!After(s, t, S, time) = AfterPoll(t, S, time)
           /\ s.op = "keep_alive" =>
                 Serial!After(s, t, S, time) = AfterKeepAlive(t, S, time + s.duration)
           /\ s.op = "commit" => Serial!After(s, t, S, time) = AfterCommit(t, S)
           /\ s.op \in {"delete", "clear"} => Serial!After(s, t, S, time) = AfterDelete(t, S)
<1>1. s.op = "poll" => Serial!After(s, t, S, time) = AfterPoll(t, S, time)
  BY DEF Serial!After, Serial!AfterPoll, AfterPoll, Serial!Claimed, Claimed
<1>2. s.op = "keep_alive" =>
         Serial!After(s, t, S, time) = AfterKeepAlive(t, S, time + s.duration)
  BY DEF Serial!After, Serial!AfterKeepAlive, AfterKeepAlive, Serial!KeptAlive, KeptAlive
<1>3. s.op = "commit" => Serial!After(s, t, S, time) = AfterCommit(t, S)
  BY DEF Serial!After, Serial!AfterCommit, AfterCommit, Serial!Committed, Committed
<1>4. s.op \in {"delete", "clear"} => Serial!After(s, t, S, time) = AfterDelete(t, S)
  BY DEF Serial!After, Serial!AfterDelete, AfterDelete
<1>5. QED
  BY <1>1, <1>2, <1>3, <1>4

(* Its insert is the one of MqTables.                                      *)
LEMMA SerialInsert ==
    ASSUME NEW t, NEW m, NEW new, NEW time, NEW last
    PROVE  Serial!AfterInsert(t, m, Serial!NewRow(new, time, last))
           = AfterInsert(t, m, NewRow(new, time, last))
BY DEF Serial!AfterInsert, AfterInsert, Serial!NewRow, NewRow, Serial!Coalesce, Coalesce

-----------------------------------------------------------------------------
(* Steps that leave the table alone.                                       *)

(* Nothing of transaction u changes.                                       *)
Same(u) ==
    /\ stmt'[u] = stmt[u] /\ start'[u] = start[u] /\ phase'[u] = phase[u]
    /\ todo'[u] = todo[u] /\ next'[u] = next[u] /\ tail'[u] = tail[u]
    /\ locks'[u] = locks[u] /\ got'[u] = got[u]

(* What is said of a transaction depends on its variables.                 *)
LEMMA SameTransaction ==
    ASSUME NEW u, Same(u)
    PROVE  /\ Chosen(u)' = Chosen(u)
           /\ Inserting(u)' = Inserting(u) /\ Deleting(u)' = Deleting(u)
           /\ Ordered(u)' = Ordered(u) /\ Written(u)' = Written(u)
           /\ CallInv(u)' = CallInv(u)
           /\ WaitInv(u)' = WaitInv(u)
BY DEF Same, Chosen, Inserting, Deleting, Ordered, Written, CallInv, WaitInv

(* As long as the table stays, a transaction that does not move keeps its  *)
(* part of the invariant.                                                  *)
LEMMA OthersStay ==
    ASSUME msgs' = msgs, spent' = spent, NEW u, Same(u), TxInv(u)
    PROVE  TxInv(u)'
<1>1. RowsInv(u)'
  BY SameTransaction DEF TxInv, RowsInv, Same
<1>2. SameKey(u)' = SameKey(u)
  BY DEF SameKey, Same
<1>3. InsertInv(u)'
  BY <1>2, SameTransaction DEF TxInv, InsertInv, Same
<1>4. QED
  BY <1>1, <1>3, SameTransaction DEF TxInv

(* Two that do not move keep what relates them.                            *)
LEMMA PairsStay ==
    ASSUME NEW u, NEW v, Same(u), Same(v), PairInv(u, v)
    PROVE  PairInv(u, v)'
BY SameTransaction DEF PairInv, Same

(* So a step of one transaction is to be looked at for that one only.      *)
LEMMA StepKeeps ==
    ASSUME IInv, NEW t \in Tx, \A u \in Tx \ {t} : Same(u),
           msgs' = msgs, spent' = spent,
           TransactionsTypeOK', TxInv(t)',
           \A u \in Tx \ {t} : PairInv(t, u)' /\ PairInv(u, t)'
    PROVE  IInv'
<1>1. TableInv'
  BY DEF IInv, TableInv
<1>2. ASSUME NEW u \in Tx PROVE TxInv(u)'
  BY OthersStay DEF IInv
<1>3. ASSUME NEW u \in Tx, NEW v \in Tx, u # v PROVE PairInv(u, v)'
  <2>1. CASE u # t /\ v # t
    BY <1>3, <2>1, PairsStay DEF IInv
  <2>2. CASE u = t \/ v = t
    BY <1>3, <2>2
  <2>3. QED
    BY <2>1, <2>2
<1>4. QED
  BY <1>1, <1>2, <1>3 DEF IInv

(* A call begins with rows of its snapshot, which is the table as it is.   *)
LEMMA BeginKeeps ==
    ASSUME IInv, NEW t \in Tx, NEW s \in Statements, NEW time \in 0..now, Begin(t, s, time)
    PROVE  IInv'
<1>1. \A u \in Tx \ {t} : Same(u)
  BY DEF Begin, Same, IInv, TransactionsTypeOK
<1>2. PICK S \in Found(s, time) : todo' = [todo EXCEPT ![t] = S]
  BY DEF Begin
<1>3. s \in Serial!Call /\ s \notin Serial!Insert /\ s # Null
  BY StatementKinds DEF Begin
<1>4. S \subseteq Serial!Eligible(s, msgs, time)
  <2>1. CASE s.op = "poll"
    BY <1>2, <1>3, <2>1, EligibleRows DEF Found, IsBatch
  <2>2. CASE s.op # "poll"
    BY <1>2, <2>2 DEF Found
  <2>3. QED
    BY <2>1, <2>2
<1>5. /\ stmt'[t] = s /\ start'[t] = time /\ phase'[t] = "update" /\ todo'[t] = S
      /\ next'[t] = Null /\ locks'[t] = {} /\ got'[t] = {} /\ tail'[t] = Null
  <2>1. TxInv(t) /\ phase[t] = "idle"
    BY DEF IInv, Begin
  <2>2. next[t] = Null /\ locks[t] = {} /\ got[t] = {}
    BY <2>1 DEF TxInv, CallInv
  <2>3. tail[t] = Null
    BY <2>1 DEF TxInv, CallInv
  <2>4. QED
    BY <1>2, <2>2, <2>3 DEF Begin, IInv, TransactionsTypeOK
<1>6. TransactionsTypeOK'
  <2>1. Null \notin MsgId
    BY TablesAssumption
  <2>2. S \in SUBSET MsgId
    BY <1>3, <1>4, EligibleRows DEF IInv, TransactionsTypeOK
  <2>3. phase[t] = "idle"
    BY DEF Begin
  <2>4. QED
    BY <1>2, <1>3, <2>2, <2>3 DEF Begin, IInv, TransactionsTypeOK, Phases
<1>7. /\ ~ Inserting(t)' /\ ~ Ordered(t)' /\ ~ Written(t)'
      /\ Deleting(t)' <=> s.op \in {"delete", "clear"}
      /\ Chosen(t)' = S
  BY <1>3, <1>5 DEF Inserting, Ordered, Written, Deleting, Chosen
<1>8. CallInv(t)'
  BY <1>3, <1>5 DEF CallInv
<1>9. S \subseteq spent \ {Nil}
  BY <1>3, <1>4, EligibleRows DEF IInv, TransactionsTypeOK
<1>10. s.op = "poll" => \A m \in S \cap DOMAIN msgs : ~ mq_uuid_exists(msgs[m].after)
  BY <1>3, <1>4, EligibleRows DEF Ready
<1>11. s.op = "delete" => S \subseteq s.ids
  BY <1>3, <1>4, EligibleRows
<1>12. s.op \in {"delete", "clear"} => Closed(msgs, S \cap DOMAIN msgs)
  <2>1. CASE s.op = "delete"
    BY <1>11, <2>1 DEF Begin, MayCall, Closed
  <2>2. CASE s.op = "clear"
    <3>1. S = DOMAIN msgs \ {Nil}
      BY <1>2, <1>3, <2>2, EligibleRows DEF Found
    <3>2. QED
      BY <3>1 DEF Closed, mq_uuid_exists, IInv, TableInv, Consistent, ForeignKeyOK
  <2>3. QED
    BY <2>1, <2>2
<1>13. msgs' = msgs /\ spent' = spent
  BY DEF Begin
<1>14. RowsInv(t)'
  BY <1>5, <1>7, <1>9, <1>10, <1>11, <1>12, <1>13 DEF RowsInv
<1>15. WaitInv(t)'
  BY <1>5 DEF WaitInv
<1>16. InsertInv(t)'
  BY <1>7 DEF InsertInv
<1>17. ASSUME NEW u \in Tx \ {t} PROVE PairInv(t, u)' /\ PairInv(u, t)'
  BY <1>5, <1>7 DEF PairInv
<1>18. QED
  BY <1>1, <1>6, <1>8, <1>13, <1>14, <1>15, <1>16, <1>17, StepKeeps DEF TxInv

(* It waits for one of its rows, which somebody else has.                  *)
LEMMA WaitKeeps ==
    ASSUME IInv, NEW t \in Tx, NEW m \in MsgId, Wait(t, m)
    PROVE  IInv'
<1>1. (\A u \in Tx \ {t} : Same(u)) /\ msgs' = msgs /\ spent' = spent
  BY DEF Wait, Same, IInv, TransactionsTypeOK
<1>2. /\ stmt'[t] = stmt[t] /\ start'[t] = start[t] /\ phase'[t] = phase[t]
      /\ locks'[t] = locks[t] /\ got'[t] = got[t] /\ tail'[t] = tail[t]
      /\ next[t] = Null /\ m \in todo[t]
      /\ next'[t] = m /\ todo'[t] = todo[t] \ {m}
      /\ phase[t] \in {"update", "cascade"}
  BY DEF Wait, IInv, TransactionsTypeOK
<1>3. TransactionsTypeOK'
  BY <1>2 DEF Wait, IInv, TransactionsTypeOK
<1>4. TxInv(t) /\ m # Null
  BY TablesAssumption DEF IInv
<1>5. /\ Inserting(t)' = Inserting(t) /\ Deleting(t)' = Deleting(t)
      /\ Ordered(t)' = Ordered(t) /\ Written(t)' = Written(t)
      /\ Chosen(t)' = Chosen(t)
  BY <1>2, <1>4 DEF Inserting, Deleting, Ordered, Written, Chosen
<1>6. CallInv(t)'
  BY <1>2, <1>4, <1>5 DEF TxInv, CallInv
<1>7. RowsInv(t)'
  BY <1>1, <1>2, <1>4, <1>5 DEF TxInv, RowsInv
<1>8. WaitInv(t)'
  <2>1. PICK u \in Tx \ {t} : LockConflict(t, m, u)
    BY DEF Wait
  <2>2. CASE m \in locks[u]
    BY <1>2, <2>2 DEF WaitInv, IInv, TransactionsTypeOK
  <2>3. CASE Deleting(t) /\ phase[u] = "inserted" /\ m = tail[u]
    <3>1. Ordered(u) /\ PairInv(u, t)
      BY <1>4, <2>3 DEF IInv, TxInv, CallInv, Ordered, Inserting
    <3>2. QED
      BY <1>2, <2>3, <3>1 DEF WaitInv, PairInv
  <2>4. QED
    BY <2>1, <2>2, <2>3 DEF LockConflict
<1>9. ~ Inserting(t) /\ ~ Ordered(t) /\ ~ Written(t)
  BY <1>2, <1>4, StatementKinds DEF TxInv, CallInv, Inserting, Ordered, Written
<1>10. InsertInv(t)'
  BY <1>5, <1>9 DEF InsertInv
<1>11. ASSUME NEW u \in Tx \ {t} PROVE PairInv(t, u)' /\ PairInv(u, t)'
  <2>1. Same(u) /\ PairInv(u, t)
    BY <1>1 DEF IInv
  <2>2. QED
    BY <1>2, <1>5, <1>9, <2>1, SameTransaction DEF PairInv, Same
<1>12. QED
  BY <1>1, <1>3, <1>6, <1>7, <1>8, <1>10, <1>11, StepKeeps DEF TxInv

(* It gets in line.                                                        *)
LEMMA LockTupleKeeps ==
    ASSUME IInv, NEW t \in Tx, LockTuple(t)
    PROVE  IInv'
<1>1. (\A u \in Tx : Same(u)) /\ msgs' = msgs /\ spent' = spent
  BY DEF LockTuple, Same
<1>2. TransactionsTypeOK'
  BY DEF LockTuple, IInv, TransactionsTypeOK
<1>3. TxInv(t)'
  BY <1>1, OthersStay DEF IInv
<1>4. \A u \in Tx \ {t} : PairInv(t, u)' /\ PairInv(u, t)'
  BY <1>1, PairsStay DEF IInv
<1>5. QED
  BY <1>1, <1>2, <1>3, <1>4, StepKeeps

(* A row it locks and has tested again is its own until it ends.           *)
LEMMA LockKeeps ==
    ASSUME IInv, NEW t \in Tx, NEW m \in MsgId, Lock(t, m)
    PROVE  IInv'
<1>1. (\A u \in Tx \ {t} : Same(u)) /\ msgs' = msgs /\ spent' = spent
  BY DEF Lock, Reaches, Same, IInv, TransactionsTypeOK
<1>2. /\ stmt'[t] = stmt[t] /\ start'[t] = start[t] /\ phase'[t] = phase[t]
      /\ todo'[t] = todo[t] \ {m} /\ tail'[t] = tail[t] /\ next'[t] = Null
      /\ locks'[t] = IF m \in DOMAIN msgs THEN locks[t] \cup {m} ELSE locks[t]
      /\ got'[t] = IF phase[t] = "update" /\ PassesAgain(t, m)
                   THEN got[t] \cup {m} ELSE got[t]
      /\ m \in todo[t] \cup ({next[t]} \ {Null})
      /\ next[t] = Null \/ next[t] = m
      /\ \A u \in Tx \ {t} : ~ LockConflict(t, m, u)
  BY TablesAssumption DEF Lock, Reaches, IInv, TransactionsTypeOK
<1>3. TxInv(t) /\ TransactionsTypeOK
  BY DEF IInv
<1>4. /\ phase[t] \in {"update", "cascade"}
      /\ m \in spent \ {Nil} /\ m \in MsgId
      /\ stmt[t] \in Serial!Call /\ stmt[t] \notin Serial!Insert
  <2>1. phase[t] \in {"update", "cascade"} /\ m \in spent \ {Nil}
    BY <1>2, <1>3 DEF TxInv, CallInv, RowsInv
  <2>2. QED
    BY <1>2, <1>3, <2>1, StatementKinds DEF TxInv, CallInv, TransactionsTypeOK
<1>5. PassesAgain(t, m) => m \in DOMAIN msgs
  BY DEF PassesAgain
<1>6. TransactionsTypeOK'
  <2>1. \A u \in Tx \ {t} : m \notin locks[u]
    BY <1>2 DEF LockConflict
  <2>2. \A u \in Tx \ {t} : locks'[u] = locks[u]
    BY <1>1 DEF Same
  <2>3. \A u, v \in Tx : u # v => locks'[u] \cap locks'[v] = {}
    BY <1>2, <1>3, <2>1, <2>2 DEF TransactionsTypeOK
  <2>4. /\ locks' \in [Tx -> SUBSET DOMAIN msgs]
        /\ got' \in [Tx -> SUBSET DOMAIN msgs]
        /\ next' \in [Tx -> MsgId \cup {Null}]
        /\ todo' \in [Tx -> SUBSET MsgId]
        /\ first' \in [Tx -> BOOLEAN]
    BY <1>3, <1>5 DEF TransactionsTypeOK, Lock
  <2>5. UNCHANGED <<msgs, now, spent, stmt, start, phase, tail, error>>
    BY DEF Lock
  <2>6. QED
    BY <1>3, <2>3, <2>4, <2>5 DEF TransactionsTypeOK
<1>7. /\ Inserting(t)' = Inserting(t) /\ Deleting(t)' = Deleting(t)
      /\ Ordered(t)' = Ordered(t) /\ Written(t)' = Written(t)
      /\ ~ Inserting(t) /\ ~ Ordered(t) /\ ~ Written(t)
  BY <1>2, <1>4 DEF Inserting, Deleting, Ordered, Written
<1>8. CallInv(t)'
  BY <1>2, <1>3, <1>4, <1>7 DEF TxInv, CallInv
<1>9. /\ Chosen(t)' \subseteq Chosen(t)
      /\ phase[t] = "update" => m \in Chosen(t)
  BY <1>2, <1>4 DEF Chosen
<1>10. phase[t] = "update" /\ PassesAgain(t, m)
       => m \in Serial!Eligible(stmt[t], msgs, start[t])
  <2>1. ASSUME phase[t] = "update", PassesAgain(t, m), stmt[t].op = "poll"
        PROVE  m \in Serial!Eligible(stmt[t], msgs, start[t])
    <3>1. m \in DOMAIN msgs /\ Due(msgs[m], start[t])
      BY <2>1 DEF PassesAgain
    <3>2. ~ mq_uuid_exists(msgs[m].after)
      BY <1>3, <1>9, <2>1, <3>1 DEF TxInv, RowsInv
    <3>3. m \in Ready(msgs, start[t], Null)
      BY <1>4, <3>1, <3>2 DEF Ready, Subscribed
    <3>4. QED
      BY <1>4, <2>1, <3>3, EligibleRows
  <2>2. QED
    BY <2>1 DEF PassesAgain
<1>11. got'[t] # {} => got'[t] \subseteq Serial!Eligible(stmt[t], msgs, start[t])
  BY <1>2, <1>3, <1>10 DEF TxInv, RowsInv
<1>12. Deleting(t) => Chosen(t)' \cap DOMAIN msgs = Chosen(t) \cap DOMAIN msgs
  <2>1. CASE phase[t] = "update"
    <3>1. ASSUME Deleting(t), m \in DOMAIN msgs PROVE PassesAgain(t, m)
      <4>1. CASE stmt[t].op = "delete"
        <5>1. m \in stmt[t].ids
          BY <1>3, <1>9, <2>1, <4>1 DEF TxInv, RowsInv
        <5>2. QED
          BY <1>4, <3>1, <4>1, <5>1, EligibleRows DEF PassesAgain
      <4>2. CASE stmt[t].op = "clear"
        BY <1>4, <3>1, <4>2, EligibleRows DEF PassesAgain
      <4>3. QED
        BY <3>1, <4>1, <4>2 DEF Deleting
    <3>2. QED
      BY <1>2, <2>1, <3>1 DEF Chosen
  <2>2. CASE phase[t] = "cascade"
    BY <1>2, <2>2 DEF Chosen
  <2>3. QED
    BY <1>4, <2>1, <2>2
<1>13. RowsInv(t)'
  <2>1. /\ todo'[t] \cup ({next'[t]} \ {Null}) \subseteq spent \ {Nil}
        /\ Nil \notin locks'[t]
        /\ got'[t] \subseteq locks'[t]
    BY <1>2, <1>3, <1>4, <1>5 DEF TxInv, RowsInv
  <2>2. /\ phase[t] = "update" /\ stmt[t].op = "poll"
           => \A i \in Chosen(t)' \cap DOMAIN msgs : ~ mq_uuid_exists(msgs[i].after)
        /\ phase[t] = "update" /\ stmt[t].op = "delete" => Chosen(t)' \subseteq stmt[t].ids
    BY <1>3, <1>9 DEF TxInv, RowsInv
  <2>3. Deleting(t) => Closed(msgs, Chosen(t)' \cap DOMAIN msgs)
    BY <1>3, <1>12 DEF TxInv, RowsInv
  <2>4. QED
    BY <1>1, <1>2, <1>7, <1>11, <2>1, <2>2, <2>3 DEF RowsInv
<1>14. WaitInv(t)'
  BY <1>2 DEF WaitInv
<1>15. InsertInv(t)'
  BY <1>7 DEF InsertInv
<1>16. ASSUME NEW u \in Tx \ {t} PROVE PairInv(t, u)' /\ PairInv(u, t)'
  <2>1. Same(u) /\ PairInv(u, t) /\ ~ LockConflict(t, m, u)
    BY <1>1, <1>2 DEF IInv
  <2>2. QED
    BY <1>2, <1>7, <2>1, SameTransaction DEF PairInv, Same, LockConflict
<1>17. QED
  BY <1>1, <1>6, <1>8, <1>13, <1>14, <1>15, <1>16, StepKeeps DEF TxInv

(* A delete does the same to the successors of its rows.                   *)
LEMMA CascadeKeeps ==
    ASSUME IInv, NEW t \in Tx, Cascade(t)
    PROVE  IInv'
<1> DEFINE after == {m \in DOMAIN msgs \ got[t] : msgs[m].after \in got[t]}
<1>1. (\A u \in Tx \ {t} : Same(u)) /\ msgs' = msgs /\ spent' = spent
  BY DEF Cascade, Same, IInv, TransactionsTypeOK
<1>2. /\ stmt'[t] = stmt[t] /\ start'[t] = start[t] /\ next'[t] = next[t]
      /\ locks'[t] = locks[t] /\ got'[t] = got[t] /\ tail'[t] = tail[t]
      /\ phase[t] = "update" /\ todo[t] = {} /\ next[t] = Null
      /\ phase'[t] = "cascade"
      /\ todo'[t] = IF Deleting(t) THEN after ELSE {}
  BY DEF Cascade, IInv, TransactionsTypeOK
<1>3. TxInv(t) /\ TransactionsTypeOK /\ TableInv
  BY DEF IInv
<1>4. after \subseteq spent \ {Nil} /\ after \subseteq MsgId
  <2>1. Null \notin got[t]
    BY <1>3, TablesAssumption DEF TransactionsTypeOK
  <2>2. Nil \notin after
    BY <1>3, <2>1 DEF TableInv, NilRow
  <2>3. QED
    BY <1>3, <2>2 DEF TransactionsTypeOK
<1>5. TransactionsTypeOK'
  BY <1>2, <1>3, <1>4 DEF TransactionsTypeOK, Cascade, Phases
<1>6. /\ Inserting(t)' = Inserting(t) /\ Deleting(t)' = Deleting(t)
      /\ Chosen(t)' = Chosen(t)
      /\ ~ Inserting(t) /\ ~ Ordered(t)' /\ ~ Written(t)'
  BY <1>2, <1>3, StatementKinds
     DEF TxInv, CallInv, Inserting, Deleting, Ordered, Written, Chosen
<1>7. CallInv(t)'
  BY <1>2, <1>3, <1>6 DEF TxInv, CallInv
<1>8. RowsInv(t)'
  BY <1>1, <1>2, <1>3, <1>4, <1>6 DEF TxInv, RowsInv
<1>9. WaitInv(t)'
  BY <1>2 DEF WaitInv
<1>10. InsertInv(t)'
  BY <1>6 DEF InsertInv
<1>11. ASSUME NEW u \in Tx \ {t} PROVE PairInv(t, u)' /\ PairInv(u, t)'
  <2>1. Same(u) /\ PairInv(u, t)
    BY <1>1 DEF IInv
  <2>2. QED
    BY <1>2, <1>6, <2>1, SameTransaction DEF PairInv, Same
<1>12. QED
  BY <1>1, <1>5, <1>7, <1>8, <1>9, <1>10, <1>11, StepKeeps DEF TxInv

(* The message before a new one: the nil one, or an ordered one of the     *)
(* channel that has no successor yet.                                      *)
LEMMA LatestIsTail ==
    ASSUME NEW t, NEW ch, NEW m \in mq_latest_message(t, ch)
    PROVE  m = Nil \/ m \in Tails(t, ch)
BY DEF mq_latest_message

(* An insert begins with the latest message of its snapshot as the one     *)
(* before it.                                                              *)
LEMMA BeginInsertKeeps ==
    ASSUME IInv, NEW t \in Tx, NEW s \in Statements, NEW time \in 0..now,
           BeginInsert(t, s, time)
    PROVE  IInv'
<1>1. (\A u \in Tx \ {t} : Same(u)) /\ msgs' = msgs /\ spent' = spent
  BY DEF BeginInsert, Same, IInv, TransactionsTypeOK
<1>2. PICK m \in mq_latest_message(msgs, s.new.channel) :
         tail' = [tail EXCEPT ![t] = IF s.new.ordered THEN m ELSE Null]
  BY DEF BeginInsert
<1>3. /\ s \in Serial!Insert /\ s \notin Serial!Call /\ s # Null
      /\ s.op = "insert" /\ s.id \in MsgId /\ s.new \in NewJob
  BY StatementKinds DEF BeginInsert
<1>4. TxInv(t) /\ TransactionsTypeOK /\ TableInv /\ phase[t] = "idle"
  BY DEF IInv, BeginInsert
<1>5. /\ stmt'[t] = s /\ start'[t] = time
      /\ phase'[t] = IF s.new.ordered THEN "unique" ELSE "inserted"
      /\ tail'[t] = IF s.new.ordered THEN m ELSE Null
      /\ todo'[t] = {} /\ next'[t] = Null /\ locks'[t] = {} /\ got'[t] = {}
  <2>1. todo[t] = {} /\ next[t] = Null /\ locks[t] = {} /\ got[t] = {}
    BY <1>4 DEF TxInv, CallInv
  <2>2. QED
    BY <1>2, <2>1 DEF BeginInsert, IInv, TransactionsTypeOK
<1>6. /\ m = Nil \/ m \in Tails(msgs, s.new.channel)
      /\ m \in MsgId \cup {Nil} /\ m \in spent
  BY <1>2, <1>4, LatestIsTail DEF Tails, TransactionsTypeOK, TableInv
<1>7. TransactionsTypeOK'
  BY <1>2, <1>3, <1>4, <1>6 DEF TransactionsTypeOK, BeginInsert, Phases
<1>8. /\ Inserting(t)' /\ ~ Deleting(t)' /\ ~ Written(t)'
      /\ Ordered(t)' => s.new.ordered
      /\ Chosen(t)' = {}
  BY <1>3, <1>5 DEF Inserting, Deleting, Ordered, Written, Chosen
<1>9. CallInv(t)'
  BY <1>3, <1>5 DEF CallInv
<1>10. RowsInv(t)'
  BY <1>3, <1>5, <1>8 DEF RowsInv, Closed
<1>11. WaitInv(t)'
  BY <1>5 DEF WaitInv
<1>12. InsertInv(t)'
  <2>1. s.id \notin spent
    BY <1>3 DEF BeginInsert, MayCall
  <2>2. m \in DOMAIN msgs \ {Nil} =>
           msgs[m].channel = s.new.channel /\ msgs[m].after # Null
    BY <1>6 DEF Tails
  <2>3. QED
    BY <1>1, <1>5, <1>6, <1>8, <2>1, <2>2 DEF InsertInv
<1>13. ASSUME NEW u \in Tx \ {t} PROVE PairInv(t, u)' /\ PairInv(u, t)'
  <2>1. Same(u) /\ (Inserting(u) => stmt[u].id # s.id)
    BY <1>1, <1>3 DEF BeginInsert, MayCall
  <2>2. QED
    BY <1>5, <1>8, <2>1, SameTransaction DEF PairInv, Same
<1>14. QED
  BY <1>1, <1>7, <1>9, <1>10, <1>11, <1>12, <1>13, StepKeeps DEF TxInv

(* The index has no such key, neither committed nor of another open        *)
(* insert; or it raises an error.                                          *)
LEMMA CheckUniqueKeeps ==
    ASSUME IInv, NEW t \in Tx, CheckUnique(t)
    PROVE  IInv'
<1>1. (\A u \in Tx \ {t} : Same(u)) /\ msgs' = msgs /\ spent' = spent
  BY DEF CheckUnique, Raise, Same, IInv, TransactionsTypeOK
<1>2. /\ stmt'[t] = stmt[t] /\ start'[t] = start[t] /\ tail'[t] = tail[t]
      /\ todo'[t] = todo[t] /\ next'[t] = next[t]
      /\ locks'[t] = locks[t] /\ got'[t] = got[t]
      /\ phase[t] = "unique"
      /\ phase'[t] = IF SameKey(t) # {} THEN "failed" ELSE "foreign"
  BY DEF CheckUnique, Raise, IInv, TransactionsTypeOK
<1>3. TxInv(t) /\ TransactionsTypeOK
  BY DEF IInv
<1>4. TransactionsTypeOK'
  BY <1>2, <1>3 DEF TransactionsTypeOK, CheckUnique, Raise, Phases
<1>5. /\ stmt[t] \in Serial!Insert /\ stmt[t].op = "insert" /\ stmt[t].new.ordered
      /\ todo[t] = {} /\ next[t] = Null /\ locks[t] = {} /\ got[t] = {}
  BY <1>2, <1>3, StatementKinds DEF TxInv, CallInv
<1>6. /\ Inserting(t) /\ Ordered(t)
      /\ Inserting(t)' /\ Ordered(t)' /\ ~ Deleting(t)'
      /\ Written(t)' => phase'[t] = "foreign" /\ SameKey(t) = {}
      /\ Chosen(t)' = {}
  BY <1>2, <1>5 DEF Inserting, Deleting, Ordered, Written, Chosen
<1>7. CallInv(t)'
  BY <1>2, <1>5 DEF CallInv
<1>8. RowsInv(t)'
  BY <1>2, <1>5, <1>6 DEF RowsInv, Closed
<1>9. WaitInv(t)'
  BY <1>2, <1>5 DEF WaitInv
<1>10. SameKey(t)' = SameKey(t)
  BY <1>1, <1>2 DEF SameKey
<1>11. InsertInv(t)'
  BY <1>1, <1>2, <1>3, <1>6, <1>10 DEF TxInv, InsertInv
<1>12. ASSUME NEW u \in Tx \ {t} PROVE PairInv(t, u)' /\ PairInv(u, t)'
  <2>1. Same(u) /\ PairInv(t, u) /\ PairInv(u, t) /\ ~ KeyConflict(t, u)
    BY <1>1 DEF IInv, CheckUnique
  <2>2. Written(u) => stmt[u].new.channel # stmt[t].new.channel \/ tail[u] # tail[t]
    BY <2>1 DEF KeyConflict, Written, Ordered
  <2>3. QED
    BY <1>2, <1>6, <2>1, <2>2, SameTransaction DEF PairInv, Same
<1>13. QED
  BY <1>1, <1>4, <1>7, <1>8, <1>9, <1>11, <1>12, StepKeeps DEF TxInv

(* The message before is there, and nobody has locked it to delete it; or  *)
(* an error is raised.                                                     *)
LEMMA CheckForeignKeeps ==
    ASSUME IInv, NEW t \in Tx, CheckForeign(t)
    PROVE  IInv'
<1>1. (\A u \in Tx \ {t} : Same(u)) /\ msgs' = msgs /\ spent' = spent
  BY DEF CheckForeign, Raise, Same, IInv, TransactionsTypeOK
<1>2. /\ stmt'[t] = stmt[t] /\ start'[t] = start[t] /\ tail'[t] = tail[t]
      /\ todo'[t] = todo[t] /\ next'[t] = next[t]
      /\ locks'[t] = locks[t] /\ got'[t] = got[t]
      /\ phase[t] = "foreign"
      /\ phase'[t] = IF tail[t] \notin DOMAIN msgs THEN "failed" ELSE "inserted"
  BY DEF CheckForeign, Raise, IInv, TransactionsTypeOK
<1>3. TxInv(t) /\ TransactionsTypeOK
  BY DEF IInv
<1>4. TransactionsTypeOK'
  BY <1>2, <1>3 DEF TransactionsTypeOK, CheckForeign, Raise, Phases
<1>5. /\ stmt[t] \in Serial!Insert /\ stmt[t].op = "insert" /\ stmt[t].new.ordered
      /\ todo[t] = {} /\ next[t] = Null /\ locks[t] = {} /\ got[t] = {}
  BY <1>2, <1>3, StatementKinds DEF TxInv, CallInv
<1>6. /\ Inserting(t) /\ Ordered(t) /\ Written(t)
      /\ Inserting(t)' /\ Ordered(t)' /\ ~ Deleting(t)'
      /\ Chosen(t)' = {}
  BY <1>2, <1>5 DEF Inserting, Deleting, Ordered, Written, Chosen
<1>7. CallInv(t)'
  BY <1>2, <1>5 DEF CallInv
<1>8. RowsInv(t)'
  BY <1>2, <1>5, <1>6 DEF RowsInv, Closed
<1>9. WaitInv(t)'
  BY <1>2, <1>5 DEF WaitInv
<1>10. SameKey(t)' = SameKey(t)
  BY <1>1, <1>2 DEF SameKey
<1>11. InsertInv(t)'
  BY <1>1, <1>2, <1>3, <1>6, <1>10 DEF TxInv, InsertInv
<1>12. ASSUME NEW u \in Tx \ {t} PROVE PairInv(t, u)' /\ PairInv(u, t)'
  <2>1. Same(u) /\ PairInv(t, u) /\ PairInv(u, t) /\ ~ ClaimConflict(t, u)
    BY <1>1 DEF IInv, CheckForeign
  <2>2. QED
    BY <1>2, <1>6, <2>1, SameTransaction DEF PairInv, Same, ClaimConflict
<1>13. QED
  BY <1>1, <1>4, <1>7, <1>8, <1>9, <1>11, <1>12, StepKeeps DEF TxInv

(* A transaction that has ended asks for nothing.                          *)
LEMMA EndedTransaction ==
    ASSUME TransactionsTypeOK, NEW t \in Tx, Ends(t)
    PROVE  /\ \A u \in Tx \ {t} : Same(u)
           /\ TxInv(t)'
           /\ ~ Inserting(t)' /\ ~ Deleting(t)' /\ ~ Ordered(t)' /\ ~ Written(t)'
           /\ \A u \in Tx \ {t} : PairInv(t, u)' /\ PairInv(u, t)'
<1>1. \A u \in Tx \ {t} : Same(u)
  BY DEF Ends, Same, TransactionsTypeOK
<1>2. /\ phase'[t] = "idle" /\ stmt'[t] = Null /\ todo'[t] = {} /\ next'[t] = Null
      /\ locks'[t] = {} /\ got'[t] = {} /\ tail'[t] = Null
  BY DEF Ends, TransactionsTypeOK
<1>3. /\ ~ Inserting(t)' /\ ~ Deleting(t)' /\ ~ Ordered(t)' /\ ~ Written(t)'
      /\ Chosen(t)' = {}
  BY <1>2 DEF Inserting, Deleting, Ordered, Written, Chosen
<1>4. CallInv(t)'
  BY <1>2 DEF CallInv
<1>5. RowsInv(t)'
  BY <1>2, <1>3 DEF RowsInv
<1>6. WaitInv(t)'
  BY <1>2 DEF WaitInv
<1>7. InsertInv(t)'
  BY <1>2, <1>3 DEF InsertInv
<1>8. \A u \in Tx \ {t} : PairInv(t, u)' /\ PairInv(u, t)'
  BY <1>2, <1>3 DEF PairInv
<1>9. QED
  BY <1>1, <1>3, <1>4, <1>5, <1>6, <1>7, <1>8 DEF TxInv

(* A rollback leaves nothing behind.                                       *)
LEMMA RollbackKeeps ==
    ASSUME IInv, NEW t \in Tx, Rollback(t)
    PROVE  IInv'
<1>1. TransactionsTypeOK /\ msgs' = msgs /\ spent' = spent /\ Ends(t)
  BY DEF IInv, Rollback
<1>2. TransactionsTypeOK'
  BY <1>1 DEF TransactionsTypeOK, Rollback, Ends, Phases
<1>3. QED
  BY <1>1, <1>2, EndedTransaction, StepKeeps

-----------------------------------------------------------------------------
(* Commits.                                                                *)

(* A call changes the rows S, and makes those after deleted ones first.    *)
Framed(s, t, S, q) ==
    /\ DOMAIN q = IF s.op \in {"delete", "clear"} THEN DOMAIN t \ S ELSE DOMAIN t
    /\ \A m \in DOMAIN q :
          /\ q[m].channel = t[m].channel
          /\ \/ q[m].after = t[m].after
             \/ q[m].after = Nil /\ t[m].after \in S
          /\ m \notin S => /\ q[m].attempt_at = t[m].attempt_at
                           /\ q[m].commit_interval = t[m].commit_interval
          /\ m \notin S /\ t[m].after \notin S => q[m] = t[m]
    /\ s.op \notin {"delete", "clear"} => SameLinks(t, q)

(* What a call leaves of a table, whichever it is.                         *)
LEMMA CallFrame ==
    ASSUME NEW s \in Serial!Call, NEW t, Table(t), NEW S, NEW time \in Int,
           NEW q, q = Serial!After(s, t, S, time)
    PROVE  Framed(s, t, S, q)
<1>1. CASE s.op \notin {"delete", "clear"}
  <2>1. SameLinks(t, q) /\ DOMAIN q = DOMAIN t
    <3>1. CASE s.op = "poll"
      BY <3>1, AfterCalls, TableLinks DEF SameLinks
    <3>2. CASE s.op = "keep_alive"
      BY <3>2, AfterCalls, TableLinks DEF SameLinks
    <3>3. CASE s.op = "commit"
      BY <3>3, AfterCalls, TableLinks DEF SameLinks
    <3>4. QED
      BY <1>1, <3>1, <3>2, <3>3, StatementKinds
  <2>2. \A m \in DOMAIN t : m \notin S => q[m] = t[m]
    <3>1. CASE s.op = "poll"
      BY <3>1, AfterCalls DEF AfterPoll
    <3>2. CASE s.op = "keep_alive"
      BY <3>2, AfterCalls DEF AfterKeepAlive
    <3>3. CASE s.op = "commit"
      BY <3>3, AfterCalls DEF AfterCommit
    <3>4. QED
      BY <1>1, <3>1, <3>2, <3>3, StatementKinds
  <2>3. QED
    BY <1>1, <2>1, <2>2 DEF SameLinks, Framed
<1>2. CASE s.op \in {"delete", "clear"}
  <2>1. q = AfterDelete(t, S)
    BY <1>2, AfterCalls
  <2>2. \A r \in Row : LET n == [r EXCEPT !.after = Nil]
                       IN  /\ n.after = Nil /\ n.channel = r.channel
                           /\ n.attempt_at = r.attempt_at
                           /\ n.commit_interval = r.commit_interval
    BY DEF Row
  <2>3. QED
    BY <1>2, <2>1, <2>2 DEF AfterDelete, Table, Framed
<1>3. QED
  BY <1>1, <1>2

(* What the table keeps when a call commits whose rows are as it wants     *)
(* them.                                                                   *)
LEMMA CallKeepsTable ==
    ASSUME TableInv, Table(msgs), NEW s \in Serial!Call, NEW time \in Int,
           NEW S \in SUBSET Serial!Eligible(s, msgs, time),
           s.op \in {"delete", "clear"} => Closed(msgs, S),
           msgs' = Serial!After(s, msgs, S, time)
    PROVE  TableInv' /\ Table(msgs')
<1>1. S \subseteq DOMAIN msgs \ {Nil}
  BY EligibleRows
<1>2. Null \notin S /\ Nil # Null /\ msgs[Nil].after = Null
  BY <1>1, TablesAssumption DEF Table, TableInv, NilRow
<1>3. /\ DOMAIN msgs' \subseteq DOMAIN msgs
      /\ Nil \in DOMAIN msgs' /\ msgs'[Nil] = NilRow
  <2>1. Framed(s, msgs, S, msgs')
    BY CallFrame
  <2>2. QED
    BY <1>1, <1>2, <2>1 DEF TableInv, Framed
<1>4. IsFiniteSet(DOMAIN msgs')
  BY <1>3, FS_Subset DEF TableInv
<1>5. Consistent(msgs') /\ Chained(msgs')
  <2>1. CASE s.op \in {"delete", "clear"}
    BY <1>1, <1>2, <2>1, AfterCalls, DeleteKeepsChains DEF TableInv
  <2>2. CASE s.op \notin {"delete", "clear"}
    <3>1. SameLinks(msgs, msgs')
      BY <2>2, CallFrame DEF Framed
    <3>2. QED
      BY <3>1, LinksKeepChains DEF TableInv
  <2>3. QED
    BY <2>1, <2>2
<1>6. Table(msgs') /\ AttemptsLeft(msgs')
  <2>1. CASE s.op = "poll"
    <3>1. \A m \in S \cap DOMAIN msgs : msgs[m].attempt_at # Null
      BY <2>1, EligibleRows DEF Ready, Due
    <3>2. QED
      BY <2>1, <3>1, AfterCalls, AttemptsLeftKept, TableTypes DEF TableInv
  <2>2. CASE s.op = "keep_alive"
    <3>1. time + s.duration \in Int
      BY StatementKinds
    <3>2. QED
      BY <2>2, <3>1, AfterCalls, AttemptsLeftKept, TableTypes DEF TableInv
  <2>3. CASE s.op = "commit"
    BY <2>3, AfterCalls, AttemptsLeftKept, TableTypes DEF TableInv
  <2>4. CASE s.op \in {"delete", "clear"}
    BY <2>4, AfterCalls, AttemptsLeftKept, TableTypes DEF TableInv
  <2>5. QED
    BY <2>1, <2>2, <2>3, <2>4, StatementKinds
<1>7. QED
  BY <1>3, <1>4, <1>5, <1>6 DEF TableInv

(* A commit changes only rows that its transaction has locked, so no other *)
(* can have tested or claimed them.                                        *)
LEMMA CommitUpdateKeeps ==
    ASSUME IInv, NEW t \in Tx, CommitUpdate(t)
    PROVE  IInv'
<1> DEFINE s == stmt[t]
           S == got[t]
<1>1. /\ phase[t] = "cascade" /\ todo[t] = {} /\ next[t] = Null
      /\ msgs' = Serial!After(s, msgs, S, start[t])
      /\ spent' = spent /\ Ends(t)
  BY DEF CommitUpdate
<1>2. TransactionsTypeOK /\ TableInv /\ TxInv(t)
  BY DEF IInv
<1>3. s \in Serial!Call /\ start[t] \in Int /\ Table(msgs)
  BY <1>1, <1>2 DEF TxInv, CallInv, TransactionsTypeOK, Table
<1>4. /\ S \subseteq locks[t] /\ S \subseteq DOMAIN msgs \ {Nil}
      /\ S \subseteq Serial!Eligible(s, msgs, start[t])
  BY <1>2 DEF TxInv, RowsInv, TransactionsTypeOK
<1>5. s.op \in {"delete", "clear"} => Deleting(t) /\ Closed(msgs, S)
  <2>1. Chosen(t) \cap DOMAIN msgs = S
    BY <1>1, <1>4 DEF Chosen
  <2>2. s.op \in {"delete", "clear"} => Deleting(t)
    BY <1>1 DEF Deleting
  <2>3. QED
    BY <1>2, <2>1, <2>2 DEF TxInv, RowsInv
<1>6. Framed(s, msgs, S, msgs')
  BY <1>1, <1>3, CallFrame
<1>7. TableInv' /\ Table(msgs')
  BY <1>1, <1>2, <1>3, <1>4, <1>5, CallKeepsTable
<1>8. /\ \A u \in Tx \ {t} : Same(u)
      /\ TxInv(t)'
      /\ \A u \in Tx \ {t} : PairInv(t, u)' /\ PairInv(u, t)'
  BY <1>1, <1>2, EndedTransaction
<1> HIDE DEF s, S
<1>9. \A u \in Tx \ {t} : /\ locks[u] \subseteq DOMAIN msgs' /\ got[u] \subseteq DOMAIN msgs'
                          /\ got[u] \cap S = {}
  BY <1>2, <1>4, <1>6 DEF IInv, TxInv, RowsInv, TransactionsTypeOK, Framed
<1>10. TransactionsTypeOK'
  <2>1. /\ locks' \in [Tx -> SUBSET DOMAIN msgs']
        /\ got' \in [Tx -> SUBSET DOMAIN msgs']
        /\ first' \in [Tx -> BOOLEAN]
    BY <1>1, <1>2, <1>9 DEF CommitUpdate, Ends, TransactionsTypeOK
  <2>2. DOMAIN msgs' \subseteq spent' /\ msgs' \in [DOMAIN msgs' -> Row]
    BY <1>1, <1>2, <1>6, <1>7 DEF Table, TransactionsTypeOK, Framed
  <2>3. QED
    BY <1>1, <1>2, <2>1, <2>2 DEF TransactionsTypeOK, Ends, Phases
<1>11. ASSUME NEW u \in Tx \ {t} PROVE TxInv(u)'
  <2>1. Same(u) /\ TxInv(u) /\ PairInv(u, t)
    BY <1>8 DEF IInv
  <2>2. \A m \in DOMAIN msgs' : /\ m \in DOMAIN msgs
                                /\ mq_uuid_exists(msgs'[m].after) =>
                                      /\ msgs'[m].after = msgs[m].after
                                      /\ mq_uuid_exists(msgs[m].after)
    BY <1>6 DEF mq_uuid_exists, Framed
  <2>3. ASSUME NEW m \in got[u]
        PROVE  m \in Serial!Eligible(stmt[u], msgs', start[u])
    <3>1. stmt[u] \in Serial!Call /\ m \in Serial!Eligible(stmt[u], msgs, start[u])
      BY <2>1, <2>3 DEF TxInv, CallInv, RowsInv
    <3>2. m \in DOMAIN msgs' /\ m \notin S
      BY <1>9, <2>3
    <3>3. QED
      BY <1>6, <2>2, <3>1, <3>2, EligibleStays DEF Framed
  <2>4. Deleting(u) => Closed(msgs', Chosen(u) \cap DOMAIN msgs')
    <3>1. \A m \in DOMAIN msgs' : msgs'[m].after # Null => msgs'[m].after \in DOMAIN msgs'
      BY <1>7 DEF TableInv, Consistent, ForeignKeyOK
    <3>2. QED
      BY <2>1, <2>2, <3>1 DEF TxInv, RowsInv, Closed, mq_uuid_exists
  <2>5. phase[u] = "update" /\ stmt[u].op = "poll"
        => \A m \in Chosen(u) \cap DOMAIN msgs' : ~ mq_uuid_exists(msgs'[m].after)
    BY <2>1, <2>2 DEF TxInv, RowsInv
  <2>6. RowsInv(u)'
    BY <1>1, <2>1, <2>3, <2>4, <2>5, SameTransaction DEF TxInv, RowsInv, Same
  <2>7. Written(u) => SameKey(u)' = {}
    <3>1. SUFFICES ASSUME Written(u), NEW m \in SameKey(u)' PROVE FALSE
      OBVIOUS
    <3>2. /\ SameKey(u) = {}
          /\ m \in DOMAIN msgs' /\ m \in DOMAIN msgs
          /\ msgs[m].channel = stmt[u].new.channel
          /\ msgs'[m].after = tail[u]
      BY <1>6, <2>1, <2>2, <3>1 DEF TxInv, InsertInv, SameKey, Same, Framed
    <3>3. msgs[m].after # tail[u]
      BY <3>2 DEF SameKey
    <3>4. tail[u] = Nil /\ msgs[m].after \in S
      BY <1>6, <3>2, <3>3 DEF Framed
    <3>5. m \in OrderedOf(msgs, stmt[u].new.channel)
      BY <1>2, <1>4, <3>2, <3>4, TablesAssumption DEF OrderedOf, TransactionsTypeOK
    <3>6. PICK h \in OrderedOf(msgs, stmt[u].new.channel) : msgs[h].after = Nil
      BY <1>2, <3>5, HeadExists DEF TableInv
    <3>7. QED
      BY <3>2, <3>4, <3>6 DEF OrderedOf, SameKey
  <2>8. Ordered(u) /\ phase[u] = "inserted" => tail[u] \in DOMAIN msgs'
    BY <1>4, <1>5, <1>6, <2>1 DEF TxInv, InsertInv, PairInv, Framed
  <2>9. Ordered(u) /\ tail[u] \in DOMAIN msgs' \ {Nil}
        => msgs'[tail[u]].channel = stmt[u].new.channel /\ msgs'[tail[u]].after # Null
    BY <1>6, <2>1, <2>2, TablesAssumption DEF TxInv, InsertInv, Framed
  <2>10. InsertInv(u)'
    BY <1>1, <2>1, <2>7, <2>8, <2>9, SameTransaction DEF TxInv, InsertInv, Same
  <2>11. QED
    BY <2>1, <2>6, <2>10, SameTransaction DEF TxInv
<1>12. ASSUME NEW u \in Tx, NEW v \in Tx, u # v PROVE PairInv(u, v)'
  <2>1. CASE u # t /\ v # t
    BY <1>8, <1>12, <2>1, PairsStay DEF IInv
  <2>2. CASE u = t \/ v = t
    BY <1>8, <1>12, <2>2
  <2>3. QED
    BY <2>1, <2>2
<1>13. QED
  BY <1>7, <1>8, <1>10, <1>11, <1>12 DEF IInv

(* The new row has the place the checks have kept for it.                  *)
LEMMA NewRowFits ==
    ASSUME IInv, NEW t \in Tx, phase[t] = "inserted"
    PROVE  LET row == NewRow(stmt[t].new, start[t], tail[t])
           IN  /\ row.channel = stmt[t].new.channel
               /\ row.after = IF Ordered(t) THEN tail[t] ELSE Null
               /\ row.attempts \in Nat \ {0}
               /\ Fits(msgs, row)
               /\ Table(AfterInsert(msgs, stmt[t].id, row))
<1> DEFINE row == NewRow(stmt[t].new, start[t], tail[t])
<1>1. TxInv(t) /\ TransactionsTypeOK /\ TableInv
  BY DEF IInv
<1>2. /\ stmt[t] \in Serial!Insert /\ stmt[t].id \in MsgId /\ stmt[t].new \in NewJob
      /\ Inserting(t) /\ Ordered(t) = stmt[t].new.ordered
      /\ Ordered(t) => Written(t)
  <2>1. stmt[t] \in Serial!Insert
    BY <1>1 DEF TxInv, CallInv
  <2>2. stmt[t].new.ordered \in BOOLEAN
    BY <2>1, StatementKinds DEF NewJob
  <2>3. QED
    BY <2>1, <2>2, StatementKinds DEF Inserting, Ordered, Written
<1>3. /\ row.channel = stmt[t].new.channel
      /\ row.after = IF Ordered(t) THEN tail[t] ELSE Null
      /\ row.attempts \in Nat \ {0}
  BY <1>2 DEF NewRow, NewJob
<1>4. Fits(msgs, row)
  <2>1. CASE Ordered(t)
    BY <1>1, <1>2, <1>3, <2>1 DEF TxInv, InsertInv, Fits, SameKey
  <2>2. CASE ~ Ordered(t)
    BY <1>3, <2>2 DEF Fits
  <2>3. QED
    BY <2>1, <2>2
<1>5. Table(AfterInsert(msgs, stmt[t].id, row))
  <2>1. Table(msgs) /\ start[t] \in Int /\ tail[t] \in MsgId \cup {Nil, Null}
    BY <1>1 DEF TransactionsTypeOK, Table
  <2>2. QED
    BY <1>2, <2>1, InsertTypes
<1>6. QED
  BY <1>3, <1>4, <1>5

(* A new message follows the last one of its channel, which is claimed,    *)
(* and nobody has seen it.                                                 *)
LEMMA CommitInsertKeeps ==
    ASSUME IInv, NEW t \in Tx, CommitInsert(t)
    PROVE  IInv'
<1> DEFINE s == stmt[t]
           row == NewRow(s.new, start[t], tail[t])
<1>1. /\ phase[t] = "inserted" /\ msgs' = AfterInsert(msgs, s.id, row)
      /\ spent' = spent \cup {s.id} /\ Ends(t)
  BY DEF CommitInsert
<1>2. TransactionsTypeOK /\ TableInv /\ TxInv(t)
  BY DEF IInv
<1>3. /\ row.channel = s.new.channel
      /\ row.after = IF Ordered(t) THEN tail[t] ELSE Null
      /\ row.attempts \in Nat \ {0}
      /\ Fits(msgs, row) /\ Table(msgs')
  BY <1>1, NewRowFits
<1>4. /\ Inserting(t) /\ s.id \in MsgId /\ s.id # Nil /\ s.id # Null
      /\ s.id \notin spent /\ s.id \notin DOMAIN msgs
      /\ Ordered(t) => Written(t)
  <2>1. s \in Serial!Insert
    BY <1>1, <1>2 DEF TxInv, CallInv
  <2>2. Inserting(t)
    BY <1>1, <2>1 DEF Inserting
  <2>3. QED
    BY <1>1, <1>2, <2>1, <2>2, StatementKinds, TablesAssumption
       DEF TxInv, InsertInv, TransactionsTypeOK, Ordered, Written
<1> HIDE DEF s, row
<1>5. /\ DOMAIN msgs' = DOMAIN msgs \cup {s.id}
      /\ msgs'[s.id] = row
      /\ \A m \in DOMAIN msgs : msgs'[m] = msgs[m]
  BY <1>1, <1>4 DEF AfterInsert
<1>6. TableInv'
  <2>1. IsFiniteSet(DOMAIN msgs')
    BY <1>2, <1>5, FS_AddElement DEF TableInv
  <2>2. Nil \in DOMAIN msgs' /\ msgs'[Nil] = NilRow
    BY <1>2, <1>5 DEF TableInv
  <2>3. Consistent(msgs') /\ Chained(msgs')
    BY <1>1, <1>2, <1>3, <1>4, InsertKeepsChains DEF TableInv
  <2>4. AttemptsLeft(msgs')
    <3>1. Table(msgs)
      BY <1>2 DEF TransactionsTypeOK, Table
    <3>2. QED
      BY <1>1, <1>2, <1>3, <3>1, AttemptsLeftKept DEF TableInv
  <2>5. QED
    BY <2>1, <2>2, <2>3, <2>4 DEF TableInv
<1>7. /\ \A u \in Tx \ {t} : Same(u)
      /\ TxInv(t)'
      /\ \A u \in Tx \ {t} : PairInv(t, u)' /\ PairInv(u, t)'
  BY <1>1, <1>2, EndedTransaction
<1>8. TransactionsTypeOK'
  <2>1. /\ locks' \in [Tx -> SUBSET DOMAIN msgs']
        /\ got' \in [Tx -> SUBSET DOMAIN msgs']
        /\ first' \in [Tx -> BOOLEAN]
    BY <1>1, <1>2, <1>5 DEF CommitInsert, Ends, TransactionsTypeOK
  <2>2. /\ DOMAIN msgs' \subseteq spent' /\ spent' \subseteq MsgId \cup {Nil}
        /\ msgs' \in [DOMAIN msgs' -> Row]
    BY <1>1, <1>2, <1>3, <1>4, <1>5 DEF Table, TransactionsTypeOK
  <2>3. QED
    BY <1>1, <1>2, <2>1, <2>2 DEF TransactionsTypeOK, Ends, Phases
<1>9. ASSUME NEW u \in Tx \ {t} PROVE TxInv(u)'
  <2>1. Same(u) /\ TxInv(u) /\ PairInv(u, t) /\ s.id \notin Chosen(u)
    <3>1. Same(u) /\ TxInv(u) /\ PairInv(u, t)
      BY <1>7 DEF IInv
    <3>2. s.id \notin Chosen(u)
      BY <1>2, <1>4, <3>1 DEF TxInv, RowsInv, Chosen, TransactionsTypeOK
    <3>3. QED
      BY <3>1, <3>2
  <2>2. Chosen(u) \cap DOMAIN msgs' = Chosen(u) \cap DOMAIN msgs
    BY <1>5, <2>1
  <2>3. ASSUME NEW m \in got[u]
        PROVE  m \in Serial!Eligible(stmt[u], msgs', start[u])
    <3>1. /\ stmt[u] \in Serial!Call /\ m \in DOMAIN msgs
          /\ m \in Serial!Eligible(stmt[u], msgs, start[u])
      BY <1>2, <2>1, <2>3 DEF TxInv, CallInv, RowsInv, TransactionsTypeOK
    <3>2. QED
      BY <1>5, <3>1, EligibleStays
  <2>4. Deleting(u) => Closed(msgs', Chosen(u) \cap DOMAIN msgs')
    BY <1>5, <2>1, <2>2 DEF TxInv, RowsInv, Closed
  <2>5. phase[u] = "update" /\ stmt[u].op = "poll"
        => \A m \in Chosen(u) \cap DOMAIN msgs' : ~ mq_uuid_exists(msgs'[m].after)
    BY <1>5, <2>1, <2>2 DEF TxInv, RowsInv
  <2>6. RowsInv(u)'
    BY <1>1, <2>1, <2>3, <2>4, <2>5, SameTransaction DEF TxInv, RowsInv, Same
  <2>7. Ordered(u) => tail[u] \in spent /\ tail[u] # Null /\ tail[u] # s.id
    BY <1>2, <1>4, <2>1, TablesAssumption DEF TxInv, InsertInv, TransactionsTypeOK
  <2>8. Written(u) => SameKey(u)' = {}
    <3>1. SUFFICES ASSUME Written(u), NEW m \in SameKey(u)' PROVE FALSE
      OBVIOUS
    <3>2. /\ SameKey(u) = {}
          /\ m \in DOMAIN msgs'
          /\ msgs'[m].channel = stmt[u].new.channel /\ msgs'[m].after = tail[u]
      BY <2>1, <3>1 DEF TxInv, InsertInv, SameKey, Same
    <3>3. m = s.id
      BY <1>5, <3>2 DEF SameKey
    <3>4. row.channel = stmt[u].new.channel /\ row.after = tail[u] /\ tail[u] # Null
      BY <1>5, <2>7, <3>1, <3>2, <3>3 DEF Written
    <3>5. Written(t) /\ tail[t] = tail[u] /\ s.new.channel = stmt[u].new.channel
      BY <1>3, <1>4, <3>4
    <3>6. QED
      BY <2>1, <3>1, <3>5 DEF PairInv, s
  <2>9. InsertInv(u)'
    <3>1. Inserting(u) => stmt[u].id \notin spent'
      BY <1>1, <1>4, <2>1 DEF TxInv, InsertInv, PairInv, s
    <3>2. Ordered(u) =>
             /\ tail[u] \in spent'
             /\ tail[u] \in DOMAIN msgs' \ {Nil} =>
                   msgs'[tail[u]].channel = stmt[u].new.channel /\ msgs'[tail[u]].after # Null
             /\ phase[u] = "inserted" => tail[u] \in DOMAIN msgs'
      BY <1>1, <1>5, <2>1, <2>7 DEF TxInv, InsertInv
    <3>3. QED
      BY <2>1, <2>8, <3>1, <3>2, SameTransaction DEF InsertInv, Same
  <2>10. QED
    BY <2>1, <2>6, <2>9, SameTransaction DEF TxInv
<1>10. ASSUME NEW u \in Tx, NEW v \in Tx, u # v PROVE PairInv(u, v)'
  <2>1. CASE u # t /\ v # t
    BY <1>7, <1>10, <2>1, PairsStay DEF IInv
  <2>2. CASE u = t \/ v = t
    BY <1>7, <1>10, <2>2
  <2>3. QED
    BY <2>1, <2>2
<1>11. QED
  BY <1>6, <1>7, <1>8, <1>9, <1>10 DEF IInv

(* Time passes, and nothing else.                                          *)
LEMMA QuietKeeps ==
    ASSUME IInv, now' \in Nat, now <= now', UNCHANGED <<msgs, spent, tx>>
    PROVE  IInv'
<1>1. TransactionsTypeOK'
  <2>1. TransactionsTypeOK
    BY DEF IInv
  <2>2. 0..now \subseteq 0..now'
    BY <2>1 DEF TransactionsTypeOK
  <2>3. start' \in [Tx -> 0..now']
    BY <2>1, <2>2 DEF TransactionsTypeOK, tx
  <2>4. UNCHANGED <<msgs, spent, stmt, phase, todo, next, first, locks, got, tail, error>>
    BY DEF tx
  <2>5. QED
    BY <2>1, <2>3, <2>4 DEF TransactionsTypeOK
<1>2. TableInv'
  BY DEF IInv, TableInv
<1>3. \A u \in Tx : Same(u)
  BY DEF Same, tx
<1>4. \A u \in Tx : TxInv(u)'
  BY <1>3, OthersStay DEF IInv
<1>5. \A u, v \in Tx : u # v => PairInv(u, v)'
  BY <1>3, PairsStay DEF IInv
<1>6. QED
  BY <1>1, <1>2, <1>4, <1>5 DEF IInv

-----------------------------------------------------------------------------
(* The invariant and what it says.                                         *)

(* The tables to start with are such tables, and nothing is open.          *)
LEMMA InitEstablishes == Init => IInv
<1>1. SUFFICES ASSUME Init PROVE IInv
  OBVIOUS
<1>2. /\ IsFiniteSet(DOMAIN msgs) /\ DOMAIN msgs \subseteq MsgId \cup {Nil}
      /\ msgs \in [DOMAIN msgs -> Row]
      /\ Nil \in DOMAIN msgs /\ msgs[Nil] = NilRow
      /\ Consistent(msgs) /\ Chained(msgs) /\ AttemptsLeft(msgs)
  <2>1. /\ Serial!IsFiniteSet(DOMAIN msgs) /\ DOMAIN msgs \subseteq MsgId \cup {Nil}
        /\ msgs \in [DOMAIN msgs -> Serial!Row]
        /\ Nil \in DOMAIN msgs /\ msgs[Nil] = Serial!NilRow
        /\ Serial!Consistent(msgs) /\ Serial!Chained(msgs) /\ Serial!AttemptsLeft(msgs)
    BY <1>1, TransactionsAssumption DEF Init, Serial!SerialAssumption
  <2>2. Serial!Row = Row /\ Serial!NilRow = NilRow
    BY DEF Serial!Row, Row, Serial!Channel, Channel, Serial!NilRow, NilRow
  <2>3. Serial!Consistent(msgs) = Consistent(msgs)
    BY DEF Serial!Consistent, Consistent, Serial!ForeignKeyOK, ForeignKeyOK,
           Serial!UniqueOK, UniqueOK
  <2>4. Serial!Chained(msgs) = Chained(msgs)
    BY DEF Serial!Chained, Chained, Serial!mq_uuid_exists, mq_uuid_exists
  <2>5. Serial!AttemptsLeft(msgs) = AttemptsLeft(msgs)
    BY DEF Serial!AttemptsLeft, AttemptsLeft
  <2>6. Serial!IsFiniteSet(DOMAIN msgs) = IsFiniteSet(DOMAIN msgs)
    BY DEF Serial!IsFiniteSet, IsFiniteSet
  <2>7. QED
    BY <2>1, <2>2, <2>3, <2>4, <2>5, <2>6
<1>3. TransactionsTypeOK
  BY <1>1, <1>2, StatementKinds DEF Init, TransactionsTypeOK, Phases
<1>4. TableInv
  BY <1>2 DEF TableInv
<1>5. ASSUME NEW t \in Tx
      PROVE  /\ TxInv(t)
             /\ ~ Inserting(t) /\ ~ Deleting(t) /\ ~ Ordered(t) /\ ~ Written(t)
  <2>1. /\ phase[t] = "idle" /\ stmt[t] = Null /\ todo[t] = {} /\ next[t] = Null
        /\ locks[t] = {} /\ got[t] = {} /\ tail[t] = Null
    BY <1>1, <1>5 DEF Init
  <2>2. ~ Inserting(t) /\ ~ Deleting(t) /\ ~ Ordered(t) /\ ~ Written(t)
    BY <2>1 DEF Inserting, Deleting, Ordered, Written
  <2>3. CallInv(t) /\ WaitInv(t)
    BY <2>1 DEF CallInv, WaitInv
  <2>4. RowsInv(t) /\ InsertInv(t)
    BY <2>1, <2>2 DEF RowsInv, InsertInv
  <2>5. QED
    BY <2>2, <2>3, <2>4 DEF TxInv
<1>6. \A t, u \in Tx : PairInv(t, u)
  BY <1>5 DEF PairInv
<1>7. QED
  BY <1>3, <1>4, <1>5, <1>6 DEF IInv

(* One lemma for each action.                                              *)
LEMMA NextKeeps == IInv /\ [Next]_vars => IInv'
<1>1. SUFFICES ASSUME IInv, [Next]_vars PROVE IInv'
  OBVIOUS
<1>2. now \in Nat
  BY <1>1 DEF IInv, TransactionsTypeOK
<1>3. ASSUME NEW t \in Tx, NEW s \in Statements, NEW time \in 0..now, Begin(t, s, time)
      PROVE  IInv'
  BY <1>1, <1>3, BeginKeeps
<1>4. ASSUME NEW t \in Tx, NEW s \in Statements, NEW time \in 0..now,
             BeginInsert(t, s, time)
      PROVE  IInv'
  BY <1>1, <1>4, BeginInsertKeeps
<1>5. ASSUME NEW t \in Tx, NEW m \in MsgId, Wait(t, m) PROVE IInv'
  BY <1>1, <1>5, WaitKeeps
<1>6. ASSUME NEW t \in Tx, NEW m \in MsgId, Lock(t, m) PROVE IInv'
  BY <1>1, <1>6, LockKeeps
<1>16. ASSUME NEW t \in Tx, LockTuple(t) PROVE IInv'
  BY <1>1, <1>16, LockTupleKeeps
<1>7. ASSUME NEW t \in Tx, Cascade(t) PROVE IInv'
  BY <1>1, <1>7, CascadeKeeps
<1>8. ASSUME NEW t \in Tx, CheckUnique(t) PROVE IInv'
  BY <1>1, <1>8, CheckUniqueKeeps
<1>9. ASSUME NEW t \in Tx, CheckForeign(t) PROVE IInv'
  BY <1>1, <1>9, CheckForeignKeeps
<1>10. ASSUME NEW t \in Tx, CommitUpdate(t) PROVE IInv'
  BY <1>1, <1>10, CommitUpdateKeeps
<1>11. ASSUME NEW t \in Tx, CommitInsert(t) PROVE IInv'
  BY <1>1, <1>11, CommitInsertKeeps
<1>12. ASSUME NEW t \in Tx, Rollback(t) PROVE IInv'
  BY <1>1, <1>12, RollbackKeeps
<1>13. CASE Tick
  BY <1>1, <1>2, <1>13, QuietKeeps DEF Tick
<1>14. CASE UNCHANGED vars
  BY <1>1, <1>2, <1>14, QuietKeeps DEF vars, tx
<1>15. QED
  BY <1>1, <1>3, <1>4, <1>5, <1>6, <1>7, <1>8, <1>9, <1>10, <1>11, <1>12, <1>13, <1>14,
     <1>16 DEF Next

(* The invariant holds, for any number of connections.                     *)
LEMMA Invariant == Spec => []IInv
BY InitEstablishes, NextKeeps, PTL DEF Spec

(* Types, and who holds which lock, for any number of connections.         *)
THEOREM TransactionsTyped == Spec => []TransactionsTypeOK
<1>1. IInv => TransactionsTypeOK
  BY DEF IInv
<1>2. QED
  BY <1>1, Invariant, PTL

(* Two polls that have seen the same due message do not both claim it:     *)
(* mq_poll's UPDATE looks at attempt_at again when it has the row, and     *)
(* then no other transaction touches it (20220208120856_fix_concurrent_poll). *)
THEOREM AttemptsHandedOutOnce == Spec => []AttemptsNotOverdrawn
<1>1. IInv => AttemptsNotOverdrawn
  BY DEF IInv, TableInv, AttemptsLeft, AttemptsNotOverdrawn
<1>2. QED
  BY <1>1, Invariant, PTL

(* No message is left behind one that is gone and no two are left behind   *)
(* the same one, however inserts, deletes and clears overlap: no delete,   *)
(* poll or commit fails on a constraint of mq_msgs.                        *)
THEOREM ConstraintsKept == Spec => []ConstraintsHold
<1>1. IInv => ConstraintsHold
  BY DEF IInv, TableInv, ConstraintsHold
<1>2. QED
  BY <1>1, Invariant, PTL

-----------------------------------------------------------------------------
(* Deadlocks.                                                              *)

(* Who waits has an UPDATE or DELETE at a row or an INSERT at a check.     *)
LEMMA WhoWaits ==
    ASSUME IInv, NEW t \in Tx, NEW u, WaitsFor(t, u)
    PROVE  \/ phase[t] \in {"update", "cascade"} /\ next[t] # Null
           \/ phase[t] = "foreign" /\ next[t] = Null /\ tail[t] # Null
           \/ phase[t] = "unique" /\ next[t] = Null
<1>1. TxInv(t) /\ phase[t] \in Phases /\ Null \notin MsgId \cup {Nil}
  BY TablesAssumption DEF IInv, TransactionsTypeOK
<1>2. phase[t] = "foreign" => tail[t] # Null
  <2>1. phase[t] = "foreign" => tail[t] \in spent
    BY <1>1 DEF TxInv, CallInv, InsertInv, Ordered, Inserting
  <2>2. QED
    BY <1>1, <2>1 DEF IInv, TransactionsTypeOK
<1>3. QED
  BY <1>1, <1>2 DEF WaitsFor, Holders, TxInv, CallInv

(* In a deadlock, somebody of it has the row or message one waits for, the *)
(* one before in line or not.                                              *)
LEMMA SomebodyHasIt ==
    ASSUME IInv, NEW C \in SUBSET Tx, Deadlock(C), NEW t \in C, phase[t] # "unique"
    PROVE  \E x \in C : Awaited(t) \in locks[x]
<1>1. ASSUME NEW w \in C
      PROVE  /\ w \in Tx /\ phase[w] # "inserted"
             /\ \/ phase[w] \in {"update", "cascade"} /\ next[w] # Null
                \/ phase[w] = "foreign" /\ next[w] = Null /\ tail[w] # Null
                \/ phase[w] = "unique" /\ next[w] = Null
  BY WhoWaits DEF Deadlock
<1>2. ASSUME NEW w \in C, phase[w] # "unique", Ahead(w) = {}
      PROVE  \E x \in C : Awaited(w) \in locks[x]
  <2>1. PICK x \in C : WaitsFor(w, x)
    BY DEF Deadlock
  <2>2. x \in Holders(w)
    BY <1>2, <2>1 DEF WaitsFor
  <2>3. QED
    BY <1>1, <1>2, <2>2 DEF Holders, LockConflict, ClaimConflict, Awaited
<1>3. CASE Ahead(t) # {}
  <2>1. PICK w \in C : w \in Ahead(t)
    BY <1>3 DEF Deadlock, WaitsFor
  <2>2. first[w] /\ Awaited(w) = Awaited(t)
    BY <2>1 DEF Ahead, Line
  <2>3. Ahead(w) = {} /\ phase[w] # "unique"
    BY <1>1, <2>2 DEF Ahead, Awaited
  <2>4. QED
    BY <1>2, <2>2, <2>3
<1>4. QED
  BY <1>2, <1>3

(* Two calls at least that have each locked a row and wait for another:    *)
(* whoever has a row in a deadlock waits for one that somebody else has,   *)
(* in whatever line.  So a keep-alive by the background task               *)
(* (mq_keep_alive(ARRAY[id], ...), runner.rs), which locks one row, and a  *)
(* spawn never make a deadlock with each other or with one poll or delete. *)
THEOREM DeadlocksNeedTwo == Spec => []DeadlocksTakeTwo
<1>1. ASSUME IInv PROVE DeadlocksTakeTwo
  <2>1. SUFFICES ASSUME NEW C \in SUBSET Tx, Deadlock(C)
                 PROVE  \E t, u \in C : /\ t # u
                                        /\ locks[t] # {} /\ next[t] # Null
                                        /\ locks[u] # {} /\ next[u] # Null
    BY DEF DeadlocksTakeTwo
  <2>2. ASSUME NEW h \in C, locks[h] # {}
        PROVE  h \in Tx /\ next[h] # Null /\ phase[h] \in {"update", "cascade"}
    <3>1. PICK u \in C : WaitsFor(h, u)
      BY <2>1 DEF Deadlock
    <3>2. h \in Tx /\ TxInv(h)
      BY <1>1 DEF IInv
    <3>3. phase[h] \in {"update", "cascade"}
      BY <2>2, <3>2 DEF TxInv, CallInv
    <3>4. QED
      BY <1>1, <3>1, <3>2, <3>3, WhoWaits
  <2>3. PICK h \in C : locks[h] # {}
    <3>1. PICK t \in C : \E u \in C : WaitsFor(t, u)
      BY <2>1 DEF Deadlock
    <3>2. CASE phase[t] # "unique"
      BY <1>1, <2>1, <3>2, SomebodyHasIt
    <3>3. CASE phase[t] = "unique"
      <4>1. PICK v \in C : WaitsFor(t, v)
        BY <3>1
      <4>2. KeyConflict(t, v)
        <5>1. Holders(t) = {}
          BY <1>1, <3>3 DEF IInv, TxInv, CallInv, Holders
        <5>2. QED
          BY <4>1, <5>1 DEF WaitsFor
      <4>3. CASE Changed(v) # {}
        BY <1>1, <4>3 DEF IInv, TxInv, RowsInv, Changed
      <4>4. CASE phase[v] \in {"foreign", "inserted"}
        <5>1. phase[v] = "foreign"
          BY <1>1, <2>1, <4>4, WhoWaits DEF Deadlock
        <5>2. QED
          BY <1>1, <2>1, <5>1, SomebodyHasIt
      <4>5. QED
        BY <4>2, <4>3, <4>4 DEF KeyConflict
    <3>4. QED
      BY <3>2, <3>3
  <2>4. PICK k \in C : next[h] \in locks[k]
    <3>1. h \in Tx /\ next[h] # Null /\ phase[h] \in {"update", "cascade"}
      BY <2>2, <2>3
    <3>2. QED
      BY <1>1, <2>1, <3>1, SomebodyHasIt DEF Awaited
  <2>5. k # h
    BY <1>1, <2>2, <2>3, <2>4 DEF IInv, TxInv, WaitInv
  <2>6. QED
    BY <2>2, <2>3, <2>4, <2>5
<1>2. QED
  BY <1>1, Invariant, PTL

-----------------------------------------------------------------------------
(* What a rejected insert has seen.                                        *)

(* A message with a successor, or one that is gone, is not the latest of   *)
(* its channel; and there is no beginning where there are messages.        *)
LEMMA NotLatest ==
    ASSUME IInv, NEW ch, NEW i,
           i \notin DOMAIN msgs \/ OrderedOf(msgs, ch) \cap {m \in DOMAIN msgs : msgs[m].after = i} # {}
    PROVE  i \notin mq_latest_message(msgs, ch)
<1>1. TableInv /\ Table(msgs) /\ Null \notin MsgId \cup {Nil}
  BY TablesAssumption DEF IInv, TransactionsTypeOK, Table
<1>2. msgs[Nil].after = Null
  BY <1>1 DEF TableInv, NilRow
<1>3. i \notin Tails(msgs, ch)
  BY DEF Tails, OrderedOf
<1>4. CASE i = Nil
  <2>1. OrderedOf(msgs, ch) # {}
    BY <1>1, <1>4 DEF TableInv
  <2>2. Tails(msgs, ch) # {}
    BY <1>1, <1>2, <2>1, LastExists DEF TableInv
  <2>3. QED
    BY <1>3, <2>2 DEF mq_latest_message
<1>5. CASE i # Nil
  BY <1>3, <1>5, LatestIsTail
<1>6. QED
  BY <1>4, <1>5

(* An insert rejected by the unique index or the foreign key is worth a    *)
(* retry: should_retry (lib.rs) knows the error, and the next attempt      *)
(* will choose another message to go after.                                *)
THEOREM RejectionsAreStale == Spec => RejectedInsertsAreStale
<1>1. ASSUME IInv, [Next]_vars, NEW t \in Tx, phase[t] # "failed", phase'[t] = "failed"
      PROVE  /\ should_retry(error'[t])
             /\ tail[t] \notin mq_latest_message(msgs, stmt[t].new.channel)
  <2>1. /\ TransactionsTypeOK /\ TxInv(t)
    BY <1>1 DEF IInv
  <2>2. CheckUnique(t) \/ CheckForeign(t)
    BY <1>1, <2>1 DEF Next, vars, tx, Begin, BeginInsert, Wait, LockTuple, Lock, Cascade,
                      CheckUnique, CheckForeign, Raise, CommitUpdate, CommitInsert,
                      Rollback, Ends, Tick, TransactionsTypeOK
  <2>3. CASE CheckUnique(t)
    <3>1. SameKey(t) # {} /\ error'[t] = UniqueViolation
      BY <1>1, <2>1, <2>3 DEF CheckUnique, Raise, TransactionsTypeOK
    <3>2. tail[t] # Null
      <4>1. Ordered(t)
        BY <2>1, <2>3 DEF TxInv, CallInv, CheckUnique, Ordered, Inserting
      <4>2. QED
        BY <2>1, <4>1, TablesAssumption DEF TxInv, InsertInv, TransactionsTypeOK
    <3>3. OrderedOf(msgs, stmt[t].new.channel)
             \cap {m \in DOMAIN msgs : msgs[m].after = tail[t]} # {}
      BY <3>1, <3>2 DEF SameKey, OrderedOf
    <3>4. QED
      BY <1>1, <3>1, <3>3, NotLatest DEF should_retry
  <2>4. CASE CheckForeign(t)
    <3>1. tail[t] \notin DOMAIN msgs /\ error'[t] = ForeignKeyViolation
      BY <1>1, <2>1, <2>4 DEF CheckForeign, Raise, TransactionsTypeOK
    <3>2. QED
      BY <1>1, <3>1, NotLatest DEF should_retry
  <2>5. QED
    BY <2>2, <2>3, <2>4
<1>2. IInv /\ [Next]_vars
      => [\A t \in Tx :
             phase[t] # "failed" /\ phase'[t] = "failed"
             => /\ should_retry(error'[t])
                /\ tail[t] \notin mq_latest_message(msgs, stmt[t].new.channel)]_vars
  BY <1>1
<1>3. QED
  BY <1>2, Invariant, PTL DEF Spec, RejectedInsertsAreStale

-----------------------------------------------------------------------------
(* Overlapping transactions have the effect of calls made one at a time.   *)

(* The refinement: the same tables to start with.                          *)
LEMMA InitIsSerial == Init => Serial!Init
BY DEF Init, Serial!Init

(* Only commits are seen; a call then executes on rows that are still      *)
(* eligible, an insert at the end of its channel.                          *)
LEMMA StepIsSerial ==
    ASSUME IInv, [Next]_vars
    PROVE  [Serial!Next]_<<msgs, now>>
<1>1. TransactionsTypeOK /\ TableInv
  BY DEF IInv
<1>2. ASSUME NEW t \in Tx, CommitUpdate(t)
      PROVE  Serial!Next
  <2>1. /\ TxInv(t) /\ phase[t] = "cascade"
        /\ msgs' = Serial!After(stmt[t], msgs, got[t], start[t]) /\ now' = now
    BY <1>2 DEF IInv, CommitUpdate, Ends
  <2>2. /\ stmt[t] \in Serial!Call
        /\ got[t] \subseteq Serial!Eligible(stmt[t], msgs, start[t])
    BY <2>1 DEF TxInv, CallInv, RowsInv
  <2>3. /\ stmt[t] \in Statements /\ start[t] \in 0..now
        /\ got[t] \in SUBSET DOMAIN msgs
    BY <1>1, <1>2, <2>1, <2>2 DEF TransactionsTypeOK
  <2>4. Serial!Execute(stmt[t], start[t], got[t])
    BY <2>1, <2>2 DEF Serial!Execute
  <2>5. QED
    BY <2>3, <2>4 DEF Serial!Next
<1>3. ASSUME NEW t \in Tx, CommitInsert(t)
      PROVE  Serial!Next
  <2> DEFINE s == stmt[t]
             last == IF Ordered(t) THEN tail[t] ELSE Nil
  <2>1. /\ TxInv(t) /\ phase[t] = "inserted" /\ now' = now
        /\ msgs' = AfterInsert(msgs, s.id, NewRow(s.new, start[t], tail[t]))
    BY <1>3 DEF IInv, CommitInsert, Ends
  <2>2. /\ s \in Serial!Insert /\ s \in Statements /\ start[t] \in 0..now
        /\ Inserting(t) /\ Ordered(t) = s.new.ordered
        /\ Ordered(t) => Written(t)
    <3>1. s \in Serial!Insert /\ s.new.ordered \in BOOLEAN
      BY <2>1, StatementKinds DEF TxInv, CallInv, NewJob
    <3>2. s \in Statements /\ start[t] \in 0..now
      BY <1>1, <1>3, <2>1 DEF TransactionsTypeOK
    <3>3. QED
      BY <2>1, <3>1, <3>2 DEF Inserting, Ordered, Written
  <2>3. last \in DOMAIN msgs
    BY <1>1, <2>1 DEF TxInv, InsertInv, TableInv
  <2>4. Ordered(t) => Serial!IsLast(last, msgs, s.new.channel)
    BY <2>1, <2>2, <2>3 DEF TxInv, InsertInv, SameKey, Serial!IsLast
  <2>5. NewRow(s.new, start[t], last) = NewRow(s.new, start[t], tail[t])
    BY <2>2 DEF NewRow
  <2>6. s.id \notin DOMAIN msgs
    BY <1>1, <2>1, <2>2 DEF TxInv, InsertInv, TransactionsTypeOK
  <2>7. msgs' = Serial!AfterInsert(msgs, s.id, Serial!NewRow(s.new, start[t], last))
    BY <2>1, <2>5, SerialInsert
  <2> HIDE DEF s, last
  <2>8. Serial!Enqueue(s, start[t], last)
    BY <2>1, <2>2, <2>4, <2>6, <2>7 DEF Serial!Enqueue
  <2>9. QED
    BY <2>2, <2>3, <2>8 DEF Serial!Next
<1>4. CASE Tick
  BY <1>4 DEF Tick, Serial!Next, Serial!Tick
<1>5. CASE UNCHANGED <<msgs, now>>
  BY <1>5
<1>6. QED
  BY <1>2, <1>3, <1>4, <1>5
     DEF Next, vars, tx, Begin, BeginInsert, Wait, LockTuple, Lock, Cascade, CheckUnique,
         CheckForeign, Rollback, Ends

(* MqTransactions implements MqSerial: every call takes effect in one step *)
(* at its commit, on rows that satisfy its condition in that step, and a   *)
(* new ordered message goes to the end of its channel as it is then.       *)
THEOREM Serializable == Spec => SerialExecution
<1>1. IInv /\ [Next]_vars => [Serial!Next]_<<msgs, now>>
  BY StepIsSerial
<1>2. QED
  BY <1>1, InitIsSerial, Invariant, PTL DEF Spec, SerialExecution, Serial!Spec
=============================================================================
