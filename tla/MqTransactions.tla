--------------------------- MODULE MqTransactions ---------------------------
(***************************************************************************)
(* The same procedures as PostgreSQL runs them under READ COMMITTED, in    *)
(* transactions that overlap.  An UPDATE or DELETE chooses its rows from a *)
(* snapshot, then visits them one by one, in any order: it waits for the   *)
(* lock of each, looks at the WHERE clause again if the row has changed    *)
(* meanwhile, and keeps the lock until its transaction ends.  Whoever is   *)
(* first to wait for a row holds its tuple lock, behind which the others   *)
(* wait.  An INSERT takes the latest message from a snapshot too; the      *)
(* unique index and the foreign key then decide, after waiting for whoever *)
(* may change their answer.                                                *)
(***************************************************************************)
EXTENDS MqTables

CONSTANTS Tables, Statements, MaxTime,
    Tx      \* connections

VARIABLES
    msgs,   \* table mq_msgs as committed
    now,    \* the clock of the database
    spent,  \* ids that have been in the table
    stmt,   \* the statement of each transaction, Null between transactions
    start,  \* NOW() of it
    phase,  \* how far it is
    todo,   \* rows still to be visited
    next,   \* the row it waits for, or Null
    first,  \* whether it has the tuple lock of the row it waits for
    locks,  \* rows it has locked
    got,    \* those of them it changes
    tail,   \* the message a new one goes after, or Null
    error   \* the error raised, or Null

tx   == <<stmt, start, phase, todo, next, first, locks, got, tail, error>>
vars == <<msgs, now, spent, stmt, start, phase, todo, next, first, locks, got, tail, error>>

(* What is committed is the state of the serial specification.             *)
Serial == INSTANCE MqSerial WITH msgs <- msgs, now <- now

ASSUME TransactionsAssumption == Serial!SerialAssumption

(* update: the UPDATE or DELETE, cascade: the rows after deleted ones.     *)
(* unique, foreign: an INSERT before the check of the index, of the        *)
(* foreign key; inserted: after both.                                      *)
Phases == {"idle", "update", "cascade", "unique", "foreign", "inserted", "failed"}

Init ==
    /\ msgs \in Tables
    /\ now = 0
    /\ spent = DOMAIN msgs
    /\ stmt = [t \in Tx |-> Null]
    /\ start = [t \in Tx |-> 0]
    /\ phase = [t \in Tx |-> "idle"]
    /\ todo = [t \in Tx |-> {}]
    /\ next = [t \in Tx |-> Null]
    /\ first = [t \in Tx |-> FALSE]
    /\ locks = [t \in Tx |-> {}]
    /\ got = [t \in Tx |-> {}]
    /\ tail = [t \in Tx |-> Null]
    /\ error = [t \in Tx |-> Null]

Inserting(t) == phase[t] # "idle" /\ stmt[t] \in Serial!Insert
Deleting(t)  == phase[t] # "idle" /\ stmt[t].op \in {"delete", "clear"}

(* A handle deletes its message only after it was handed out; the id of a  *)
(* new message is a fresh UUID.                                            *)
MayCall(s) ==
    /\ s.op = "delete" => \A m \in s.ids \cap DOMAIN msgs : ~ mq_uuid_exists(msgs[m].after)
    /\ s.op = "insert" => /\ s.id \notin spent
                          /\ \A u \in Tx : Inserting(u) => stmt[u].id # s.id

-----------------------------------------------------------------------------
(* UPDATE and DELETE                                                       *)

(* What a statement of NOW() = time may find in its snapshot.              *)
Found(s, time) ==
    IF s.op = "poll" THEN {S \in SUBSET DOMAIN msgs : IsBatch(S, msgs, time, Null, s.limit)}
    ELSE {Serial!Eligible(s, msgs, time)}

(* The snapshot is the statement's, NOW() that of its transaction: any     *)
(* earlier time, or 0 for those that do not mention it.                    *)
Begin(t, s, time) ==
    /\ phase[t] = "idle"
    /\ s \in Serial!Call
    /\ MayCall(s)
    /\ s.op \in {"commit", "delete", "clear"} => time = 0
    /\ stmt' = [stmt EXCEPT ![t] = s]
    /\ start' = [start EXCEPT ![t] = time]
    /\ phase' = [phase EXCEPT ![t] = "update"]
    /\ \E S \in Found(s, time) : todo' = [todo EXCEPT ![t] = S]
    /\ UNCHANGED <<msgs, now, spent, next, first, locks, got, tail, error>>

(* Mutant: the new message's claim on its predecessor ignored.             *)
LockConflictRowsOnly(t, m, u) == m \in locks[u]

(* Mutant: FOR KEY SHARE in mq_latest_message, a claim before the index is *)
(* looked at.                                                              *)
LockConflictEarly(t, m, u) ==
    \/ m \in locks[u]
    \/ Deleting(t) /\ Inserting(u) /\ m = tail[u]

(* The lock t needs on m conflicts with what u has of it: a row lock, or   *)
(* the claim of a new message on the one it comes after.  (That claim, KEY *)
(* SHARE, stands in the way of deletes and of new values of                *)
(* after_message_id, which belongs to a unique index, but not of others.)  *)
LockConflict(t, m, u) ==
    \/ m \in locks[u]
    \/ Deleting(t) /\ phase[u] = "inserted" /\ m = tail[u]

(* Deletes lock rows against the foreign key's check, others do not.       *)
ClaimConflict(t, u) == Deleting(u) /\ tail[t] \in locks[u]

(* Who has what t waits for: a row, or as an INSERT a look at one.         *)
Holders(t) ==
    {u \in Tx \ {t} :
        \/ next[t] # Null /\ LockConflict(t, next[t], u)
        \/ phase[t] = "foreign" /\ ClaimConflict(t, u)}

Awaited(t) == IF phase[t] = "foreign" THEN tail[t] ELSE next[t]

(* The tuple lock is taken for what one wants to do with the row: all but  *)
(* inserts exclude each other, and inserts and deletes do.                 *)
TupleConflict(t, u) ==
    IF Inserting(t) THEN Deleting(u)
    ELSE Inserting(u) => Deleting(t)

(* Those who keep t from the tuple lock of m.                              *)
Line(t, m) == {u \in Tx \ {t} : first[u] /\ Awaited(u) = m /\ TupleConflict(t, u)}

(* Those behind whose tuple lock t waits.                                  *)
Ahead(t) == IF first[t] THEN {} ELSE Line(t, Awaited(t))

(* Somebody has the row: t waits, with its tuple lock if that is free.     *)
Wait(t, m) ==
    /\ phase[t] \in {"update", "cascade"}
    /\ next[t] = Null
    /\ m \in todo[t]
    /\ \E u \in Tx \ {t} : LockConflict(t, m, u)
    /\ next' = [next EXCEPT ![t] = m]
    /\ first' = [first EXCEPT ![t] = Line(t, m) = {}]
    /\ todo' = [todo EXCEPT ![t] = @ \ {m}]
    /\ UNCHANGED <<msgs, now, spent, stmt, start, phase, locks, got, tail, error>>

(* The tuple lock of what it waits for has become free, or is that of a    *)
(* message an INSERT looks at.                                             *)
LockTuple(t) ==
    /\ Holders(t) # {}
    /\ ~ first[t]
    /\ Ahead(t) = {}
    /\ first' = [first EXCEPT ![t] = TRUE]
    /\ UNCHANGED <<msgs, now, spent, stmt, start, phase, todo, next, locks, got, tail, error>>

(* Mutant: mq_poll before 20220208120856, whose WHERE clause did not       *)
(* mention attempt_at.                                                     *)
StillThere(t, m) == m \in DOMAIN msgs

(* The row as it is now, tested with those parts of the WHERE clause that  *)
(* are about the row itself.  (The subquery of a poll is not run again.)   *)
PassesAgain(t, m) ==
    /\ m \in DOMAIN msgs
    /\ IF stmt[t].op = "poll" THEN Due(msgs[m], start[t])
       ELSE m \in Serial!Eligible(stmt[t], msgs, start[t])

(* The row t comes to: the one it has waited for, whose tuple lock it has  *)
(* or nobody has, or one that it need not wait for.                        *)
Reaches(t, m) ==
    /\ phase[t] \in {"update", "cascade"}
    /\ IF next[t] = Null THEN m \in todo[t] ELSE m = next[t] /\ Ahead(t) = {}
    /\ ~ \E u \in Tx \ {t} : LockConflict(t, m, u)

(* Mutant: a lock on a row that is gone.                                   *)
LockAnyway(t, m) ==
    /\ Reaches(t, m)
    /\ next' = [next EXCEPT ![t] = Null]
    /\ first' = [first EXCEPT ![t] = FALSE]
    /\ todo' = [todo EXCEPT ![t] = @ \ {m}]
    /\ locks' = [locks EXCEPT ![t] = @ \cup {m}]
    /\ got' = [got EXCEPT ![t] = @ \cup {m}]
    /\ UNCHANGED <<msgs, now, spent, stmt, start, phase, tail, error>>

(* Deleted meanwhile: nothing to lock.  Otherwise the lock is kept even if *)
(* the row is left as it is.                                               *)
Lock(t, m) ==
    /\ Reaches(t, m)
    /\ next' = [next EXCEPT ![t] = Null]
    /\ first' = [first EXCEPT ![t] = FALSE]
    /\ todo' = [todo EXCEPT ![t] = @ \ {m}]
    /\ locks' = [locks EXCEPT ![t] = IF m \in DOMAIN msgs THEN @ \cup {m} ELSE @]
    /\ got' = [got EXCEPT ![t] = IF phase[t] = "update" /\ PassesAgain(t, m)
                                 THEN @ \cup {m} ELSE @]
    /\ UNCHANGED <<msgs, now, spent, stmt, start, phase, tail, error>>

(* ON DELETE SET DEFAULT: the rows after the deleted ones, found when all  *)
(* of these have been deleted.                                             *)
Cascade(t) ==
    /\ phase[t] = "update"
    /\ todo[t] = {} /\ next[t] = Null
    /\ phase' = [phase EXCEPT ![t] = "cascade"]
    /\ todo' = [todo EXCEPT ![t] =
                  IF Deleting(t) THEN {m \in DOMAIN msgs \ got[t] : msgs[m].after \in got[t]}
                  ELSE {}]
    /\ UNCHANGED <<msgs, now, spent, stmt, start, next, first, locks, got, tail, error>>

-----------------------------------------------------------------------------
(* INSERT                                                                  *)

BeginInsert(t, s, time) ==
    /\ phase[t] = "idle"
    /\ s \in Serial!Insert
    /\ MayCall(s)
    /\ stmt' = [stmt EXCEPT ![t] = s]
    /\ start' = [start EXCEPT ![t] = time]
    /\ phase' = [phase EXCEPT ![t] = IF s.new.ordered THEN "unique" ELSE "inserted"]
    /\ \E m \in mq_latest_message(msgs, s.new.channel) :
          tail' = [tail EXCEPT ![t] = IF s.new.ordered THEN m ELSE Null]
    /\ UNCHANGED <<msgs, now, spent, todo, next, first, locks, got, error>>

(* Rows that have the new message's key in the unique index.               *)
SameKey(t) == {m \in DOMAIN msgs : /\ msgs[m].channel = stmt[t].new.channel
                                   /\ msgs[m].after = tail[t]}

(* Those u has changed so far, the successors of deleted rows included.    *)
Changed(u) == got[u] \cup {m \in locks[u] : msgs[m].after \in got[u]}

(* u has changed or written a row of that key: its end decides.            *)
KeyConflict(t, u) ==
    \/ Changed(u) \cap SameKey(t) # {}
    \/ /\ Inserting(u) /\ phase[u] \in {"foreign", "inserted"} /\ stmt[u].new.ordered
       /\ stmt[u].new.channel = stmt[t].new.channel
       /\ tail[u] = tail[t]

UniqueViolation ==
    <<"23505", "mq_msgs_channel_name_channel_args_after_message_id_idx">>
ForeignKeyViolation == <<"23503", "mq_msgs_after_message_id_fkey">>

Raise(t, e) ==
    /\ phase' = [phase EXCEPT ![t] = "failed"]
    /\ error' = [error EXCEPT ![t] = e]

(* Mutant: an error before the other transaction has ended.                *)
CheckUniqueAtOnce(t) ==
    /\ phase[t] = "unique"
    /\ IF SameKey(t) # {} \/ \E u \in Tx \ {t} : KeyConflict(t, u)
       THEN Raise(t, UniqueViolation)
       ELSE phase' = [phase EXCEPT ![t] = "foreign"] /\ error' = error
    /\ UNCHANGED <<msgs, now, spent, stmt, start, todo, next, first, locks, got, tail>>

CheckUnique(t) ==
    /\ phase[t] = "unique"
    /\ ~ \E u \in Tx \ {t} : KeyConflict(t, u)
    /\ IF SameKey(t) # {} THEN Raise(t, UniqueViolation)
       ELSE phase' = [phase EXCEPT ![t] = "foreign"] /\ error' = error
    /\ UNCHANGED <<msgs, now, spent, stmt, start, todo, next, first, locks, got, tail>>

(* Nobody has the message before locked against it.  (One who finds it so  *)
(* does not ask for the tuple lock.)                                       *)
CheckForeign(t) ==
    /\ phase[t] = "foreign"
    /\ ~ \E u \in Tx \ {t} : ClaimConflict(t, u)
    /\ IF tail[t] \notin DOMAIN msgs THEN Raise(t, ForeignKeyViolation)
       ELSE phase' = [phase EXCEPT ![t] = "inserted"] /\ error' = error
    /\ first' = [first EXCEPT ![t] = FALSE]
    /\ UNCHANGED <<msgs, now, spent, stmt, start, todo, next, locks, got, tail>>

-----------------------------------------------------------------------------
Ends(t) ==
    /\ stmt' = [stmt EXCEPT ![t] = Null]
    /\ start' = [start EXCEPT ![t] = 0]
    /\ phase' = [phase EXCEPT ![t] = "idle"]
    /\ todo' = [todo EXCEPT ![t] = {}]
    /\ next' = [next EXCEPT ![t] = Null]
    /\ locks' = [locks EXCEPT ![t] = {}]
    /\ got' = [got EXCEPT ![t] = {}]
    /\ tail' = [tail EXCEPT ![t] = Null]
    /\ error' = [error EXCEPT ![t] = Null]
    /\ now' = now

(* Those who wait for a changed row, in line or not, turn to its new       *)
(* version.                                                                *)
CommitUpdate(t) ==
    /\ phase[t] = "cascade"
    /\ todo[t] = {} /\ next[t] = Null
    /\ msgs' = Serial!After(stmt[t], msgs, got[t], start[t])
    /\ first' = [u \in Tx |-> first[u] /\ Awaited(u) \notin Changed(t)]
    /\ spent' = spent
    /\ Ends(t)

CommitInsert(t) ==
    /\ phase[t] = "inserted"
    /\ msgs' = AfterInsert(msgs, stmt[t].id, NewRow(stmt[t].new, start[t], tail[t]))
    /\ spent' = spent \cup {stmt[t].id}
    /\ first' = first
    /\ Ends(t)

(* After an error or a deadlock; or the caller gives up, its connection    *)
(* breaks, its process dies.                                               *)
Rollback(t) ==
    /\ phase[t] # "idle"
    /\ first' = [first EXCEPT ![t] = FALSE]
    /\ UNCHANGED <<msgs, spent>>
    /\ Ends(t)

Tick ==
    /\ now < MaxTime
    /\ now' = now + 1
    /\ UNCHANGED <<msgs, spent, tx>>

Next ==
    \/ \E t \in Tx :
          \/ \E s \in Statements, time \in 0..now : \/ Begin(t, s, time)
                                                    \/ BeginInsert(t, s, time)
          \/ \E m \in MsgId : Wait(t, m) \/ Lock(t, m)
          \/ LockTuple(t)
          \/ Cascade(t)
          \/ CheckUnique(t)
          \/ CheckForeign(t)
          \/ CommitUpdate(t)
          \/ CommitInsert(t)
          \/ Rollback(t)
    \/ Tick

Spec == Init /\ [][Next]_vars

-----------------------------------------------------------------------------
should_retry(e) ==
    e[1] \in {"40001", "40P01"} \/ e \in {UniqueViolation, ForeignKeyViolation}

WaitsFor(t, u) ==
    \/ t # u /\ phase[t] = "unique" /\ KeyConflict(t, u)
    \/ Holders(t) # {} /\ u \in (IF Ahead(t) = {} THEN Holders(t) ELSE Ahead(t))

(* None of C goes on before another one of C does.                         *)
Deadlock(C) == C # {} /\ \A t \in C : \E u \in C : WaitsFor(t, u)

(* Besides the types: what a transaction has locked is in the table, and   *)
(* nobody else has it.                                                     *)
TransactionsTypeOK ==
    /\ DOMAIN msgs \subseteq spent
    /\ spent \subseteq MsgId \cup {Nil}
    /\ msgs \in [DOMAIN msgs -> Row]
    /\ now \in Nat
    /\ stmt \in [Tx -> Statements \cup {Null}]
    /\ start \in [Tx -> 0..now]
    /\ phase \in [Tx -> Phases]
    /\ todo \in [Tx -> SUBSET MsgId]
    /\ next \in [Tx -> MsgId \cup {Null}]
    /\ first \in [Tx -> BOOLEAN]
    /\ locks \in [Tx -> SUBSET DOMAIN msgs]
    /\ got \in [Tx -> SUBSET DOMAIN msgs]
    /\ tail \in [Tx -> MsgId \cup {Nil, Null}]
    /\ error \in [Tx -> {UniqueViolation, ForeignKeyViolation, Null}]
    /\ \A t \in Tx : phase[t] = "idle" <=> stmt[t] = Null
    /\ \A t, u \in Tx : t # u => locks[t] \cap locks[u] = {}

(* Overlapping calls have the effect of calls made one at a time: whatever *)
(* happened between a statement's snapshot and its commit, it changes only *)
(* rows that its WHERE clause accepts as they are when it commits, and a   *)
(* new ordered message goes to the end of the channel as it is then.       *)
SerialExecution == Serial!Spec

(* No attempt is handed out that is not there: two polls that saw the same *)
(* due message in their snapshots do not both claim it.  (An attempt       *)
(* number below zero would never reach 1 again, and the message be retried *)
(* for ever.)                                                              *)
AttemptsNotOverdrawn == \A m \in DOMAIN msgs : msgs[m].attempts >= 0

(* No ordered message is left behind one that is gone, and no two are left *)
(* behind the same one, although the checks are made some time before the  *)
(* commit and a delete makes successors of what it deletes first.  So no   *)
(* delete, poll or commit fails on a constraint: only inserts do.          *)
ConstraintsHold == Consistent(msgs)

(* An insert that is rejected is worth a retry: should_retry knows the     *)
(* error, and the retry will choose another predecessor, because the       *)
(* rejected one is no longer last in the channel.                          *)
RejectedInsertsAreStale ==
    [][\A t \in Tx :
          phase[t] # "failed" /\ phase'[t] = "failed"
          => /\ should_retry(error'[t])
             /\ tail[t] \notin mq_latest_message(msgs, stmt[t].new.channel)]_vars

(* There is no deadlock without two calls each of which has locked a row   *)
(* and waits for another: calls on one row - a keep-alive, a checkpoint, a *)
(* commit - and inserts may be drawn into the deadlock of two that lock    *)
(* several, but make none among themselves or with one of those.           *)
DeadlocksTakeTwo ==
    \A C \in SUBSET Tx : Deadlock(C) =>
        \E t, u \in C : /\ t # u
                        /\ locks[t] # {} /\ next[t] # Null
                        /\ locks[u] # {} /\ next[u] # Null
=============================================================================
