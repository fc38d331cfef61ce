------------------------------ MODULE MqSerial ------------------------------
(***************************************************************************)
(* What the stored procedures promise to those who call them at the same   *)
(* time: each takes effect in one step, on rows that satisfy its condition *)
(* in that step, and a new ordered message goes to the end of its channel. *)
(* The step happens at the commit; NOW(), the start of the transaction,    *)
(* may lie before it.                                                      *)
(***************************************************************************)
EXTENDS MqTables

CONSTANTS
    Tables,         \* contents of mq_msgs to start with
    Statements,     \* the calls that may be made
    MaxTime         \* bound on the clock

Call   == [op       : {"poll", "keep_alive", "commit", "delete", "clear"},
           ids      : SUBSET MsgId,
           limit    : Nat,
           duration : Nat]
Insert == [op : {"insert"}, id : MsgId, new : NewJob]

(* A new ordered message of channel ch may come after i.                   *)
IsLast(i, t, ch) ==
    /\ i # Nil => i \in DOMAIN t /\ t[i].channel = ch /\ t[i].after # Null
    /\ \A j \in DOMAIN t : t[j].channel = ch => t[j].after # i

(* Assumed by MqTransactions.                                              *)
SerialAssumption ==
    /\ Statements \subseteq Call \cup Insert
    /\ Null \notin Statements
    /\ MaxTime \in Nat
    /\ \A t \in Tables :
          /\ IsFiniteSet(DOMAIN t)
          /\ DOMAIN t \subseteq MsgId \cup {Nil}
          /\ t \in [DOMAIN t -> Row]
          /\ Nil \in DOMAIN t /\ t[Nil] = NilRow
          /\ Consistent(t) /\ Chained(t) /\ AttemptsLeft(t)

VARIABLES msgs, now

Init == msgs \in Tables /\ now = 0

(* The rows a call of NOW() = time may change.                             *)
Eligible(s, t, time) ==
    CASE s.op = "poll"       -> Ready(t, time, Null)
      [] s.op = "keep_alive" -> {m \in s.ids \cap DOMAIN t :
                                    /\ t[m].attempt_at # Null
                                    /\ t[m].attempt_at < time + s.duration}
      [] s.op = "commit"     -> {m \in s.ids \cap DOMAIN t :
                                    t[m].commit_interval # Null}
      [] s.op = "delete"     -> s.ids \cap DOMAIN t
      [] s.op = "clear"      -> DOMAIN t \ {Nil}

After(s, t, S, time) ==
    CASE s.op = "poll"               -> AfterPoll(t, S, time)
      [] s.op = "keep_alive"         -> AfterKeepAlive(t, S, time + s.duration)
      [] s.op = "commit"             -> AfterCommit(t, S)
      [] s.op \in {"delete", "clear"} -> AfterDelete(t, S)

Execute(s, time, S) ==
    /\ s \in Call
    /\ S \subseteq Eligible(s, msgs, time)
    /\ msgs' = After(s, msgs, S, time)
    /\ now' = now

Enqueue(s, time, last) ==
    /\ s \in Insert
    /\ s.id \notin DOMAIN msgs
    /\ s.new.ordered => IsLast(last, msgs, s.new.channel)
    /\ msgs' = AfterInsert(msgs, s.id, NewRow(s.new, time, last))
    /\ now' = now

Tick ==
    /\ now < MaxTime
    /\ now' = now + 1
    /\ msgs' = msgs

(* One that finds nothing to change, is rejected or rolled back.           *)
Idle == UNCHANGED <<msgs, now>>

Next ==
    \/ Idle
    \/ \E s \in Statements, time \in 0..now :
          \/ \E S \in SUBSET DOMAIN msgs : Execute(s, time, S)
          \/ \E last \in DOMAIN msgs : Enqueue(s, time, last)
    \/ Tick

Spec == Init /\ [][Next]_<<msgs, now>>
=============================================================================
