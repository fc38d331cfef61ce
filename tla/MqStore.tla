------------------------------ MODULE MqStore -------------------------------
(***************************************************************************)
(* The job queue as its stored procedures see it, each call one step: the  *)
(* serial behaviour every client of the database relies on.  A call that   *)
(* breaks a constraint raises an error and is no step at all.              *)
(***************************************************************************)
EXTENDS MqTables

CONSTANTS
    NewJobs,        \* the jobs producers may spawn
    Lags,           \* how long the spawning transaction has been open
    Subscriptions,  \* channel names a poll asks for, or Null for all
    BatchSizes,
    Durations,      \* intervals passed to mq_keep_alive
    Checkpoints,    \* arguments of mq_checkpoint
    ClearSets,      \* arguments of mq_clear
    MaxTime,        \* bound on the clock
    MaxGranted,     \* bound on the attempts checkpoints may grant one message
    Reviving        \* whether a job on its last attempt may checkpoint without
                    \* asking for extra retries

CheckpointArgs == [duration : Nat, payload : Payload \cup {Null}, extra_retries : Nat]

ASSUME StoreAssumption ==
    /\ NewJobs \subseteq NewJob
    /\ Lags \subseteq Nat
    /\ Subscriptions \subseteq (SUBSET ChannelName) \cup {Null}
    /\ BatchSizes \subseteq Nat \ {0}
    /\ Durations \subseteq Nat
    /\ Checkpoints \subseteq CheckpointArgs
    /\ ClearSets \subseteq SUBSET ChannelName
    /\ MaxTime \in Nat
    /\ MaxGranted \in Nat
    /\ Reviving \in BOOLEAN

VARIABLES
    msgs,       \* table mq_msgs
    payloads,   \* table mq_payloads
    notices,    \* channel names notified and not yet received by a listener
    now,        \* the clock of the database
    births,     \* history: how many messages have been inserted
    hist        \* history of each message, for the properties

tables  == <<msgs, payloads>>
history == <<births, hist>>
vars    == <<msgs, payloads, notices, now, births, hist>>

(* birth: position in the order of insertion, 0 when not inserted.  due:   *)
(* the earliest time the producer asked for.  granted: attempts paid for.  *)
(* polls: attempts handed out.                                             *)
History == [birth : Nat, channel : Channel, ordered : BOOLEAN,
            due : Int, granted : Nat, polls : Nat]

Unborn == [birth |-> 0, channel |-> NilChannel, ordered |-> FALSE,
           due |-> 0, granted |-> 0, polls |-> 0]

Live   == DOMAIN msgs \ {Nil}
Polled == {m \in MsgId : hist[m].polls > 0}

Init ==
    /\ msgs = [i \in {Nil} |-> NilRow]
    /\ payloads = [i \in {} |-> Null]
    /\ notices = {}
    /\ now = 0
    /\ births = 0
    /\ hist = [m \in MsgId |-> Unborn]

-----------------------------------------------------------------------------
(* JobBuilder::spawn with a fresh id, in a transaction begun at start.     *)
mq_insert(m, new, start) ==
    /\ hist[m].birth = 0
    /\ \E latest \in mq_latest_message(msgs, new.channel) :
         LET table == AfterInsert(msgs, m, NewRow(new, start, latest))
         IN  Consistent(table) /\ msgs' = table
    /\ payloads' = [i \in DOMAIN payloads \cup {m} |->
                        IF i = m THEN new.payload ELSE payloads[i]]
    /\ notices' = notices \cup {new.channel[1]}
    /\ births' = births + 1
    /\ hist' = [hist EXCEPT ![m] = [birth   |-> births + 1,
                                    channel |-> new.channel,
                                    ordered |-> new.ordered,
                                    due     |-> start + new.delay,
                                    granted |-> new.retries + 1,
                                    polls   |-> 0]]
    /\ now' = now

(* A poll that claims the messages S; the empty batch changes nothing.     *)
mq_poll(names, limit, S) ==
    /\ IsBatch(S, msgs, now, names, limit)
    /\ msgs' = AfterPoll(msgs, S, now)
    /\ hist' = [m \in MsgId |-> IF m \in S THEN [hist[m] EXCEPT !.polls = @ + 1]
                                ELSE hist[m]]
    /\ UNCHANGED <<payloads, notices, now, births>>

mq_commit(S) ==
    /\ msgs' = AfterCommit(msgs, S)
    /\ UNCHANGED <<payloads, notices, now, history>>

(* For a producer before the commit, and for the holder of a job.          *)
mq_keep_alive(S, duration) ==
    /\ msgs' = AfterKeepAlive(msgs, S, now + duration)
    /\ UNCHANGED <<payloads, notices, now, history>>

(* Checkpoint::execute; only the handle of a polled job can call it.       *)
mq_checkpoint(m, c) ==
    /\ msgs' = AfterCheckpoint(msgs, m, now + c.duration, c.extra_retries)
    /\ payloads' = AfterPayload(payloads, m, c.payload)
    /\ hist' = [hist EXCEPT ![m].granted = IF m \in DOMAIN msgs
                                           THEN @ + c.extra_retries ELSE @]
    /\ UNCHANGED <<notices, now, births>>

(* CurrentJob::complete, and the runner discarding uncommitted messages.   *)
mq_delete(S) ==
    /\ Consistent(AfterDelete(msgs, S))
    /\ msgs' = AfterDelete(msgs, S)
    /\ payloads' = Without(payloads, S)
    /\ notices' = notices \cup Unblocked(msgs, S)
    /\ UNCHANGED <<now, history>>

(* No notification, whatever the channels.                                 *)
mq_clear(names) ==
    LET S == Cleared(msgs, names) IN
    /\ Consistent(AfterDelete(msgs, S))
    /\ msgs' = AfterDelete(msgs, S)
    /\ payloads' = Without(payloads, S)
    /\ UNCHANGED <<notices, now, history>>

mq_clear_all ==
    LET S == {i \in DOMAIN msgs : i # Nil} IN
    /\ ClearSets # {}
    /\ Consistent(AfterDelete(msgs, S))
    /\ msgs' = AfterDelete(msgs, S)
    /\ payloads' = Without(payloads, S)
    /\ UNCHANGED <<notices, now, history>>

(* A listener receives the notifications of a channel.                     *)
Receive(name) ==
    /\ name \in notices
    /\ notices' = notices \ {name}
    /\ UNCHANGED <<tables, now, history>>

Tick ==
    /\ now < MaxTime
    /\ now' = now + 1
    /\ UNCHANGED <<tables, notices, history>>

-----------------------------------------------------------------------------
(* The checkpoints of the jobs considered.                                 *)
MayCheckpoint(m, c) ==
    /\ hist[m].granted + c.extra_retries <= MaxGranted
    /\ m \in DOMAIN msgs /\ msgs[m].attempt_at = Null =>
          Reviving \/ c.extra_retries > 0

Spawn == \E m \in MsgId, new \in NewJobs, lag \in Lags :
            lag <= now /\ mq_insert(m, new, now - lag)

Poll == \E names \in Subscriptions, limit \in BatchSizes :
            \E S \in SUBSET Ready(msgs, now, names) : mq_poll(names, limit, S)

Commit     == \E m \in Live : mq_commit({m})
KeepAlive  == \E m \in Live, d \in Durations : mq_keep_alive({m}, d)
Checkpoint == \E m \in Polled, c \in Checkpoints :
                 MayCheckpoint(m, c) /\ mq_checkpoint(m, c)
Delete     == \E S \in SUBSET Polled : mq_delete(S)
Clear      == mq_clear_all \/ \E names \in ClearSets : mq_clear(names)

Next ==
    \/ Spawn
    \/ Poll
    \/ Commit
    \/ KeepAlive
    \/ Checkpoint
    \/ Delete
    \/ Clear
    \/ \E name \in ChannelName : Receive(name)
    \/ Tick

Spec == Init /\ [][Next]_vars

-----------------------------------------------------------------------------
TypeOK ==
    /\ DOMAIN msgs \subseteq MsgId \cup {Nil}
    /\ msgs \in [DOMAIN msgs -> Row]
    /\ payloads \in [DOMAIN payloads -> Payload]
    /\ notices \subseteq ChannelName
    /\ now \in Nat
    /\ births \in Nat
    /\ hist \in [MsgId -> History]

(* The dummy row that "after nothing" points to is never deleted, and the  *)
(* two tables hold the same messages: a poll whose LEFT JOIN found no      *)
(* payload would return a NULL name, and poll_and_dispatch would use up    *)
(* the attempt without running the job or saying so.                       *)
TablesAgree ==
    /\ Nil \in DOMAIN msgs
    /\ DOMAIN payloads = DOMAIN msgs \ {Nil}

(* The ordered messages of a channel form chains in the order they were    *)
(* inserted in: a message waits for an earlier one of its channel, two     *)
(* never wait for the same one, and one that has been handed out waits for *)
(* none.  ON DELETE SET DEFAULT and mq_latest_message keep them linked.    *)
ChainInv ==
    /\ msgs[Nil].after = Null
    /\ Consistent(msgs)
    /\ \A m \in Live :
        LET r == msgs[m]
            h == hist[m]
        IN  /\ h.birth \in 1..births
            /\ h.ordered <=> r.after # Null
            /\ r.after \in MsgId => /\ msgs[r.after].channel = r.channel
                                   /\ msgs[r.after].after # Null
                                   /\ hist[r.after].birth < h.birth
            /\ h.polls > 0 => ~ mq_uuid_exists(r.after)

(* "Jobs within the same channel will be processed strictly in-order": a   *)
(* poll hands out an ordered message only when every ordered message       *)
(* inserted before it in its channel has left the table.                   *)
PollsInOrder ==
    [][\A m, n \in Live :
          /\ hist'[n].polls > hist[n].polls
          /\ hist[m].ordered /\ hist[n].ordered
          /\ msgs[m].channel = msgs[n].channel
          => hist[m].birth >= hist[n].birth]_vars

(* A spawn that runs alone cannot fail: whatever mq_latest_message answers *)
(* is in the table and has no successor in the channel yet, so neither the *)
(* foreign key nor the unique index can reject the new row.  (should_retry *)
(* is about concurrent spawns only.)                                       *)
InsertNeverConflicts ==
    \A ch \in Channel : \A latest \in mq_latest_message(msgs, ch) :
        /\ latest \in DOMAIN msgs
        /\ \A i \in DOMAIN msgs : msgs[i].channel = ch => msgs[i].after # latest

(* Completing jobs cannot fail: whichever of the messages handed out so    *)
(* far are deleted together, making their successors first in the channel  *)
(* breaks no constraint.                                                   *)
DeleteNeverConflicts ==
    \A S \in SUBSET Polled : Consistent(AfterDelete(msgs, S))

Blocked(m) == mq_uuid_exists(msgs[m].after)

(* A sleeping runner is told of every message it could not have seen at    *)
(* its last poll: when a message is inserted, or stops waiting for the one *)
(* before it, its channel is notified in the same step.                    *)
WakeupOnUnblock ==
    [][\A m \in MsgId \cap DOMAIN msgs' :
          m \notin DOMAIN msgs \/ (Blocked(m) /\ ~ Blocked(m)')
          => msgs'[m].channel[1] \in notices']_vars

(* A lease is never cut short: once a message is committed no call brings  *)
(* its next attempt forward, whoever makes it and in whatever order - it   *)
(* can only be put off, or be called off.                                  *)
LeaseNeverShortened ==
    [][\A m \in Live \cap DOMAIN msgs' :
          /\ msgs[m].commit_interval = Null
          /\ msgs[m].attempt_at # Null
          => \/ msgs'[m].attempt_at = Null
             \/ msgs'[m].attempt_at >= msgs[m].attempt_at]_vars

(* Two-phase commit: however often the producer keeps an uncommitted       *)
(* message alive, committing it puts the first attempt at exactly the time *)
(* asked for; and no message, committed or not, ever comes up before that. *)
CommitRestoresSchedule ==
    \A m \in Live :
        LET r == msgs[m] IN
        /\ r.attempt_at # Null =>
              r.attempt_at - Coalesce(r.commit_interval, 0) >= hist[m].due
        /\ r.commit_interval # Null /\ hist[m].polls = 0 =>
              r.attempt_at - r.commit_interval = hist[m].due

(* "Set the number of retries after the initial attempt": a message is     *)
(* handed out at most once per attempt paid for - the first one, the       *)
(* retries set by its producer, the extra retries of its checkpoints.      *)
AttemptsWithinGrant == \A m \in MsgId : hist[m].polls <= hist[m].granted

(* No message is forgotten: as long as it has attempts left, whatever was  *)
(* done to it, there is a time at which the next poll may take it.         *)
AttemptsLeftAreScheduled ==
    \A m \in Live : msgs[m].attempts > 0 => msgs[m].attempt_at # Null
=============================================================================
