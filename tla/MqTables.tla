------------------------------ MODULE MqTables ------------------------------
(***************************************************************************)
(* The tables mq_msgs and mq_payloads of the sqlxmq migrations, and what   *)
(* each statement of the stored procedures reads from them and writes to   *)
(* them, as operators on a table.  A table is a function whose domain is   *)
(* the set of ids that have a row.  Everything here is free of state: the  *)
(* modules that say when a statement runs, and what runs between two of    *)
(* them, extend this one.                                                  *)
(***************************************************************************)
EXTENDS Integers, FiniteSets

CONSTANTS
    MsgId,          \* the UUIDs of messages
    Nil,            \* uuid_nil(), the id of the dummy row
    Null,           \* SQL NULL, Rust None
    ChannelName, ChannelArgs,
    NilChannel,     \* the channel of the dummy row, <<'', ''>>
    Payload         \* payload contents (JSON and bytes together)

Channel == ChannelName \X ChannelArgs

ASSUME TablesAssumption ==
    /\ Nil \notin MsgId
    /\ Null \notin MsgId \cup {Nil}
    /\ Null \notin Int
    /\ Null \notin Payload
    /\ NilChannel \in Channel

(* A row of mq_msgs.  Timestamps and intervals are numbers of clock ticks. *)
Row == [created_at      : Int,
        attempt_at      : Int \cup {Null},
        attempts        : Int,
        retry_backoff   : Nat,
        channel         : Channel,
        commit_interval : Int \cup {Null},
        after           : MsgId \cup {Nil, Null}]

(* What a producer asks for: the fields of mq_new_t that matter here.      *)
NewJob == [channel         : Channel,
           ordered         : BOOLEAN,
           delay           : Nat,
           retries         : Nat,
           retry_backoff   : Nat,
           commit_interval : Nat \cup {Null},
           payload         : Payload]

(* The dummy row every first message of an ordered channel refers to.      *)
NilRow == [created_at |-> 0, attempt_at |-> 0, attempts |-> 5,
           retry_backoff |-> 1, channel |-> NilChannel,
           commit_interval |-> Null, after |-> Null]

Coalesce(x, default) == IF x = Null THEN default ELSE x

(* Mutant: a comparison that, like most of SQL, propagates NULL.           *)
GreatestOrNull(x, y) == IF x = Null THEN Null ELSE IF x < y THEN y ELSE x

(* GREATEST(x, y) of SQL, which ignores a NULL argument.                   *)
Greatest(x, y) == IF x = Null THEN y ELSE IF x < y THEN y ELSE x

mq_uuid_exists(id) == id # Null /\ id # Nil

-----------------------------------------------------------------------------
(* The constraints of mq_msgs: a statement that would break one raises an  *)
(* error and leaves the table alone.                                       *)

ForeignKeyOK(t) == \A i \in DOMAIN t : t[i].after # Null => t[i].after \in DOMAIN t

UniqueOK(t) ==
    \A i, j \in DOMAIN t :
        /\ t[i].channel = t[j].channel
        /\ t[i].after # Null
        /\ t[i].after = t[j].after
        => i = j

Consistent(t) == ForeignKeyOK(t) /\ UniqueOK(t)

(* What no constraint says, but every procedure keeps.                     *)

(* Messages that come after one another are ordered ones of one channel,   *)
(* and to follow them to the message before ends somewhere.                *)
Chained(t) ==
    /\ \A m \in DOMAIN t : mq_uuid_exists(t[m].after) =>
          /\ t[t[m].after].channel = t[m].channel
          /\ t[t[m].after].after # Null
    /\ \A S \in SUBSET DOMAIN t : S # {} => \E m \in S : t[m].after \notin S

(* A message that is scheduled has an attempt left.                        *)
AttemptsLeft(t) ==
    \A m \in DOMAIN t : /\ t[m].attempts >= 0
                        /\ t[m].attempt_at # Null => t[m].attempts > 0

-----------------------------------------------------------------------------
(* mq_insert *)

(* Mutant: the latest message before 20211013151757, which could have a    *)
(* successor already.                                                      *)
LatestOrdered(t, ch) ==
    {i \in DOMAIN t : t[i].channel = ch /\ t[i].after # Null /\ i # Nil}

(* Mutant: the channel arguments left out of the comparison.               *)
TailsOfName(t, ch) ==
    {i \in DOMAIN t : /\ t[i].channel[1] = ch[1]
                      /\ t[i].after # Null
                      /\ i # Nil
                      /\ \A j \in DOMAIN t : t[j].after # i}

(* The ordered messages of a channel that no message comes after.          *)
Tails(t, ch) ==
    {i \in DOMAIN t : /\ t[i].channel = ch
                      /\ t[i].after # Null
                      /\ i # Nil
                      /\ \A j \in DOMAIN t : t[j].after # i}

(* The answers mq_latest_message may give: rows that tie on created_at     *)
(* come in no particular order.                                            *)
mq_latest_message(t, ch) ==
    IF Tails(t, ch) = {} THEN {Nil}
    ELSE {i \in Tails(t, ch) :
            \A j \in Tails(t, ch) : t[j].created_at <= t[i].created_at}

(* start is NOW(), the time the inserting transaction began.               *)
NewRow(new, start, latest) ==
    [created_at      |-> start,
     attempt_at      |-> start + new.delay + Coalesce(new.commit_interval, 0),
     attempts        |-> new.retries + 1,
     retry_backoff   |-> new.retry_backoff,
     channel         |-> new.channel,
     commit_interval |-> new.commit_interval,
     after           |-> IF new.ordered THEN latest ELSE Null]

AfterInsert(t, m, row) == [i \in DOMAIN t \cup {m} |-> IF i = m THEN row ELSE t[i]]

-----------------------------------------------------------------------------
(* mq_poll *)

(* Mutant: the commit interval not waited for.                             *)
DueUncommitted(row, now) ==
    row.attempt_at # Null /\ row.attempt_at - Coalesce(row.commit_interval, 0) <= now

Due(row, now) == row.attempt_at # Null /\ row.attempt_at <= now

Subscribed(names, ch) == names = Null \/ ch[1] \in names

(* Mutant: the messages before it ignored.                                 *)
ReadyInAnyOrder(t, now, names) ==
    {i \in DOMAIN t : i # Nil /\ Due(t[i], now) /\ Subscribed(names, t[i].channel)}

(* The messages a poll at time now may claim.                              *)
Ready(t, now, names) ==
    {i \in DOMAIN t : /\ i # Nil
                      /\ Due(t[i], now)
                      /\ Subscribed(names, t[i].channel)
                      /\ ~ mq_uuid_exists(t[i].after)}

(* The times of the messages of which a poll that updated nothing answers  *)
(* the least, by a second query with a filter of its own; MIN skips NULL.  *)
NextAttempts(t, names) ==
    {t[i].attempt_at : i \in {j \in DOMAIN t : /\ j # Nil
                                               /\ ~ mq_uuid_exists(t[j].after)
                                               /\ Subscribed(names, t[j].channel)}}
        \ {Null}

Cap(n, limit) == IF n < limit THEN n ELSE limit

(* S is a result of the poll's subquery: at most limit channels picked at  *)
(* random by mq_active_channels, from each of them the limit messages that *)
(* have waited longest, and of all these any limit rows.                   *)
IsBatch(S, t, now, names, limit) ==
    LET ready    == Ready(t, now, names)
        active   == {t[i].channel : i \in ready}
        In(c)    == {i \in ready : t[i].channel = c}
        Oldest(c) == {T \in SUBSET In(c) :
                        /\ Cardinality(T) = Cap(Cardinality(In(c)), limit)
                        /\ \A i \in T, j \in In(c) \ T :
                               t[i].attempt_at <= t[j].attempt_at}
    IN  /\ S \subseteq ready
        /\ \E C \in SUBSET active :
             LET joined == {i \in ready : t[i].channel \in C}
             IN  /\ Cardinality(C) = Cap(Cardinality(active), limit)
                 /\ S \subseteq joined
                 /\ \A c \in C : \E T \in Oldest(c) : S \cap In(c) \subseteq T
                 /\ Cardinality(S) = Cap(Cardinality(joined), limit)

(* Mutant: one attempt too many.                                           *)
ClaimedOnceMore(row, now) ==
    [row EXCEPT !.attempt_at = IF row.attempts = 0 THEN Null
                               ELSE now + row.retry_backoff,
                !.attempts = @ - 1,
                !.retry_backoff = @ * 2]

(* Mutant: a claim that is no lease.                                       *)
ClaimedWithoutLease(row, now) ==
    [row EXCEPT !.attempt_at = IF row.attempts = 1 THEN Null ELSE now,
                !.attempts = @ - 1,
                !.retry_backoff = @ * 2]

(* The claim itself: the next attempt is a backoff away, or never.         *)
Claimed(row, now) ==
    [row EXCEPT !.attempt_at = IF row.attempts = 1 THEN Null
                               ELSE now + row.retry_backoff,
                !.attempts = @ - 1,
                !.retry_backoff = @ * 2]

AfterPoll(t, S, now) == [i \in DOMAIN t |-> IF i \in S THEN Claimed(t[i], now) ELSE t[i]]

-----------------------------------------------------------------------------
(* mq_commit, mq_keep_alive, mq_checkpoint *)

Committed(row) ==
    [row EXCEPT !.attempt_at = IF @ = Null THEN Null ELSE @ - row.commit_interval,
                !.commit_interval = Null]

AfterCommit(t, S) ==
    [i \in DOMAIN t |-> IF i \in S /\ t[i].commit_interval # Null
                        THEN Committed(t[i]) ELSE t[i]]

(* Mutant: the commit interval left as it was.                             *)
KeptAliveOnly(row, until) == [row EXCEPT !.attempt_at = until]

(* A later deadline is put off no further, an earlier one is moved, and a  *)
(* commit interval grows by as much as the deadline moved.                 *)
KeptAlive(row, until) ==
    [row EXCEPT !.attempt_at = until,
                !.commit_interval = IF @ = Null THEN Null
                                    ELSE @ + (until - row.attempt_at)]

(* Mutant: the deadline set without a look at the one there is.            *)
AfterKeepAliveAlways(t, S, until) ==
    [i \in DOMAIN t |->
        IF i \in S /\ t[i].attempt_at # Null THEN KeptAlive(t[i], until) ELSE t[i]]

AfterKeepAlive(t, S, until) ==
    [i \in DOMAIN t |->
        IF i \in S /\ t[i].attempt_at # Null /\ t[i].attempt_at < until
        THEN KeptAlive(t[i], until) ELSE t[i]]

AfterCheckpoint(t, m, until, extra) ==
    [i \in DOMAIN t |->
        IF i = m THEN [t[i] EXCEPT !.attempt_at = Greatest(@, until),
                                   !.attempts = @ + extra]
        ELSE t[i]]

(* Mutant: the columns a checkpoint leaves out overwritten with NULL.      *)
AfterPayloadOverwrite(p, m, new) == [i \in DOMAIN p |-> IF i = m THEN new ELSE p[i]]

(* The columns a checkpoint leaves out keep their value.                   *)
AfterPayload(p, m, new) ==
    [i \in DOMAIN p |-> IF i = m THEN Coalesce(new, p[i]) ELSE p[i]]

-----------------------------------------------------------------------------
(* mq_delete and the two mq_clear procedures *)

(* Mutant: ON DELETE SET NULL.                                             *)
AfterDeleteSetNull(t, S) ==
    [i \in DOMAIN t \ S |->
        IF t[i].after \in S THEN [t[i] EXCEPT !.after = Null] ELSE t[i]]

(* The rows S are gone; ON DELETE SET DEFAULT makes their successors first.*)
AfterDelete(t, S) ==
    [i \in DOMAIN t \ S |->
        IF t[i].after \in S THEN [t[i] EXCEPT !.after = Nil] ELSE t[i]]

(* Mutant: the channels of messages that still wait notified instead.      *)
UnblockedWaiting(t, S) ==
    {t[i].channel[1] : i \in {j \in S \cap DOMAIN t : mq_uuid_exists(t[j].after)}}

(* The channels mq_delete notifies.                                        *)
Unblocked(t, S) == {t[i].channel[1] : i \in {j \in S \cap DOMAIN t : t[j].after = Nil}}

Without(p, S) == [i \in DOMAIN p \ S |-> p[i]]

(* Mutant: mq_clear before 20220713122907, the dummy row cleared as well.  *)
ClearedWithNil(t, names) == {i \in DOMAIN t : t[i].channel[1] \in names}

Cleared(t, names) == {i \in DOMAIN t : t[i].channel[1] \in names /\ i # Nil}
=============================================================================
