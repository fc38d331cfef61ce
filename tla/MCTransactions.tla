--------------------------- MODULE MCTransactions ---------------------------
(***************************************************************************)
(* Small tables and statements for TLC.                                    *)
(***************************************************************************)
EXTENDS MqTransactions, TLC

CONSTANTS d, e, x, none

MCNil == <<x, none>>

(* An empty queue: all messages are inserted.                              *)
MCTables == {Nil :> NilRow}

S(op, ids, limit, duration) ==
    [op |-> op, ids |-> ids, limit |-> limit, duration |-> duration]

(* d is due later, when its commit interval has passed.                    *)
New(id) ==
    [channel |-> MCNil, ordered |-> TRUE, delay |-> 0, retries |-> 0,
     retry_backoff |-> 1, commit_interval |-> IF id = d THEN 1 ELSE Null,
     payload |-> none]

I(id) == [op |-> "insert", id |-> id, new |-> New(id)]

MCStatements ==
    {S("poll", {}, 2, 0), S("keep_alive", {d}, 0, 2), S("delete", {d}, 0, 0),
     S("clear", {}, 0, 0), I(d), I(e)}

Symmetry == Permutations(Tx)
=============================================================================
