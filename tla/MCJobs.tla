------------------------------- MODULE MCJobs -------------------------------
(* Small instances of MqJobs for TLC.                                      *)
EXTENDS MqJobs, TLC

CONSTANTS m1, m2, r1, r2, n0, a0, p0

Ids == Permutations(MsgId) \cup Permutations(Runner)

MCNilChannel == <<n0, a0>>

Job(ordered, retries, backoff, ci) ==
    [channel |-> <<n0, a0>>, ordered |-> ordered, delay |-> 0, retries |-> retries,
     retry_backoff |-> backoff, commit_interval |-> ci, payload |-> p0]

MCAll  == {Null}
MCNone == {}

(* Jobs with and without a commit interval.                                *)
TwoPhaseJobs == {Job(o, 1, 2, ci) : o \in BOOLEAN, ci \in {Null, 1}}

MCCheckpoints == {[duration |-> 2, payload |-> Null, extra_retries |-> 1]}
=============================================================================
