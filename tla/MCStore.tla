------------------------------ MODULE MCStore -------------------------------
(* Small instances of MqStore for TLC.                                     *)
EXTENDS MqStore, TLC

CONSTANTS m1, m2, m3, n0, a0, a1, p0, p1

Ids == Permutations(MsgId)

MCNilChannel == <<n0, a0>>

Job(ch, ord, delay, retries, backoff, ci) ==
    [channel |-> ch, ordered |-> ord, delay |-> delay, retries |-> retries,
     retry_backoff |-> backoff, commit_interval |-> ci, payload |-> p0]

MCAll == {Null}
MCNone == {}

(* Two channels of one name, the first of them that of the dummy row: jobs *)
(* ordered and not, with a delay, a commit interval, a retry and a backoff *)
(* or without.                                                             *)
AllJobs == {Job(<<n0, a0>>, TRUE, 0, 0, 1, Null), Job(<<n0, a1>>, TRUE, 1, 1, 1, 1),
            Job(<<n0, a0>>, FALSE, 0, 1, 0, Null)}
AllCheckpoints == {[duration |-> 2, payload |-> p, extra_retries |-> e] : <<p, e>> \in {<<p1, 1>>, <<Null, 0>>}}
AllClears == {{n0}}

(* A checkpoint that only keeps the job alive, in its only attempt.        *)
LastAttemptJobs == {Job(<<n0, a0>>, FALSE, 0, 0, 1, Null)}
KeepAliveOnly == {[duration |-> 1, payload |-> Null, extra_retries |-> 0]}
=============================================================================
