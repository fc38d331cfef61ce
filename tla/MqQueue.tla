------------------------------ MODULE MqQueue -------------------------------
(***************************************************************************)
(* What a user of sqlxmq may think of when leases are kept: one queue of   *)
(* jobs.  A job is spawned, open until its producer has committed it, and  *)
(* then taken by one worker at a time, who completes it for good or lets   *)
(* it go; an ordered one is not taken before those ahead of it in its      *)
(* channel have left.  Nothing here has a schedule, an attempt or a lease. *)
(***************************************************************************)
EXTENDS Naturals

CONSTANTS MsgId, Channel

VARIABLES
    births,     \* how many jobs have been spawned
    job,        \* position, channel and kind of each job, position 0 for none
    status,     \* how far it is
    taken,      \* the jobs workers have
    effects     \* how many transactions each has completed

qvars == <<births, job, status, taken, effects>>

Job    == [birth : Nat, channel : Channel, ordered : BOOLEAN]
Status == {"none", "open", "waiting", "gone"}

Init ==
    /\ births = 0
    /\ job \in [MsgId -> Job] /\ \A m \in MsgId : job[m].birth = 0
    /\ status = [m \in MsgId |-> "none"]
    /\ taken = {}
    /\ effects = [m \in MsgId |-> 0]

Queued(m) == status[m] \in {"open", "waiting"}

Ahead(n, m) == /\ job[n].ordered /\ job[m].ordered
               /\ job[n].channel = job[m].channel
               /\ job[n].birth < job[m].birth

Leave(S) == status' = [m \in MsgId |-> IF m \in S THEN "gone" ELSE status[m]]

Spawn(m) ==
    /\ status[m] = "none"
    /\ births' = births + 1
    /\ \E ch \in Channel, ordered \in BOOLEAN :
          job' = [job EXCEPT ![m] = [birth |-> births + 1, channel |-> ch,
                                     ordered |-> ordered]]
    /\ \E s \in {"open", "waiting"} : status' = [status EXCEPT ![m] = s]
    /\ UNCHANGED <<taken, effects>>

Commit(m) ==
    /\ status[m] = "open"
    /\ status' = [status EXCEPT ![m] = "waiting"]
    /\ UNCHANGED <<births, job, taken, effects>>

(* The producer has not committed them in time.                            *)
Discard(S) ==
    /\ \A m \in S : status[m] = "open"
    /\ Leave(S)
    /\ UNCHANGED <<births, job, taken, effects>>

Take(S) ==
    /\ S \cap taken = {}
    /\ \A m \in S : /\ status[m] = "waiting"
                    /\ \A n \in MsgId : Queued(n) => ~ Ahead(n, m)
    /\ taken' = taken \cup S
    /\ UNCHANGED <<births, job, status, effects>>

LetGo(S) ==
    /\ taken' = taken \ S
    /\ UNCHANGED <<births, job, status, effects>>

Complete(m) ==
    /\ m \in taken
    /\ taken' = taken \ {m}
    /\ Leave({m})
    /\ effects' \in {effects, [effects EXCEPT ![m] = @ + 1]}
    /\ UNCHANGED <<births, job>>

(* Whoever works on a job that is cleared does not learn of it.            *)
Clear(C) ==
    /\ Leave({m \in MsgId : Queued(m) /\ job[m].channel \in C})
    /\ UNCHANGED <<births, job, taken, effects>>

Next ==
    \/ \E m \in MsgId : Spawn(m) \/ Commit(m) \/ Complete(m)
    \/ \E S \in SUBSET MsgId : Discard(S) \/ Take(S) \/ LetGo(S)
    \/ \E C \in SUBSET Channel : Clear(C)

Spec == Init /\ [][Next]_qvars
=============================================================================
