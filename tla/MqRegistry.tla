----------------------------- MODULE MqRegistry -----------------------------
(***************************************************************************)
(* The library as a program uses it: functions become named jobs           *)
(* (MqDefinitions), producers spawn them, and a process that registers     *)
(* some of them runs what it is handed - with a runner that it stops       *)
(* before it ends, or one job at a time with test_one.                     *)
(*                                                                         *)
(* Of a row it keeps the name and whether it may be polled, of a runner    *)
(* that it polls and dispatches and may be stopped: MqStore, MqRunner and  *)
(* MqLease have the rest.  A message is not handed out while its job runs  *)
(* (LeaseKept).  Which messages are committed is left open (MqJobs).       *)
(***************************************************************************)
EXTENDS MqDefinitions, FiniteSets, Functions

CONSTANTS
    Message,    \* slots for messages
    Context,    \* types of context
    Needs,      \* the types of a job function's further arguments
    MaxJobs     \* bound on the list given to JobRegistry::new

VARIABLES
    process,    \* where the process is
    jobs,       \* the list given to JobRegistry::new
    context,    \* the types of context provided
    batch,      \* messages polled and not yet dispatched
    rows,       \* the messages
    tasks,      \* the task that runs the job of each message
    running_jobs

registry == <<process, jobs, context, batch, rows, tasks, running_jobs>>
vars == <<args, options, errors, named, sent,
          process, jobs, context, batch, rows, tasks, running_jobs>>

(* off: not started.  crashed: the task of its runner has panicked, which  *)
(* its main function does not notice.  panicked: its main function.        *)
(* stopped, finished: stop(), wait_jobs_finish() has returned.  testing,   *)
(* tested: test_one() has been called, has returned.                       *)
Process == {"off", "built", "running", "crashed", "stopped", "finished",
            "testing", "tested", "panicked"}

(* leased: not to be handed out for now; never: attempt_at is NULL.        *)
Status == {"ready", "leased", "never", "gone"}

(* running, completed: the function, before and after complete().  failed: *)
(* it has returned an error and dropped its CurrentJob.                    *)
TaskState == {"running", "completed", "failed"}

Row == [name : Names \cup Path, by : Job \cup {Null}, status : Status]

Task == [fn : Job, at : TaskState]

ASSUME RegistryAssumption ==
    /\ IsFiniteSet(Message)
    /\ Needs \in [Job -> SUBSET Context]
    /\ MaxJobs \in Nat
    /\ Null \notin Row /\ Null \notin Task /\ Null \notin Job

Init ==
    /\ DefInit
    /\ process = "off"
    /\ jobs = <<>>
    /\ context = {}
    /\ batch = {}
    /\ rows = [m \in Message |-> Null]
    /\ tasks = [m \in Message |-> Null]
    /\ running_jobs = 0

-----------------------------------------------------------------------------
Free == {m \in Message : rows[m] = Null \/ (rows[m].status = "gone" /\ tasks[m] = Null)}

(* mq_insert; an error leaves no row, a slot is used again.                *)
Insert(m) ==
    /\ sent # Null
    /\ m \in Free
    /\ sent' = Null
    /\ rows' = IF sent.attempts = Null THEN rows
               ELSE [rows EXCEPT ![m] = [name |-> sent.name, by |-> sent.by, status |-> "ready"]]
    /\ UNCHANGED <<args, options, errors, named,
                   process, jobs, context, batch, tasks, running_jobs>>

-----------------------------------------------------------------------------
(* JobRegistry *)

NamesOf(list) == [i \in DOMAIN list |-> named[list[i]].name]

(* Mutant: no look at what insert returns.                                 *)
newUnchecked(list) ==
    /\ Compiled /\ process = "off"
    /\ jobs' = list
    /\ context' = {}
    /\ process' = "built"
    /\ UNCHANGED <<definitions, batch, rows, tasks, running_jobs>>

new(list) ==
    /\ Compiled /\ process = "off"
    /\ jobs' = list
    /\ context' = {}
    /\ process' = IF IsInjective(NamesOf(list)) THEN "built" ELSE "panicked"
    /\ UNCHANGED <<definitions, batch, rows, tasks, running_jobs>>

set_context(type) ==
    /\ process = "built"
    /\ context' = context \cup {type}
    /\ UNCHANGED <<definitions, process, jobs, batch, rows, tasks, running_jobs>>

(* job_map.get(name)                                                       *)
resolve_job(name) ==
    IF \E job \in Range(jobs) : named[job].name = name
    THEN CHOOSE job \in Range(jobs) : named[job].name = name
    ELSE Null

(* The name is unknown: the error handler is called and the handle goes.   *)
DispatchUnknown(m) ==
    /\ m \in batch
    /\ resolve_job(rows[m].name) = Null
    /\ batch' = batch \ {m}
    /\ UNCHANGED <<definitions, process, jobs, context, rows, tasks, running_jobs>>

(* What dispatch calls panics, on the task of the runner or in test_one:   *)
(* registry.context() without that context, what a job function that is    *)
(* not async does before it returns its future, or the error handler.  The *)
(* handle goes, and the rest of the batch is lost.                         *)
DispatchPanics(m) ==
    /\ m \in batch
    /\ process' = IF process = "testing" THEN "panicked" ELSE "crashed"
    /\ batch' = {}
    /\ UNCHANGED <<definitions, jobs, context, rows, tasks, running_jobs>>

DispatchJob(m) ==
    LET job == resolve_job(rows[m].name) IN
    /\ m \in batch
    /\ job # Null /\ Needs[job] \subseteq context
    /\ batch' = batch \ {m}
    /\ tasks' = [tasks EXCEPT ![m] = [fn |-> job, at |-> "running"]]
    /\ running_jobs' = running_jobs + 1
    /\ UNCHANGED <<definitions, process, jobs, context, rows>>

Dispatch(m) == DispatchUnknown(m) \/ DispatchPanics(m) \/ DispatchJob(m)

-----------------------------------------------------------------------------
(* The process *)

run ==
    /\ process = "built"
    /\ process' = "running"
    /\ UNCHANGED <<definitions, jobs, context, batch, rows, tasks, running_jobs>>

Ready == {m \in Message : rows[m] # Null /\ rows[m].status = "ready"}

(* mq_poll hands out S, for some the last time.                            *)
Claimed(S, last) ==
    [m \in Message |->
        IF m \notin S THEN rows[m]
        ELSE [rows[m] EXCEPT !.status = IF m \in last THEN "never" ELSE "leased"]]

(* mq_delete                                                               *)
Deleted(rs, S) ==
    [m \in Message |-> IF m \in S THEN [rs[m] EXCEPT !.status = "gone"] ELSE rs[m]]

(* Those that are not committed are deleted.  Either answer may be lost,   *)
(* and the batch with it.                                                  *)
Poll ==
    /\ process = "running" /\ batch = {}
    /\ \E S \in (SUBSET Ready) \ {{}} : \E last, uncommitted \in SUBSET S :
          \/ batch' = S \ uncommitted /\ rows' = Deleted(Claimed(S, last), uncommitted)
          \/ batch' = {} /\ rows' = Claimed(S, last)
    /\ UNCHANGED <<definitions, process, jobs, context, tasks, running_jobs>>

(* Its poll has a batch size of 1.  It finds nothing, or the query fails;  *)
(* or a message that is not committed, or the answer is lost: nothing is   *)
(* run, the message stays claimed, and unless a query failed it returns    *)
(* Ok.  The assertion before that is of the number of rows, which is one   *)
(* also when there is no message.                                          *)
test_one ==
    /\ process = "built"
    /\ \/ process' = "tested" /\ UNCHANGED <<batch, rows>>
       \/ \E m \in Ready : \E last \in SUBSET {m} :
             /\ rows' = Claimed({m}, last)
             /\ \/ process' = "testing" /\ batch' = {m}
                \/ process' = "tested" /\ batch' = {}
    /\ UNCHANGED <<definitions, jobs, context, tasks, running_jobs>>

KeptAlive == {m \in Message : tasks[m] # Null /\ tasks[m].at = "running"}

(* rx.await: the task that holds tx is gone, stopped by complete() or      *)
(* dropped with the CurrentJob.                                            *)
TestReturns ==
    /\ process = "testing" /\ batch = {}
    /\ KeptAlive = {}
    /\ process' = "tested"
    /\ UNCHANGED <<definitions, jobs, context, batch, rows, tasks, running_jobs>>

(* Mutant: abort without await.                                            *)
stopAtOnce ==
    /\ process = "running"
    /\ process' = "stopped"
    /\ UNCHANGED <<definitions, jobs, context, batch, rows, tasks, running_jobs>>

(* The loop over a batch has no suspension point, so that stop(), which    *)
(* awaits the task it has aborted, returns before it or after it; and it   *)
(* returns as well when the task has panicked.                             *)
stop ==
    /\ process \in {"running", "crashed"} /\ batch = {}
    /\ process' = "stopped"
    /\ UNCHANGED <<definitions, jobs, context, batch, rows, tasks, running_jobs>>

(* In time: else the process goes on as in Exit.                           *)
wait_jobs_finish ==
    /\ process = "stopped"
    /\ running_jobs = 0
    /\ process' = "finished"
    /\ UNCHANGED <<definitions, jobs, context, batch, rows, tasks, running_jobs>>

(* Its main function returns, or it is killed: all its tasks are gone.     *)
Exit ==
    /\ process # "off"
    /\ process' = "off"
    /\ jobs' = <<>>
    /\ context' = {}
    /\ batch' = {}
    /\ tasks' = [m \in Message |-> Null]
    /\ running_jobs' = 0
    /\ UNCHANGED <<definitions, rows>>

-----------------------------------------------------------------------------
(* Jobs *)

complete(m) ==
    /\ tasks[m] # Null /\ tasks[m].at = "running"
    /\ tasks' = [tasks EXCEPT ![m].at = "completed"]
    /\ rows' = [rows EXCEPT ![m].status = "gone"]
    /\ UNCHANGED <<definitions, process, jobs, context, batch, running_jobs>>

(* The function returns Ok(()) or panics, or returns an error: the handle  *)
(* is dropped, and only then does the error handler get the error.         *)
JobEnds(m) ==
    /\ tasks[m] # Null /\ tasks[m].at # "failed"
    /\ \E failed \in BOOLEAN :
         tasks' = [tasks EXCEPT ![m] = IF failed THEN [@ EXCEPT !.at = "failed"] ELSE Null]
    /\ running_jobs' = running_jobs - 1
    /\ UNCHANGED <<definitions, process, jobs, context, batch, rows>>

error_handler(m) ==
    /\ tasks[m] # Null /\ tasks[m].at = "failed"
    /\ tasks' = [tasks EXCEPT ![m] = Null]
    /\ UNCHANGED <<definitions, process, jobs, context, batch, rows, running_jobs>>

(* Mutant: a job that is not kept alive.                                   *)
LeaseRunsOutUnkept(m) ==
    /\ rows[m] # Null /\ rows[m].status = "leased"
    /\ m \notin batch
    /\ rows' = [rows EXCEPT ![m].status = "ready"]
    /\ UNCHANGED <<definitions, process, jobs, context, batch, tasks, running_jobs>>

(* Not before the job is over, and its error has been handled.             *)
LeaseRunsOut(m) ==
    /\ rows[m] # Null /\ rows[m].status = "leased"
    /\ m \notin batch /\ tasks[m] = Null
    /\ rows' = [rows EXCEPT ![m].status = "ready"]
    /\ UNCHANGED <<definitions, process, jobs, context, batch, tasks, running_jobs>>

Lists == UNION {[1..n -> Job] : n \in 0..MaxJobs}

Next ==
    \/ DefNext /\ UNCHANGED registry
    \/ \E m \in Message : \/ Insert(m) \/ Dispatch(m)
                          \/ complete(m) \/ JobEnds(m) \/ error_handler(m)
                          \/ LeaseRunsOut(m)
    \/ \E list \in Lists : new(list)
    \/ \E type \in Context : set_context(type)
    \/ run \/ Poll \/ test_one \/ TestReturns
    \/ stop \/ wait_jobs_finish \/ Exit

Spec == Init /\ [][Next]_vars

-----------------------------------------------------------------------------
HasHandle(m) == tasks[m] # Null /\ tasks[m].at # "failed"

(* The state has its types; running_jobs is the number of handles, which   *)
(* are for messages the store has handed out, each to one task.            *)
LibraryTypeOK ==
    /\ named \in [Job -> NamedJob \cup {Null}]
    /\ process \in Process
    /\ jobs \in Lists
    /\ context \subseteq Context
    /\ batch \subseteq Message
    /\ running_jobs = Cardinality({m \in Message : HasHandle(m)})
    /\ \A m \in Message :
          /\ rows[m] \in Row \cup {Null} /\ tasks[m] \in Task \cup {Null}
          /\ m \in batch => rows[m] # Null /\ rows[m].status \in {"leased", "never"}
          /\ m \in batch => tasks[m] = Null

(* "Stores a mapping from job name to job": a message runs the function    *)
(* that spawned it, when that is registered - whatever names the           *)
(* attributes gave - and never one of another name.                        *)
RunsTheJobSpawned ==
    \A m \in Message : tasks[m] # Null =>
        /\ named[tasks[m].fn].name = rows[m].name
        /\ rows[m].by \in Range(jobs) => tasks[m].fn = rows[m].by

(* stop() and wait_jobs_finish(), in this order, leave no job running: if  *)
(* the wait has not timed out, the process may end - also when the task of *)
(* the runner has panicked in a dispatch.                                  *)
GracefulExit == process = "finished" => batch = {} /\ \A m \in Message : ~ HasHandle(m)
=============================================================================
