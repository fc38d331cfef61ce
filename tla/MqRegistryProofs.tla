-------------------------- MODULE MqRegistryProofs --------------------------
(***************************************************************************)
(* What MqRegistry promises, for every set of jobs, messages and contexts. *)
(***************************************************************************)
EXTENDS MqRegistry, MqDefinitionsProofs, FiniteSetTheorems

USE RegistryAssumption DEF RegistryAssumption

(* A process that may hand out messages.                                   *)
Up == {"built", "running", "crashed", "stopped", "finished", "testing", "tested"}

Handles == {m \in Message : HasHandle(m)}

(* Types of what the process has; names are settled once it has started.   *)
ProcessInv ==
    /\ process \in Process
    /\ process # "off" => Compiled
    /\ jobs \in Lists
    /\ context \subseteq Context
    /\ batch \subseteq Message
    /\ batch # {} => process \in {"running", "testing"}
    /\ process \in Up => IsInjective(NamesOf(jobs))

(* A message keeps the name its job was spawned under.                     *)
NamesInv ==
    /\ sent # Null => /\ Compiled
                      /\ sent.name \in Names \cup Path
                      /\ sent.by \in Job \cup {Null}
                      /\ sent.by # Null => sent.name = named[sent.by].name
    /\ rows \in [Message -> Row \cup {Null}]
    /\ \A m \in Message : rows[m] # Null =>
          Compiled /\ (rows[m].by # Null => rows[m].name = named[rows[m].by].name)

(* A message is in one place; a task runs the registered function.         *)
TasksInv ==
    /\ tasks \in [Message -> Task \cup {Null}]
    /\ \A m \in Message :
          /\ m \in batch => /\ rows[m] # Null /\ rows[m].status \in {"leased", "never"}
                            /\ tasks[m] = Null
          /\ rows[m] # Null /\ rows[m].status = "ready" => tasks[m] = Null
          /\ tasks[m] # Null =>
               /\ process \notin {"off", "built"}
               /\ rows[m] # Null
               /\ tasks[m].fn \in Range(jobs)
               /\ named[tasks[m].fn].name = rows[m].name
               /\ IsInjective(NamesOf(jobs))

CountInv == running_jobs = Cardinality(Handles)

(* What an owner that has waited knows.                                    *)
WaitedInv == process = "finished" => Handles = {}

RegInv == DefInv /\ ProcessInv /\ NamesInv /\ TasksInv /\ CountInv /\ WaitedInv

-----------------------------------------------------------------------------
(* The members of a list of jobs are jobs.                                 *)
LEMMA ListTypes == ASSUME NEW list \in Lists PROVE Range(list) \subseteq Job
BY DEF Lists, Range

(* An empty list has no names.                                             *)
LEMMA EmptyList == <<>> \in Lists /\ IsInjective(NamesOf(<<>>)) /\ Range(<<>>) = {}
<1>1. 0 \in 0..MaxJobs /\ 1..0 = {}
  OBVIOUS
<1>2. <<>> \in [1..0 -> Job]
  BY <1>1
<1>3. <<>> \in Lists
  BY <1>1, <1>2 DEF Lists
<1>4. QED
  BY <1>3 DEF IsInjective, NamesOf, Range

(* Where there is no task there is no handle.                              *)
LEMMA NoHandles == (\A m \in Message : tasks[m] = Null) => Handles = {} /\ Cardinality(Handles) = 0
BY FS_EmptySet DEF Handles, HasHandle

(* Handles can be counted.                                                 *)
LEMMA HandlesFinite == IsFiniteSet(Handles)
BY FS_Subset DEF Handles

(* The invariant holds at first.                                           *)
LEMMA RegInit == Init => RegInv
<1> SUFFICES ASSUME Init PROVE RegInv
  OBVIOUS
<1>1. DefInv
  BY DefInitInv DEF Init
<1>2. ProcessInv
  BY EmptyList DEF Init, ProcessInv, Process, Up
<1>3. NamesInv /\ TasksInv
  BY DEF Init, DefInit, NamesInv, TasksInv
<1>4. CountInv /\ WaitedInv
  BY NoHandles DEF Init, CountInv, WaitedInv
<1>5. QED
  BY <1>1, <1>2, <1>3, <1>4 DEF RegInv

(* What the registry finds is registered, under that name.                 *)
LEMMA Resolved ==
    ASSUME NEW name, resolve_job(name) # Null
    PROVE  resolve_job(name) \in Range(jobs) /\ named[resolve_job(name)].name = name
BY DEF resolve_job

(* Once the crate is compiled no name changes.                             *)
LEMMA NamesSettled == Compiled /\ DefNext => named' = named
BY DEF Compiled, DefNext, interpret_job_arg, Expand, Spawn, SpawnByName

(* What a producer sends has a name, and the one its function has.         *)
LEMMA SentStep ==
    ASSUME DefInv, Compiled, DefNext
    PROVE  \/ sent' = sent
           \/ /\ sent'.name \in Names \cup Path /\ sent'.by \in Job \cup {Null}
              /\ sent'.by # Null => sent'.name = named[sent'.by].name
<1>1. ASSUME NEW j \in Job, NEW overrides, Spawn(j, overrides)
      PROVE  sent'.by = j /\ sent'.name = named[j].name /\ sent'.name \in Names \cup Path
  <2>1. named[j] \in NamedJob
    BY DEF DefInv, Compiled
  <2>2. named[j].name \in Names \cup Path
    BY <2>1 DEF NamedJob
  <2>3. QED
    BY <1>1, <2>2 DEF Spawn, Params
<1>2. ASSUME NEW name \in Names, SpawnByName(name) PROVE sent'.by = Null /\ sent'.name = name
  BY <1>2 DEF SpawnByName, Params
<1>3. QED
  BY <1>1, <1>2 DEF DefNext, interpret_job_arg, Expand

(* Once everything is compiled no name changes any more.                   *)
LEMMA DefinitionsStep ==
    ASSUME RegInv, DefNext, UNCHANGED registry
    PROVE  RegInv'
<1>1. Compiled => Compiled' /\ named' = named
  BY NamesSettled DEF Compiled
<1>2. UNCHANGED <<process, jobs, context, batch, rows, tasks, running_jobs>>
  BY DEF registry
<1>3. DefInv'
  BY DefStep DEF RegInv
<1>4. CountInv' /\ WaitedInv'
  BY <1>2 DEF RegInv, CountInv, WaitedInv, Handles, HasHandle
<1>5. CASE Compiled
  <2>1. ProcessInv'
    BY <1>1, <1>2, <1>5 DEF RegInv, ProcessInv, NamesOf
  <2>2. TasksInv'
    BY <1>1, <1>2, <1>5 DEF RegInv, TasksInv, NamesOf
  <2>3. NamesInv'
    BY <1>1, <1>2, <1>5, SentStep DEF RegInv, NamesInv
  <2>4. QED
    BY <1>3, <1>4, <2>1, <2>2, <2>3 DEF RegInv
<1>6. CASE ~ Compiled
  <2>1. process = "off" /\ sent = Null /\ batch = {} /\ \A m \in Message : rows[m] = Null /\ tasks[m] = Null
    BY <1>6 DEF RegInv, ProcessInv, NamesInv, TasksInv
  <2>2. sent' = Null
    BY <1>6, <2>1 DEF DefNext, interpret_job_arg, Expand, Spawn, SpawnByName
  <2>3. ProcessInv'
    BY <1>2, <2>1 DEF RegInv, ProcessInv, Up
  <2>4. NamesInv' /\ TasksInv'
    BY <1>2, <2>1, <2>2 DEF RegInv, NamesInv, TasksInv
  <2>5. QED
    BY <1>3, <1>4, <2>3, <2>4 DEF RegInv
<1>7. QED
  BY <1>5, <1>6

(* A step of the rest of the system.                                       *)
LEMMA DefinitionsKept ==
    ASSUME DefInv, UNCHANGED <<args, options, errors, named>>
    PROVE  DefInv'
BY DEF DefInv

(* A message carries the name its function was spawned under.              *)
LEMMA InsertStep == ASSUME RegInv, NEW m \in Message, Insert(m) PROVE RegInv'
<1>1. UNCHANGED <<args, options, errors, named, process, jobs, context, batch, tasks, running_jobs>>
  BY DEF Insert
<1>2. DefInv'
  BY <1>1, DefinitionsKept DEF RegInv
<1>3. ProcessInv'
  BY <1>1 DEF RegInv, ProcessInv, Compiled, NamesOf
<1>4. tasks[m] = Null /\ m \notin batch
  BY DEF RegInv, TasksInv, Insert, Free
<1> DEFINE row == [name |-> sent.name, by |-> sent.by, status |-> "ready"]
<1>5. sent' = Null /\ sent # Null /\ (rows' = rows \/ rows' = [rows EXCEPT ![m] = row])
  BY DEF Insert
<1>6. row \in Row /\ Compiled /\ (row.by # Null => row.name = named[row.by].name)
  BY <1>5 DEF RegInv, NamesInv, Row, Status
<1>7. NamesInv'
  BY <1>1, <1>5, <1>6 DEF RegInv, NamesInv, Compiled
<1>8. TasksInv'
  BY <1>1, <1>4, <1>5 DEF RegInv, TasksInv, NamesInv, NamesOf
<1>9. CountInv' /\ WaitedInv'
  BY <1>1 DEF RegInv, CountInv, WaitedInv, Handles, HasHandle
<1>10. QED
  BY <1>2, <1>3, <1>7, <1>8, <1>9 DEF RegInv

(* A process registers functions and contexts before it runs.              *)
LEMMA StartStep ==
    ASSUME RegInv, (\E list \in Lists : new(list)) \/ \E type \in Context : set_context(type)
    PROVE  RegInv'
<1>1. /\ UNCHANGED <<args, options, errors, named, sent, batch, rows, tasks, running_jobs>>
      /\ process \in {"off", "built"} /\ Compiled /\ process' \in {"built", "panicked"}
  BY DEF new, set_context, definitions, RegInv, ProcessInv
<1>2. batch = {} /\ \A m \in Message : tasks[m] = Null
  BY <1>1 DEF RegInv, ProcessInv, TasksInv
<1>3. NamesInv' /\ TasksInv'
  BY <1>1, <1>2 DEF RegInv, NamesInv, TasksInv, Compiled
<1>4. CountInv' /\ WaitedInv'
  BY <1>1, <1>2 DEF RegInv, CountInv, WaitedInv, Handles, HasHandle
<1>5. DefInv'
  BY <1>1, DefinitionsKept DEF RegInv
<1>6. CASE \E list \in Lists : new(list)
  <2>1. PICK list \in Lists : new(list)
    BY <1>6
  <2>2. jobs' = list /\ NamesOf(list)' = NamesOf(list) /\ context' = {}
    BY <1>1, <2>1 DEF new, NamesOf
  <2>3. process' = (IF IsInjective(NamesOf(list)) THEN "built" ELSE "panicked")
    BY <2>1 DEF new
  <2>4. ProcessInv'
    BY <1>1, <1>2, <2>2, <2>3 DEF ProcessInv, Process, Compiled, Up
  <2>5. QED
    BY <1>3, <1>4, <1>5, <2>4 DEF RegInv
<1>7. CASE \E type \in Context : set_context(type)
  <2>1. process = "built" /\ process' = "built" /\ jobs' = jobs /\ context' \subseteq Context
    BY <1>7 DEF set_context, RegInv, ProcessInv
  <2>2. ProcessInv'
    BY <1>1, <1>2, <2>1
    DEF RegInv, ProcessInv, Process, Compiled, NamesOf, Up
  <2>3. QED
    BY <1>3, <1>4, <1>5, <2>2 DEF RegInv
<1>8. QED
  BY <1>6, <1>7

(* What the owner of the runner does.                                      *)
LEMMA OwnerStep ==
    ASSUME RegInv, run \/ stop \/ wait_jobs_finish \/ TestReturns
    PROVE  RegInv'
<1>1. UNCHANGED <<args, options, errors, named, sent, jobs, context, batch, rows, tasks, running_jobs>>
  BY DEF run, stop, wait_jobs_finish, TestReturns, definitions
<1>2. process \in Up /\ process' \in Up \ {"off", "built"}
      /\ (batch # {} => process' \in {"running", "testing"})
  BY DEF run, stop, wait_jobs_finish, TestReturns, Up, RegInv, ProcessInv
<1>3. ProcessInv'
  BY <1>1, <1>2 DEF RegInv, ProcessInv, Up, Process, Compiled, NamesOf
<1>4. NamesInv' /\ TasksInv'
  BY <1>1, <1>2 DEF RegInv, NamesInv, TasksInv, Compiled, NamesOf
<1>5. DefInv' /\ CountInv'
  BY <1>1, DefinitionsKept DEF RegInv, CountInv, Handles, HasHandle
<1>6. process' = "finished" => Handles' = {}
  <2>1. process' = "finished" => wait_jobs_finish
    BY DEF run, stop, wait_jobs_finish, TestReturns
  <2>2. wait_jobs_finish => Cardinality(Handles) = 0
    BY DEF RegInv, CountInv, wait_jobs_finish
  <2>3. wait_jobs_finish => Handles = {}
    BY <2>2, HandlesFinite, FS_EmptySet
  <2>4. Handles' = Handles
    BY <1>1 DEF Handles, HasHandle
  <2>5. QED
    BY <2>1, <2>3, <2>4
<1>7. QED
  BY <1>3, <1>4, <1>5, <1>6 DEF RegInv, WaitedInv

(* mq_poll hands out messages, or finds none.                              *)
LEMMA ClaimStep == ASSUME RegInv, Poll \/ test_one PROVE RegInv'
<1>1. PICK S, last, uncommitted :
         /\ S \subseteq Ready /\ uncommitted \subseteq S
         /\ rows' = Claimed(S, last) \/ rows' = Deleted(Claimed(S, last), uncommitted)
         /\ batch' \subseteq S
         /\ rows' # Claimed(S, last) => batch' = S \ uncommitted
  <2>1. CASE Poll
    <3>1. PICK S, last, uncommitted :
             /\ S \subseteq Ready /\ uncommitted \subseteq S
             /\ \/ batch' = S \ uncommitted /\ rows' = Deleted(Claimed(S, last), uncommitted)
                \/ batch' = {} /\ rows' = Claimed(S, last)
      BY <2>1 DEF Poll
    <3>2. QED
      BY <3>1
  <2>2. CASE test_one
    <3>1. CASE UNCHANGED <<batch, rows>>
      <4>1. batch = {}
        BY <2>2 DEF test_one, RegInv, ProcessInv
      <4>2. rows = Claimed({}, {})
        BY DEF Claimed, RegInv, NamesInv
      <4>3. QED
        BY <3>1, <4>1, <4>2
    <3>2. CASE ~ UNCHANGED <<batch, rows>>
      <4>1. PICK m \in Ready : \E last \in SUBSET {m} :
               rows' = Claimed({m}, last) /\ batch' \subseteq {m}
        BY <2>2, <3>2 DEF test_one
      <4>2. {m} \subseteq Ready
        OBVIOUS
      <4>3. QED
        BY <4>1, <4>2
    <3>3. QED
      BY <3>1, <3>2
  <2>3. QED
    BY <2>1, <2>2
<1>2. process' \in {"running", "testing", "tested"} /\ process \in {"running", "built"}
      /\ (batch' # {} => process' \in {"running", "testing"})
  BY DEF Poll, test_one, RegInv, ProcessInv
<1>3. UNCHANGED <<args, options, errors, named, sent, jobs, context, tasks, running_jobs>>
      /\ batch' \subseteq Message
  BY <1>1 DEF Poll, test_one, Ready, definitions
<1>4. ProcessInv'
  BY <1>2, <1>3 DEF RegInv, ProcessInv, Up, Process, Compiled, NamesOf
<1>5. ASSUME NEW m \in Message
      PROVE  /\ rows'[m] \in Row \cup {Null}
             /\ rows'[m] = Null <=> rows[m] = Null
             /\ rows[m] # Null => rows'[m].name = rows[m].name /\ rows'[m].by = rows[m].by
             /\ m \in batch' => rows'[m] # Null /\ rows'[m].status \in {"leased", "never"}
             /\ m \in batch' => tasks[m] = Null
             /\ rows'[m] # Null /\ rows'[m].status = "ready" => tasks[m] = Null
  <2> DEFINE row == [rows[m] EXCEPT !.status = IF m \in last THEN "never" ELSE "leased"]
             gone == [row EXCEPT !.status = "gone"]
  <2>1. CASE m \in S
    <3>1. rows[m] # Null /\ rows[m].status = "ready" /\ rows[m] \in Row
      BY <1>1, <2>1 DEF Ready, RegInv, NamesInv
    <3>2. rows'[m] = row \/ (rows'[m] = gone /\ m \notin batch')
      BY <1>1, <2>1 DEF Claimed, Deleted
    <3>3. row \in Row /\ row.name = rows[m].name /\ row.by = rows[m].by
          /\ row.status \in {"leased", "never"}
      BY <3>1 DEF Row, Status
    <3>4. gone \in Row /\ gone.name = rows[m].name /\ gone.by = rows[m].by
          /\ gone.status = "gone"
      BY <3>3 DEF Row, Status
    <3>5. tasks[m] = Null
      BY <3>1 DEF RegInv, TasksInv
    <3>6. QED
      BY <3>1, <3>2, <3>3, <3>4, <3>5
  <2>2. CASE m \notin S
    <3>1. rows'[m] = rows[m]
      BY <1>1, <2>2 DEF Claimed, Deleted
    <3>2. QED
      BY <1>1, <2>2, <3>1 DEF RegInv, NamesInv, TasksInv
  <2>3. QED
    BY <2>1, <2>2
<1>6. rows' = [m \in Message |-> rows'[m]]
  BY <1>1 DEF Claimed, Deleted
<1>7. NamesInv'
  BY <1>3, <1>5, <1>6 DEF RegInv, NamesInv, Compiled
<1>8. TasksInv'
  BY <1>2, <1>3, <1>5 DEF RegInv, TasksInv, NamesOf
<1>9. DefInv' /\ CountInv'
  BY <1>3, DefinitionsKept DEF RegInv, CountInv, Handles, HasHandle
<1>10. WaitedInv'
  BY <1>2 DEF WaitedInv
<1>11. QED
  BY <1>4, <1>7, <1>8, <1>9, <1>10 DEF RegInv

-----------------------------------------------------------------------------
(* The end of a process, of whatever kind.                                 *)
LEMMA ExitStep == ASSUME RegInv, Exit PROVE RegInv'
<1>1. UNCHANGED <<args, options, errors, named, sent, rows>> /\ process' = "off" /\ jobs' = <<>>
      /\ context' = {} /\ batch' = {} /\ tasks' = [m \in Message |-> Null] /\ running_jobs' = 0
  BY DEF Exit, definitions
<1>2. ProcessInv'
  BY <1>1, EmptyList DEF ProcessInv, Process, Up
<1>3. NamesInv' /\ TasksInv'
  BY <1>1 DEF RegInv, NamesInv, TasksInv, Compiled
<1>4. Handles' = {}
  BY <1>1 DEF Handles, HasHandle
<1>5. CountInv' /\ WaitedInv'
  BY <1>1, <1>4, FS_EmptySet DEF CountInv, WaitedInv
<1>6. DefInv'
  BY <1>1, DefinitionsKept DEF RegInv
<1>7. QED
  BY <1>2, <1>3, <1>5, <1>6 DEF RegInv

(* A message is dispatched: to nobody, or to the end of the process.       *)
LEMMA NoTaskStep ==
    ASSUME RegInv, NEW m \in Message, DispatchUnknown(m) \/ DispatchPanics(m)
    PROVE  RegInv'
<1>1. UNCHANGED <<args, options, errors, named, sent, jobs, context, rows, tasks, running_jobs>>
      /\ batch' \subseteq batch /\ process \in {"running", "testing"}
  BY DEF DispatchUnknown, DispatchPanics, definitions, RegInv, ProcessInv
<1>2. process' = process \/ (process' \in {"panicked", "crashed"} /\ batch' = {})
  BY DEF DispatchUnknown, DispatchPanics
<1>4. ProcessInv'
  BY <1>1, <1>2 DEF RegInv, ProcessInv, Up, Process, Compiled, NamesOf
<1>5. NamesInv' /\ TasksInv'
  BY <1>1, <1>2 DEF RegInv, NamesInv, TasksInv, Compiled, NamesOf
<1>6. DefInv' /\ CountInv' /\ WaitedInv'
  BY <1>1, <1>2, DefinitionsKept
  DEF RegInv, CountInv, WaitedInv, Handles, HasHandle
<1>7. QED
  BY <1>4, <1>5, <1>6 DEF RegInv

(* A message is dispatched to the function registered under its name.      *)
LEMMA DispatchJobStep == ASSUME RegInv, NEW m \in Message, DispatchJob(m) PROVE RegInv'
<1> DEFINE job == resolve_job(rows[m].name)
           task == [fn |-> job, at |-> "running"]
<1>1. UNCHANGED <<args, options, errors, named, sent, jobs, context, rows, process>>
      /\ batch' = batch \ {m} /\ tasks' = [tasks EXCEPT ![m] = task]
      /\ running_jobs' = running_jobs + 1 /\ m \in batch /\ job # Null
  BY DEF DispatchJob, definitions
<1>2. job \in Range(jobs) /\ named[job].name = rows[m].name /\ job \in Job
  BY <1>1, Resolved, ListTypes DEF RegInv, ProcessInv
<1>3. process \in {"running", "testing"} /\ IsInjective(NamesOf(jobs))
  BY <1>1 DEF RegInv, ProcessInv, Up
<1>4. task \in Task /\ task # Null
  BY <1>2 DEF Task, TaskState
<1>5. rows[m] # Null /\ rows[m].status \in {"leased", "never"} /\ tasks[m] = Null
  BY <1>1 DEF RegInv, TasksInv
<1>6. tasks' \in [Message -> Task \cup {Null}] /\ tasks'[m] = task
      /\ \A i \in Message : i # m => tasks'[i] = tasks[i]
  BY <1>1, <1>4 DEF RegInv, TasksInv
<1>7. ProcessInv'
  BY <1>1 DEF RegInv, ProcessInv, Compiled, NamesOf
<1>8. NamesInv'
  BY <1>1 DEF RegInv, NamesInv, Compiled
<1>9. TasksInv'
  BY <1>1, <1>2, <1>3, <1>5, <1>6 DEF RegInv, TasksInv, NamesOf
<1>10. Handles' = Handles \cup {m} /\ m \notin Handles
  BY <1>4, <1>5, <1>6 DEF Handles, HasHandle
<1>11. CountInv'
  BY <1>1, <1>10, HandlesFinite, FS_AddElement DEF RegInv, CountInv
<1>12. DefInv' /\ WaitedInv'
  BY <1>1, <1>3, DefinitionsKept DEF RegInv, WaitedInv
<1>13. QED
  BY <1>7, <1>8, <1>9, <1>11, <1>12 DEF RegInv

-----------------------------------------------------------------------------
(* A job may go on after it has completed its message.                     *)
LEMMA CompleteStep == ASSUME RegInv, NEW m \in Message, complete(m) PROVE RegInv'
<1>1. UNCHANGED <<args, options, errors, named, sent, jobs, context, batch, process, running_jobs>>
      /\ tasks[m] # Null /\ tasks[m].at = "running"
      /\ tasks' = [tasks EXCEPT ![m].at = "completed"] /\ rows' = [rows EXCEPT ![m].status = "gone"]
  BY DEF complete, definitions
<1>2. tasks[m] \in Task /\ rows[m] # Null /\ rows[m] \in Row
  BY <1>1 DEF RegInv, TasksInv, NamesInv
<1>3. tasks' \in [Message -> Task \cup {Null}] /\ tasks'[m] \in Task /\ tasks'[m].at = "completed"
      /\ tasks'[m].fn = tasks[m].fn /\ \A i \in Message : i # m => tasks'[i] = tasks[i]
  BY <1>1, <1>2 DEF RegInv, TasksInv, Task, TaskState
<1>4. rows' \in [Message -> Row \cup {Null}] /\ rows'[m] \in Row /\ rows'[m].status = "gone"
      /\ rows'[m].name = rows[m].name /\ rows'[m].by = rows[m].by
      /\ \A i \in Message : i # m => rows'[i] = rows[i]
  BY <1>1, <1>2 DEF RegInv, NamesInv, Row, Status
<1>5. ProcessInv'
  BY <1>1 DEF RegInv, ProcessInv, Compiled, NamesOf
<1>6. NamesInv'
  BY <1>1, <1>2, <1>4 DEF RegInv, NamesInv, Compiled
<1>7. TasksInv'
  BY <1>1, <1>2, <1>3, <1>4 DEF RegInv, TasksInv, NamesOf
<1>8. \A i \in Message : HasHandle(i)' <=> HasHandle(i)
  BY <1>1, <1>2, <1>3 DEF HasHandle
<1>9. Handles' = Handles
  BY <1>8 DEF Handles
<1>10. DefInv' /\ CountInv' /\ WaitedInv'
  BY <1>1, <1>9, DefinitionsKept DEF RegInv, CountInv, WaitedInv
<1>11. QED
  BY <1>5, <1>6, <1>7, <1>10 DEF RegInv

(* A function returns; its error, if any, gets to the handler.             *)
LEMMA TaskStep ==
    ASSUME RegInv, NEW m \in Message, JobEnds(m) \/ error_handler(m)
    PROVE  RegInv'
<1>1. UNCHANGED <<args, options, errors, named, sent, jobs, context, batch, rows, process>>
      /\ tasks[m] # Null
  BY DEF JobEnds, error_handler, definitions
<1>2. tasks[m] \in Task
  BY <1>1 DEF RegInv, TasksInv
<1>3. /\ tasks' \in [Message -> Task \cup {Null}] /\ \A i \in Message : i # m => tasks'[i] = tasks[i]
      /\ tasks'[m] # Null => tasks'[m].fn = tasks[m].fn /\ tasks'[m].at = "failed"
  <2>1. CASE JobEnds(m)
    <3>1. PICK failed \in BOOLEAN :
             tasks' = [tasks EXCEPT ![m] = IF failed THEN [@ EXCEPT !.at = "failed"] ELSE Null]
      BY <2>1 DEF JobEnds
    <3>2. [tasks[m] EXCEPT !.at = "failed"] \in Task
      BY <1>2 DEF Task, TaskState
    <3>3. QED
      BY <1>2, <3>1, <3>2 DEF RegInv, TasksInv, Task
  <2>2. CASE error_handler(m)
    BY <2>2 DEF error_handler, RegInv, TasksInv
  <2>3. QED
    BY <2>1, <2>2
<1>4. ProcessInv'
  BY <1>1 DEF RegInv, ProcessInv, Compiled, NamesOf
<1>5. NamesInv'
  BY <1>1 DEF RegInv, NamesInv, Compiled
<1>6. TasksInv'
  BY <1>1, <1>3 DEF RegInv, TasksInv, NamesOf
<1>7. Handles' = Handles \ {m}
  BY <1>3 DEF Handles, HasHandle
<1>8. CountInv'
  <2>1. CASE JobEnds(m)
    <3>1. m \in Handles /\ running_jobs' = running_jobs - 1
      BY <2>1 DEF JobEnds, Handles, HasHandle
    <3>2. QED
      BY <1>7, <3>1, HandlesFinite, FS_RemoveElement DEF RegInv, CountInv
  <2>2. CASE error_handler(m)
    <3>1. m \notin Handles /\ running_jobs' = running_jobs
      BY <2>2 DEF error_handler, Handles, HasHandle
    <3>2. QED
      BY <1>7, <3>1 DEF RegInv, CountInv
  <2>3. QED
    BY <2>1, <2>2
<1>9. DefInv' /\ WaitedInv'
  BY <1>1, <1>3, <1>7, DefinitionsKept DEF RegInv, WaitedInv
<1>10. QED
  BY <1>4, <1>5, <1>6, <1>8, <1>9 DEF RegInv

(* The store may hand a message out again.                                 *)
LEMMA LeaseStep == ASSUME RegInv, NEW m \in Message, LeaseRunsOut(m) PROVE RegInv'
<1>1. /\ UNCHANGED <<args, options, errors, named, sent, process, jobs, context, batch, tasks, running_jobs>>
      /\ rows[m] # Null /\ m \notin batch /\ tasks[m] = Null
      /\ rows' = [rows EXCEPT ![m].status = "ready"]
  BY DEF LeaseRunsOut, definitions
<1>2. rows[m] \in Row
  BY <1>1 DEF RegInv, NamesInv
<1>3. rows' \in [Message -> Row \cup {Null}] /\ rows'[m] \in Row
      /\ rows'[m].name = rows[m].name /\ rows'[m].by = rows[m].by
      /\ \A i \in Message : i # m => rows'[i] = rows[i]
  BY <1>1, <1>2 DEF RegInv, NamesInv, Row, Status
<1>4. ProcessInv'
  BY <1>1 DEF RegInv, ProcessInv, Compiled, NamesOf
<1>5. NamesInv'
  BY <1>1, <1>2, <1>3 DEF RegInv, NamesInv, Compiled
<1>6. TasksInv'
  BY <1>1, <1>3 DEF RegInv, TasksInv, NamesOf
<1>7. DefInv' /\ CountInv' /\ WaitedInv'
  BY <1>1, DefinitionsKept DEF RegInv, CountInv, WaitedInv, Handles, HasHandle
<1>8. QED
  BY <1>4, <1>5, <1>6, <1>7 DEF RegInv

-----------------------------------------------------------------------------
(* One lemma for each kind of step.                                        *)
LEMMA RegStep == RegInv /\ [Next]_vars => RegInv'
<1> SUFFICES ASSUME RegInv, [Next]_vars PROVE RegInv'
  OBVIOUS
<1>1. CASE DefNext /\ UNCHANGED registry
  BY <1>1, DefinitionsStep
<1>2. CASE \E m \in Message : Insert(m)
  BY <1>2, InsertStep
<1>3. CASE \E m \in Message : Dispatch(m)
  BY <1>3, NoTaskStep, DispatchJobStep DEF Dispatch
<1>4. CASE \E m \in Message : complete(m) \/ JobEnds(m) \/ error_handler(m) \/ LeaseRunsOut(m)
  BY <1>4, CompleteStep, TaskStep, LeaseStep
<1>5. CASE (\E list \in Lists : new(list)) \/ \E type \in Context : set_context(type)
  BY <1>5, StartStep
<1>6. CASE run \/ stop \/ wait_jobs_finish \/ TestReturns
  BY <1>6, OwnerStep
<1>7. CASE Poll \/ test_one
  BY <1>7, ClaimStep
<1>8. CASE Exit
  BY <1>8, ExitStep
<1>9. CASE UNCHANGED vars
  <2>1. UNCHANGED <<args, options, errors, named, sent,
                    process, jobs, context, batch, rows, tasks, running_jobs>>
    BY <1>9 DEF vars
  <2>2. DefInv' /\ ProcessInv'
    BY <2>1, DefinitionsKept DEF RegInv, ProcessInv, Compiled, NamesOf
  <2>3. NamesInv' /\ TasksInv'
    BY <2>1 DEF RegInv, NamesInv, TasksInv, Compiled, NamesOf
  <2>4. CountInv' /\ WaitedInv'
    BY <2>1 DEF RegInv, CountInv, WaitedInv, Handles, HasHandle
  <2>5. QED
    BY <2>2, <2>3, <2>4 DEF RegInv
<1>10. QED
  BY <1>1, <1>2, <1>3, <1>4, <1>5, <1>6, <1>7, <1>8, <1>9 DEF Next

(* The invariant holds.                                                    *)
LEMMA RegistryInv == Spec => []RegInv
BY RegInit, RegStep, PTL DEF Spec

(* The types, and running_jobs is the number of live handles.              *)
THEOREM LibraryTypesCorrect == Spec => []LibraryTypeOK
<1>1. RegInv => LibraryTypeOK
  BY DEF RegInv, DefInv, ProcessInv, NamesInv, TasksInv, CountInv, Handles, LibraryTypeOK
<1>2. QED
  BY RegistryInv, <1>1, PTL

(* A registered function gets the messages it spawned: two registered      *)
(* functions of one name would not have started.                           *)
THEOREM JobsRunAsSpawned == Spec => []RunsTheJobSpawned
<1>1. RegInv => RunsTheJobSpawned
  <2> SUFFICES ASSUME RegInv, NEW m \in Message, tasks[m] # Null
               PROVE  /\ named[tasks[m].fn].name = rows[m].name
                      /\ rows[m].by \in Range(jobs) => tasks[m].fn = rows[m].by
    BY DEF RunsTheJobSpawned
  <2>1. /\ rows[m] # Null /\ tasks[m].fn \in Range(jobs)
        /\ named[tasks[m].fn].name = rows[m].name /\ IsInjective(NamesOf(jobs))
    BY DEF RegInv, TasksInv
  <2>2. ASSUME rows[m].by \in Range(jobs) PROVE tasks[m].fn = rows[m].by
    <3>1. Range(jobs) \subseteq Job
      BY ListTypes DEF RegInv, ProcessInv
    <3>2. rows[m].name = named[rows[m].by].name
      BY <2>1, <2>2, <3>1 DEF RegInv, NamesInv
    <3>3. PICK a, b \in DOMAIN jobs : jobs[a] = tasks[m].fn /\ jobs[b] = rows[m].by
      BY <2>1, <2>2 DEF Range
    <3>4. NamesOf(jobs)[a] = NamesOf(jobs)[b] /\ DOMAIN NamesOf(jobs) = DOMAIN jobs
      BY <2>1, <3>2, <3>3 DEF NamesOf
    <3>5. a = b
      BY <2>1, <3>4 DEF IsInjective
    <3>6. QED
      BY <3>3, <3>5
  <2>3. QED
    BY <2>1, <2>2
<1>2. QED
  BY RegistryInv, <1>1, PTL

(* After stop() and wait_jobs_finish() nothing runs or is to be run.       *)
THEOREM StopThenWait == Spec => []GracefulExit
<1>1. RegInv => GracefulExit
  BY DEF RegInv, ProcessInv, WaitedInv, Handles, GracefulExit
<1>2. QED
  BY RegistryInv, <1>1, PTL

(* A function becomes the named job its attribute declares.                *)
THEOREM AttributesAsDeclared == Spec => AsDeclared
<1>1. RegInv /\ [Next]_vars => [DeclaredStep]_definitions
  <2> SUFFICES ASSUME RegInv, [Next]_vars PROVE DeclaredStep \/ UNCHANGED definitions
    OBVIOUS
  <2>1. CASE DefNext
    BY <2>1, DefStep DEF RegInv
  <2>2. CASE \E m \in Message : Insert(m)
    BY <2>2 DEF Insert, DeclaredStep
  <2>3. CASE \/ \E m \in Message : \/ Dispatch(m) \/ complete(m) \/ JobEnds(m)
                                   \/ error_handler(m) \/ LeaseRunsOut(m)
             \/ \E list \in Lists : new(list)
             \/ \E type \in Context : set_context(type)
    BY <2>3 DEF Dispatch, DispatchUnknown, DispatchPanics, DispatchJob, complete, JobEnds,
                error_handler, LeaseRunsOut, new, set_context
  <2>4. CASE run \/ Poll \/ test_one \/ TestReturns \/ stop \/ wait_jobs_finish \/ Exit
    BY <2>4 DEF run, Poll, test_one, TestReturns, stop, wait_jobs_finish, Exit
  <2>5. CASE UNCHANGED vars
    BY <2>5 DEF vars, definitions
  <2>6. QED
    BY <2>1, <2>2, <2>3, <2>4, <2>5 DEF Next
<1>2. Spec => [][DeclaredStep]_definitions
  BY RegistryInv, <1>1, PTL DEF Spec
<1>3. [][DeclaredStep]_definitions => AsDeclared
  BY PTL DEF DeclaredStep, AsDeclared
<1>4. QED
  BY <1>2, <1>3
=============================================================================
