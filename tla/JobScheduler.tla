---------------------------- MODULE JobScheduler ----------------------------
(***************************************************************************)
(* The scheduling core of the job_scheduler service                        *)
(* (chroma_core/services/job_scheduler/job_scheduler.py, lock_cache.py,    *)
(* command_plan.py, __init__.py and the Job/StatefulObject models).        *)
(*                                                                         *)
(* Actors: RPC callers (set_state, run_jobs, cancel_job), the QueueHandler *)
(* thread (notify), the JobProgress thread (advance, complete_job), one    *)
(* RunJobThread per tasked job, and the supervisor that restarts the       *)
(* process.  Everything except the RunJobThreads runs under                *)
(* JobScheduler._lock; `phase' says how far the holder of that lock has    *)
(* got, and "free" that nobody holds it.                                   *)
(***************************************************************************)
EXTENDS Naturals, Sequences, FiniteSets

CONSTANTS
  Items,          \* the StatefulObjects jobs lock
  States,         \* their states
  NoItem,         \* no stateful object: the job is not a StateChangeJob
  NoState,        \* the notification updates an attribute other than `state'
  JobSpecs,       \* the jobs the planner can create
  StaticDeps,     \* StaticDeps[i][s]: StatefulObject.get_deps(s)
  Dependents,     \* Dependents[i]: StatefulObject.get_dependent_objects()
  Requests,       \* what set_state and run_jobs can be asked for
  PlanFor(_, _, _),  \* PlanFor(request, actual states, expected states)
  HookItem,       \* the ManagedTarget whose MGS may need ApplyConfParams
  HookSpec,       \* the ApplyConfParams job the completion hooks add
  Reports,        \* the notifications agents can cause
  MaxJobs, MaxCommands, MaxNotifications, MaxRestarts

JobId == 1..MaxJobs
CommandId == 1..MaxCommands

VARIABLES
  last_id, spec, state, errored, cancelled, wait_for,  \* Job rows
  last_command, command, command_to_jobs,              \* Command rows
  jobs,                                                \* JobCollection._jobs
  writers, readers,                                    \* LockCache
  thread, cancel_event,                                \* RunJobThread
  progress, fetched,                                   \* JobProgress
  item_state, attr,                                    \* StatefulObject rows
  nqueue, nsent, buffer,                               \* notifications
  phase, holder,                                       \* _lock
  current, resume, ok_jobs, cancel_jobs, again,        \* its holder's locals
  up, restarts                                         \* the process

jobVars == <<last_id, spec, state, errored, cancelled, wait_for>>
cmdVars == <<last_command, command, command_to_jobs>>
lockVars == <<writers, readers>>
runVars == <<thread, cancel_event>>
objVars == <<item_state, attr>>
noteVars == <<nqueue, nsent, buffer>>
ctlVars == <<phase, holder, current, resume, ok_jobs, cancel_jobs, again>>
sysVars == <<up, restarts>>
vars == <<jobVars, cmdVars, jobs, lockVars, runVars, progress, fetched,
          objVars, noteVars, ctlVars, sysVars>>

-----------------------------------------------------------------------------
(* Jobs and their locks *)

(* DependOn: the item, the states that satisfy it, and the state the       *)
(* depender goes to when it can no longer be satisfied.                    *)
Dependency == [on : Items, accept : SUBSET States, prefer : States,
               fix : States]

(* A Job: for a StateChangeJob obj, old and new say which transition; deps *)
(* is get_deps(); reads and writes are the locks create_locks() adds;      *)
(* steps says whether get_steps() is non-empty, and flaky whether          *)
(* get_deps() or get_steps() may raise.                                    *)
JobSpec == [obj : Items \cup {NoItem}, old : States, new : States,
            deps : SUBSET Dependency, reads : SUBSET Items,
            writes : SUBSET Items, steps : BOOLEAN, flaky : BOOLEAN]

(* What one planning call leaves behind: the jobs in creation order, for   *)
(* each the earlier ones depends_on_job_range makes it wait for, and the   *)
(* items whose pending writer is attached to the command instead.          *)
Plan == [specs : Seq(JobSpecs), after : Seq(SUBSET JobId),
         attach : SUBSET Items]

Report == [item : Items, to : States \cup {NoState}, from : SUBSET States]

ASSUME Bounds == /\ MaxJobs \in Nat /\ MaxCommands \in Nat
                 /\ MaxNotifications \in Nat /\ MaxRestarts \in Nat
ASSUME ItemsAssumption == NoItem \notin Items
ASSUME SpecsAssumption == JobSpecs \subseteq JobSpec
ASSUME HookAssumption == HookSpec \in JobSpecs
ASSUME ReportsAssumption == Reports \subseteq Report
ASSUME DepsAssumption ==
  /\ StaticDeps \in [Items -> [States -> SUBSET Dependency]]
  /\ Dependents \in [Items -> SUBSET Items]
ASSUME PlanAssumption ==
  \A r \in Requests, actual, expected \in [Items -> States] :
     LET p == PlanFor(r, actual, expected)
     IN  /\ p \in Plan
         /\ Len(p.after) = Len(p.specs)
         /\ \A x \in DOMAIN p.after : \A y \in p.after[x] : y < x
         /\ \A i \in p.attach : actual[i] # expected[i]

IsStateChange(sp) == sp.obj # NoItem

(* Variant: without the static dependencies of the two states.             *)
ReadsOwnDepsOnly(sp) == sp.reads \cup {d.on : d \in sp.deps}

Reads(sp) ==
  sp.reads \cup {d.on : d \in sp.deps}
           \cup (IF IsStateChange(sp)
                 THEN {d.on : d \in StaticDeps[sp.obj][sp.old]
                                      \cup StaticDeps[sp.obj][sp.new]}
                 ELSE {})

(* Variant: a job writes what it says it writes, locked or not.            *)
WritesDeclared(sp) == sp.writes

Writes(sp) == sp.writes \cup (IF IsStateChange(sp) THEN {sp.obj} ELSE {})

LatestWrite(W) == CHOOSE w \in {0} \cup W : \A x \in W : x <= w

Locked(i) == writers[i] \cup readers[i] # {}

(* CommandPlan.expected_states: the end state of the latest write lock if  *)
(* that lock has one, the actual state otherwise.                          *)
Expected ==
  [i \in Items |->
     LET w == LatestWrite(writers[i])
     IN  IF w # 0 /\ spec[w].obj = i THEN spec[w].new ELSE item_state[i]]

(* Variant: a writer does not wait for the readers before it.              *)
CreateDependenciesOnWrites(sp, ws, rs) ==
  {LatestWrite(ws[i]) : i \in Writes(sp) \cup Reads(sp)} \ {0}

(* Variant: "no prior write lock" is not told apart.                       *)
CreateDependenciesOnNone(sp, ws, rs) ==
  {LatestWrite(ws[i]) : i \in Writes(sp) \cup Reads(sp)}

(* The jobs the new job k waits for: ws and rs are the lock cache as it    *)
(* stands when k is created.                                               *)
CreateDependencies(sp, ws, rs) ==
  ({LatestWrite(ws[i]) : i \in Writes(sp) \cup Reads(sp)}
     \cup UNION {{r \in rs[i] : LatestWrite(ws[i]) <= r} : i \in Writes(sp)})
    \ {0}

Satisfied(d) == item_state[d.on] \in d.accept

(* Job._deps_satisfied *)
DepsSatisfied(sp) ==
  /\ \A d \in sp.deps : Satisfied(d)
  /\ IsStateChange(sp) =>
       /\ item_state[sp.obj] = sp.old
       /\ \A d \in StaticDeps[sp.obj][sp.new] : Satisfied(d)
       /\ \A q \in Dependents[sp.obj] :
            \A d \in StaticDeps[q][item_state[q]] :
               (d.on = sp.obj /\ sp.new \notin d.accept)
                  => item_state[q] = d.fix

(* Variant: read locks are forgotten.                                      *)
RemoveWriteLocks(j) ==
  /\ writers' = [i \in Items |-> writers[i] \ {j}]
  /\ UNCHANGED readers

RemoveLocks(j) ==
  /\ writers' = [i \in Items |-> writers[i] \ {j}]
  /\ readers' = [i \in Items |-> readers[i] \ {j}]

(* state_modified_at := now(): whatever was reported before is stale.  *)
MarkStale(q, touched) ==
  [n \in DOMAIN q |-> IF q[n].item \in touched
                      THEN [q[n] EXCEPT !.stale = TRUE] ELSE q[n]]

-----------------------------------------------------------------------------
(* Planning: _create_locks, _create_dependencies, add_jobs, add_command *)

AddJobs(p, c) ==
  LET new == last_id + 1 .. last_id + Len(p.specs)
      NewSpec == [k \in JobId |-> IF k \in new THEN p.specs[k - last_id]
                                             ELSE spec[k]]
      WritersAt(k) == [i \in Items |-> writers[i] \cup
                         {m \in new : m < k /\ i \in Writes(NewSpec[m])}]
      ReadersAt(k) == [i \in Items |-> readers[i] \cup
                         {m \in new : m < k /\ i \in Reads(NewSpec[m])}]
      attached == {LatestWrite(writers[i]) : i \in p.attach} \ {0}
  IN  /\ last_id + Len(p.specs) <= MaxJobs
      /\ last_id' = last_id + Len(p.specs)
      /\ spec' = NewSpec
      /\ state' = [k \in JobId |-> IF k \in new THEN "pending" ELSE state[k]]
      /\ wait_for' =
           [k \in JobId |->
              IF k \in new
              THEN CreateDependencies(NewSpec[k], WritersAt(k), ReadersAt(k))
                     \cup {last_id + x : x \in p.after[k - last_id]}
              ELSE wait_for[k]]
      /\ writers' = WritersAt(last_id + Len(p.specs) + 1)
      /\ readers' = ReadersAt(last_id + Len(p.specs) + 1)
      /\ jobs' = jobs \cup new \cup attached
      /\ command_to_jobs' = [command_to_jobs EXCEPT ![c] =
                               @ \cup new \cup attached]
      /\ UNCHANGED <<errored, cancelled>>

NewCommand(c) == /\ last_command < MaxCommands
                 /\ c = last_command + 1
                 /\ last_command' = c

(* Variant: only if all of them are.                                       *)
AllOf(js, flag) == \A k \in js : flag[k]

(* `True in [j.errored for j in jobs]'                                     *)
AnyOf(js, flag) == \E k \in js : flag[k]

(* JobCollection.update_commands, with the jobs as the step leaves them.   *)
UpdateCommands(j) ==
  command' = [c \in CommandId |->
    LET js == command_to_jobs'[c]
    IN  IF j \in js /\ \A k \in js : state'[k] = "complete"
        THEN [complete  |-> TRUE,
              errored   |-> AnyOf(js, errored'),
              cancelled |-> AnyOf(js, cancelled')]
        ELSE command[c]]

AdvanceMsg == [op |-> "advance", job |-> 0, errored |-> FALSE]
CompleteMsg(j, e) == [op |-> "complete_job", job |-> j, errored |-> e]

(* set_state and run_jobs.  A plan with no job at all raises (see the      *)
(* README) and leaves nothing behind.                                      *)
SubmitCommand(r) ==
  LET p == PlanFor(r, item_state, Expected)
  IN  /\ up /\ phase = "free"
      /\ p.specs # <<>> \/ p.attach # {}
      /\ \E c \in CommandId : NewCommand(c) /\ AddJobs(p, c)
      /\ progress' = Append(progress, AdvanceMsg)
      /\ UNCHANGED <<command, runVars, fetched, objVars, noteVars, ctlVars,
                     sysVars>>

(* Variant: the advance is forgotten.                                      *)
NoAdvance(j) == UNCHANGED <<progress, cancel_event>>

(* Tell the job's thread to stop; without one, that its waiters may run.   *)
StopOrAdvance(j) ==
  IF state[j] = "tasked" /\ thread[j] # "none"
  THEN cancel_event' = cancel_event \cup {j} /\ UNCHANGED progress
  ELSE progress' = Append(progress, AdvanceMsg) /\ UNCHANGED cancel_event

CancelJob(j) ==
  /\ up /\ phase = "free"
  /\ state[j] \in {"pending", "tasked"}
  /\ state' = [state EXCEPT ![j] = "complete"]
  /\ cancelled' = [cancelled EXCEPT ![j] = TRUE]
  /\ UNCHANGED <<last_id, spec, errored, wait_for, last_command,
                 command_to_jobs, jobs, thread, fetched, objVars, noteVars,
                 ctlVars, sysVars>>
  /\ UpdateCommands(j)
  /\ RemoveLocks(j)
  /\ StopOrAdvance(j)

-----------------------------------------------------------------------------
(* RunJobThread: its outcome once the steps are done, failed or abandoned *)

ThreadStep(j, from, to) ==
  /\ up /\ thread[j] = from
  /\ thread' = [thread EXCEPT ![j] = to]
  /\ UNCHANGED <<jobVars, cmdVars, jobs, lockVars, cancel_event, fetched,
                 objVars, noteVars, ctlVars, sysVars>>

(* The last look at the cancel event; complete_job is called afterwards.   *)
ThreadFinishes(j) == /\ ThreadStep(j, "running", "finished")
                     /\ j \notin cancel_event
                     /\ UNCHANGED progress

ThreadReports(j) == /\ ThreadStep(j, "finished", "ended")
                    /\ progress' = Append(progress, CompleteMsg(j, FALSE))

ThreadFails(j) == /\ ThreadStep(j, "running", "ended")
                  /\ progress' = Append(progress, CompleteMsg(j, TRUE))

ThreadCancelled(j) == /\ ThreadStep(j, "running", "ended")
                      /\ j \in cancel_event
                      /\ UNCHANGED progress

-----------------------------------------------------------------------------
(* The JobProgress thread *)

NextMsg(op) == up /\ progress # <<>> /\ Head(progress).op = op

Advance == /\ NextMsg("advance") /\ phase = "free"
           /\ progress' = Tail(progress)
           /\ phase' = "run_next" /\ holder' = "progress"
           /\ UNCHANGED <<jobVars, cmdVars, jobs, lockVars, runVars, fetched,
                          objVars, noteVars, current, resume, ok_jobs,
                          cancel_jobs, again, sysVars>>

(* complete_job looks its job up before it takes the lock.  When the       *)
(* collection no longer holds the job the KeyError reaches                 *)
(* ServiceThread.run, which exits the process.                             *)
FetchJob ==
  /\ NextMsg("complete_job") /\ ~fetched /\ holder # "progress"
  /\ IF Head(progress).job \in jobs
     THEN fetched' = TRUE /\ UNCHANGED up
     ELSE up' = FALSE /\ UNCHANGED fetched
  /\ UNCHANGED <<jobVars, cmdVars, jobs, lockVars, runVars, progress,
                 objVars, noteVars, ctlVars, restarts>>

(* Variant: locked items are not freshened.                                *)
NothingFreshened(j) == {}

(* What complete_job marks as modified: everything j holds a write lock on *)
Freshened(j) == {i \in Items : j \in writers[i]}

(* on_success and the freshening of what the job holds a write lock on.    *)
OnSuccess(j, failed) ==
  LET sets == ~failed /\ IsStateChange(spec[j])
  IN  /\ item_state' = IF sets
                       THEN [item_state EXCEPT ![spec[j].obj] = spec[j].new]
                       ELSE item_state
      /\ nqueue' = MarkStale(nqueue,
                     Freshened(j) \cup IF sets THEN {spec[j].obj} ELSE {})
      /\ UNCHANGED <<attr, nsent, buffer>>

(* JobScheduler._complete_job up to the completion hooks.                  *)
FinishJob(j, failed, cancel, next) ==
  /\ state' = [state EXCEPT ![j] = "complete"]
  /\ errored' = [errored EXCEPT ![j] = failed]
  /\ cancelled' = [cancelled EXCEPT ![j] = cancel]
  /\ RemoveLocks(j)
  /\ phase' = "hooks" /\ current' = j /\ resume' = next
  /\ UNCHANGED <<last_id, spec, wait_for>>

(* Variant: a job cancelled in the meantime is completed once more.        *)
AlwaysTasked(j) == TRUE

StillTasked(j) == state[j] = "tasked"

CompleteJob ==
  LET j == Head(progress).job
  IN  /\ up /\ phase = "free" /\ fetched
      /\ progress' = Tail(progress) /\ fetched' = FALSE
      /\ \E failed \in BOOLEAN :
           /\ Head(progress).errored => failed
           /\ failed => Head(progress).errored \/ spec[j].flaky
           /\ OnSuccess(j, failed)
           /\ IF StillTasked(j)
              THEN /\ FinishJob(j, failed, FALSE, "drain")
                   /\ holder' = "progress"
              ELSE UNCHANGED <<jobVars, lockVars, phase, holder, current,
                               resume>>
      /\ UNCHANGED <<cmdVars, jobs, runVars, ok_jobs, cancel_jobs, again,
                     sysVars>>

-----------------------------------------------------------------------------
(* Completion hooks *)

RunningOrFailed(c) ==
  \E k \in JobId : /\ k <= last_id /\ spec[k] = HookSpec
                   /\ state[k] # "complete" \/ k \in command_to_jobs[c]

HookPlan == [specs |-> <<HookSpec>>, after |-> <<{}>>, attach |-> {}]

(* ApplyConfParams is added to c: a new command, or one j belongs to.      *)
RunHook(i, c) == /\ i = HookItem
                 /\ ~RunningOrFailed(c)
                 /\ \A d \in HookSpec.deps : Satisfied(d)
                 /\ AddJobs(HookPlan, c)

NoHook == UNCHANGED <<jobVars, lockVars, jobs, last_command, command_to_jobs>>

HookInNewCommand(i) == \E c \in CommandId : NewCommand(c) /\ RunHook(i, c)

OpenCommands(j) == {c \in CommandId : /\ j \in command_to_jobs[c]
                                      /\ ~command[c].complete}

CompletionHooks ==
  /\ up /\ phase = "hooks"
  /\ \/ NoHook
     \/ \E i \in Writes(spec[current]) :
          IF OpenCommands(current) # {}
          THEN \E c \in OpenCommands(current) :
                  RunHook(i, c) /\ UNCHANGED last_command
          ELSE HookInNewCommand(i)
  /\ UpdateCommands(current)
  /\ phase' = resume
  /\ current' = 0
  /\ UNCHANGED <<runVars, progress, fetched, objVars, noteVars, holder,
                 resume, ok_jobs, cancel_jobs, again, sysVars>>

-----------------------------------------------------------------------------
(* Notifications *)

Allowed(n) == n.from = {} \/ item_state[n.item] \in n.from

(* What job_scheduler_notify.notify puts on the queue; seq is its time and *)
(* holders the jobs that hold a write lock on the item at that time.       *)
AgentReport(r) ==
  /\ nsent < MaxNotifications
  /\ Allowed(r)
  /\ nsent' = nsent + 1
  /\ nqueue' = Append(nqueue, [item |-> r.item, to |-> r.to, from |-> r.from,
                               seq |-> nsent + 1, stale |-> FALSE,
                               holders |-> writers[r.item]])
  /\ UNCHANGED <<jobVars, cmdVars, jobs, lockVars, runVars, progress, fetched,
                 objVars, buffer, ctlVars, sysVars>>

(* JobScheduler._notify from the point where the update is let through.    *)
Apply(n) ==
  /\ item_state' = IF n.to # NoState
                   THEN [item_state EXCEPT ![n.item] = n.to] ELSE item_state
  /\ attr' = IF n.to = NoState
             THEN [attr EXCEPT ![n.item] = n.seq] ELSE attr
  /\ NoHook \/ HookInNewCommand(n.item)

Notify ==
  LET n == Head(nqueue)
      dropped == \/ ~Allowed(n)
                 \/ n.to # NoState /\ (n.stale \/ Locked(n.item))
  IN  /\ up /\ phase = "free" /\ nqueue # <<>>
      /\ \/ /\ dropped
            /\ nqueue' = Tail(nqueue)
            /\ NoHook /\ UNCHANGED <<objVars, buffer>>
         \/ /\ ~dropped /\ Locked(n.item)
            /\ nqueue' = Tail(nqueue)
            /\ buffer' = [buffer EXCEPT ![n.item] = Append(@, n)]
            /\ NoHook /\ UNCHANGED objVars
         \/ /\ ~dropped /\ ~Locked(n.item)
            /\ nqueue' = MarkStale(Tail(nqueue),
                                   IF n.to \in {NoState, item_state[n.item]}
                                   THEN {} ELSE {n.item})
            /\ Apply(n) /\ UNCHANGED buffer
      /\ phase' = "run_next" /\ holder' = "notify"
      /\ UNCHANGED <<command, runVars, progress, fetched, nsent, current,
                     resume, ok_jobs, cancel_jobs, again, sysVars>>

(* Of the notifications for the same attribute only the latest survives.   *)
DrainLatest(q) == q[Len(q)]

(* _drain_notification_buffer replays one unlocked item.                   *)
DrainItem(i) ==
  LET n == DrainLatest(buffer[i])
  IN  /\ up /\ phase = "drain"
      /\ buffer[i] # <<>> /\ ~Locked(i)
      /\ buffer' = [buffer EXCEPT ![i] = <<>>]
      /\ IF Allowed(n) THEN Apply(n) ELSE NoHook /\ UNCHANGED objVars
      /\ UNCHANGED <<command, runVars, progress, fetched, nqueue, nsent,
                     ctlVars, sysVars>>

(* Variant: the buffer is left for later.                                  *)
NotDrained == TRUE

Drained == \A i \in Items : buffer[i] = <<>> \/ Locked(i)

DrainDone ==
  /\ up /\ phase = "drain"
  /\ Drained
  /\ phase' = "run_next"
  /\ UNCHANGED <<jobVars, cmdVars, jobs, lockVars, runVars, progress, fetched,
                 objVars, noteVars, holder, current, resume, ok_jobs,
                 cancel_jobs, again, sysVars>>

-----------------------------------------------------------------------------
(* _run_next *)

GoTo(p) == /\ phase' = p
           /\ holder' = IF p = "free" THEN "none" ELSE holder

InState(s) == {j \in jobs : state[j] = s}

Ready == {j \in InState("pending") : wait_for[j] \subseteq InState("complete")}

(* ready_jobs and _check_jobs.  A job whose checks raise is cancelled too. *)
CheckJobs ==
  /\ up /\ phase = "run_next"
  /\ IF InState("pending") \cup InState("tasked") = {}
     THEN /\ jobs' = {}
          /\ GoTo("free")
          /\ UNCHANGED <<ok_jobs, cancel_jobs, again>>
     ELSE \E bad \in SUBSET Ready :
          /\ \A j \in Ready : ~DepsSatisfied(spec[j]) => j \in bad
          /\ \A j \in bad : DepsSatisfied(spec[j]) => spec[j].flaky
          /\ cancel_jobs' = bad
          /\ ok_jobs' = Ready \ bad
          /\ again' = (bad # {})
          /\ GoTo("cancelling")
          /\ UNCHANGED jobs
  /\ UNCHANGED <<jobVars, cmdVars, lockVars, runVars, progress, fetched,
                 objVars, noteVars, current, resume, sysVars>>

CancelFailed(j) ==
  /\ up /\ phase = "cancelling"
  /\ j \in cancel_jobs
  /\ cancel_jobs' = cancel_jobs \ {j}
  /\ FinishJob(j, FALSE, TRUE, "cancelling")
  /\ UNCHANGED <<cmdVars, jobs, runVars, progress, fetched, objVars, noteVars,
                 holder, ok_jobs, again, sysVars>>

(* Variant: no second pass after cancellations.                            *)
AfterSpawningFree == "free"

AfterSpawning == IF again THEN "run_next" ELSE "free"

(* update_many(ok_jobs, "tasked") *)
TaskJobs ==
  /\ up /\ phase = "cancelling"
  /\ cancel_jobs = {}
  /\ state' = [j \in JobId |-> IF j \in ok_jobs THEN "tasked" ELSE state[j]]
  /\ GoTo(IF ok_jobs = {} THEN AfterSpawning ELSE "spawning")
  /\ UNCHANGED <<last_id, spec, errored, cancelled, wait_for, cmdVars, jobs,
                 lockVars, runVars, progress, fetched, objVars, noteVars,
                 current, resume, ok_jobs, cancel_jobs, again, sysVars>>

SpawnJob(j) ==
  /\ up /\ phase = "spawning"
  /\ j \in ok_jobs
  /\ IF spec[j].steps
     THEN /\ thread' = [thread EXCEPT ![j] = "running"]
          /\ UNCHANGED progress
     ELSE /\ progress' = Append(progress, CompleteMsg(j, FALSE))
          /\ UNCHANGED thread
  /\ ok_jobs' = ok_jobs \ {j}
  /\ GoTo(IF ok_jobs = {j} THEN AfterSpawning ELSE "spawning")
  /\ UNCHANGED <<jobVars, cmdVars, jobs, lockVars, cancel_event, fetched,
                 objVars, noteVars, current, resume, cancel_jobs, again,
                 sysVars>>

-----------------------------------------------------------------------------
(* The process dies and Service.run starts again.  complete_job runs its   *)
(* hooks inside its transaction, so a crash there is a crash before it.    *)
Restart ==
  /\ up => restarts < MaxRestarts
  /\ phase = "hooks" => resume = "cancelling"
  /\ restarts' = IF up THEN restarts + 1 ELSE restarts
  /\ up' = TRUE
  /\ command' = [c \in CommandId |->
                   IF c <= last_command /\ ~command[c].complete
                   THEN [complete |-> TRUE, errored |-> TRUE,
                         cancelled |-> TRUE]
                   ELSE command[c]]
  /\ state' = [j \in JobId |-> IF j <= last_id THEN "complete" ELSE state[j]]
  /\ cancelled' = [j \in JobId |-> IF state[j] \in {"pending", "tasked"}
                                   THEN TRUE ELSE cancelled[j]]
  /\ jobs' = {}
  /\ writers' = [i \in Items |-> {}] /\ readers' = [i \in Items |-> {}]
  /\ thread' = [j \in JobId |-> IF thread[j] = "none" THEN "none" ELSE "ended"]
  /\ cancel_event' = {}
  /\ progress' = <<>> /\ fetched' = FALSE
  /\ nqueue' = <<>> /\ buffer' = [i \in Items |-> <<>>]
  /\ phase' = "free" /\ holder' = "none" /\ current' = 0 /\ resume' = "drain"
  /\ ok_jobs' = {} /\ cancel_jobs' = {} /\ again' = FALSE
  /\ UNCHANGED <<last_id, spec, errored, wait_for, last_command,
                 command_to_jobs, objVars, nsent>>

-----------------------------------------------------------------------------
NoCommand == [complete |-> FALSE, errored |-> FALSE, cancelled |-> FALSE]

(* Every object is in a state whose static dependencies hold.              *)
Consistent(st) == \A i \in Items : \A d \in StaticDeps[i][st[i]] :
                     st[d.on] \in d.accept

Init ==
  /\ last_id = 0
  /\ spec = [j \in JobId |-> HookSpec]
  /\ state = [j \in JobId |-> "none"]
  /\ errored = [j \in JobId |-> FALSE] /\ cancelled = [j \in JobId |-> FALSE]
  /\ wait_for = [j \in JobId |-> {}]
  /\ last_command = 0 /\ command = [c \in CommandId |-> NoCommand]
  /\ command_to_jobs = [c \in CommandId |-> {}]
  /\ jobs = {}
  /\ writers = [i \in Items |-> {}] /\ readers = [i \in Items |-> {}]
  /\ thread = [j \in JobId |-> "none"] /\ cancel_event = {}
  /\ progress = <<>> /\ fetched = FALSE
  /\ item_state \in {st \in [Items -> States] : Consistent(st)}
  /\ attr = [i \in Items |-> 0]
  /\ nqueue = <<>> /\ nsent = 0 /\ buffer = [i \in Items |-> <<>>]
  /\ phase = "free" /\ holder = "none" /\ current = 0 /\ resume = "drain"
  /\ ok_jobs = {} /\ cancel_jobs = {} /\ again = FALSE
  /\ up = TRUE /\ restarts = 0

ThreadAction(j) == \/ ThreadFinishes(j) \/ ThreadReports(j)
                   \/ ThreadFails(j) \/ ThreadCancelled(j)

ProgressAction == Advance \/ FetchJob \/ CompleteJob

(* The holder of _lock carries on.                                         *)
LockHolder == \/ CompletionHooks
              \/ \E i \in Items : DrainItem(i)
              \/ DrainDone \/ CheckJobs \/ TaskJobs
              \/ \E j \in JobId : CancelFailed(j) \/ SpawnJob(j)

Next == \/ \E r \in Requests : SubmitCommand(r)
        \/ \E r \in Reports : AgentReport(r)
        \/ \E j \in JobId : CancelJob(j) \/ ThreadAction(j)
        \/ ProgressAction \/ LockHolder \/ Notify \/ Restart

Spec == Init /\ [][Next]_vars

(* Threads that hold the lock release it, the JobProgress and QueueHandler *)
(* loops keep serving, steps end, and the supervisor restarts a process    *)
(* that exited.                                                            *)
Fairness == /\ WF_vars(LockHolder)
            /\ WF_vars(ProgressAction)
            /\ WF_vars(Notify)
            /\ WF_vars(~up /\ Restart)
            /\ \A j \in JobId : WF_vars(ThreadAction(j))

FairSpec == Spec /\ Fairness

-----------------------------------------------------------------------------
(* Properties *)

Message == {AdvanceMsg} \cup [op : {"complete_job"}, job : JobId,
                              errored : BOOLEAN]

Notification == [item : Items, to : States \cup {NoState},
                 from : SUBSET States, seq : 1..MaxNotifications,
                 stale : BOOLEAN, holders : SUBSET JobId]

(* Every variable has the type the code gives it.                          *)
TypeOK ==
  /\ last_id \in 0..MaxJobs
  /\ spec \in [JobId -> JobSpecs]
  /\ state \in [JobId -> {"none", "pending", "tasked", "complete"}]
  /\ errored \in [JobId -> BOOLEAN] /\ cancelled \in [JobId -> BOOLEAN]
  /\ wait_for \in [JobId -> SUBSET JobId]
  /\ last_command \in 0..MaxCommands
  /\ command \in [CommandId -> [complete : BOOLEAN, errored : BOOLEAN,
                                cancelled : BOOLEAN]]
  /\ command_to_jobs \in [CommandId -> SUBSET JobId]
  /\ jobs \subseteq JobId
  /\ writers \in [Items -> SUBSET JobId] /\ readers \in [Items -> SUBSET JobId]
  /\ thread \in [JobId -> {"none", "running", "finished", "ended"}]
  /\ cancel_event \subseteq JobId
  /\ progress \in Seq(Message) /\ fetched \in BOOLEAN
  /\ item_state \in [Items -> States] /\ attr \in [Items -> 0..MaxNotifications]
  /\ nqueue \in Seq(Notification) /\ nsent \in 0..MaxNotifications
  /\ buffer \in [Items -> Seq(Notification)]
  /\ phase \in {"free", "hooks", "drain", "run_next", "cancelling", "spawning"}
  /\ holder \in {"none", "progress", "notify"}
  /\ current \in 0..MaxJobs /\ resume \in {"drain", "cancelling"}
  /\ ok_jobs \subseteq JobId /\ cancel_jobs \subseteq JobId
  /\ again \in BOOLEAN /\ up \in BOOLEAN /\ restarts \in 0..MaxRestarts

Incomplete(j) == state[j] \in {"pending", "tasked"}

(* A job whose steps may be touching the system: it is tasked, or its      *)
(* thread is still going although the job was cancelled.                   *)
Active(j) == state[j] = "tasked" \/ thread[j] \in {"running", "finished"}

Conflict(i, a, b) == \/ i \in Writes(a) /\ i \in Writes(b) \cup Reads(b)
                     \/ i \in Reads(a) /\ i \in Writes(b)

(* The lock cache holds exactly the locks of the incomplete jobs: no       *)
(* completion, cancellation or restart leaks a lock or drops one early     *)
(* (LockCache.add and remove_job against every place a Job changes state). *)
LocksMatchJobs ==
  \A i \in Items :
    /\ writers[i] = {j \in JobId : Incomplete(j) /\ i \in Writes(spec[j])}
    /\ readers[i] = {j \in JobId : Incomplete(j) /\ i \in Reads(spec[j])}

(* Two jobs whose locks conflict are active together only if a job between *)
(* them was cancelled: the earlier one itself (its thread lives on), or a  *)
(* writer of the contested item that the later one was queued behind.      *)
(* This is what _create_dependencies may trust, no more.                   *)
ConflictOnlyAfterCancel ==
  \A j, k \in JobId : \A i \in Items :
    (j < k /\ Active(j) /\ Active(k) /\ Conflict(i, spec[j], spec[k]))
      => \E m \in j..(k-1) : cancelled[m] /\ (m = j \/ i \in Writes(spec[m]))

(* Why that is so.  A job waits for every earlier incomplete job it        *)
(* conflicts with, directly or through a later writer of the item it waits *)
(* for; and once it is past its wait, an earlier job it conflicts with can *)
(* only be incomplete because a writer between the two was cancelled, or   *)
(* because the job itself was cancelled without ever starting.             *)
WaitsForConflicts ==
  \A j, k \in JobId : \A i \in Items :
    j < k /\ Incomplete(j) /\ state[k] # "none" /\ Conflict(i, spec[j], spec[k])
      => \/ j \in wait_for[k]
         \/ \E w \in wait_for[k] : j < w /\ i \in Writes(spec[w])

OvertakesAfterCancel ==
  \A j, k \in JobId : \A i \in Items :
    (/\ j < k /\ Incomplete(j) /\ state[k] \in {"tasked", "complete"}
     /\ Conflict(i, spec[j], spec[k]))
      => \/ cancelled[k] /\ thread[k] = "none"
         \/ \E m \in JobId : j < m /\ m < k /\ cancelled[m]
                              /\ i \in Writes(spec[m])

(* Between the checks and the tasking of a pass of _run_next.              *)
Checked == phase = "cancelling" \/ (phase = "hooks" /\ resume = "cancelling")

(* Job rows and threads agree.                                             *)
RowsAgree ==
  /\ \A j \in JobId : state[j] = "none" <=> j > last_id
  /\ \A j \in JobId : state[j] # "complete" => ~cancelled[j]
  /\ \A j \in JobId : state[j] \in {"none", "pending"} => thread[j] = "none"
  /\ \A j \in JobId : thread[j] \in {"running", "finished"}
                         => state[j] = "tasked" \/ cancelled[j]
  /\ \A k \in JobId : \A m \in wait_for[k] : m < k

(* The lists of the running pass of _run_next hold the jobs they should.   *)
PassAgrees ==
  /\ Checked => /\ ok_jobs \cap cancel_jobs = {}
                /\ \A j \in ok_jobs \cup cancel_jobs : state[j] = "pending"
                /\ \A j \in ok_jobs : \A m \in wait_for[j] :
                     state[m] = "complete"
  /\ phase = "spawning" => \A j \in ok_jobs : /\ state[j] = "tasked"
                                              /\ thread[j] = "none"

(* JobProgress hears of the end of jobs that were started and have ended.  *)
EndReported(msg) ==
  msg.op = "complete_job" => /\ thread[msg.job] \in {"none", "ended"}
                             /\ state[msg.job] \in {"tasked", "complete"}
                             /\ phase = "spawning" => msg.job \notin ok_jobs

MessagesAgree ==
  /\ \A n \in DOMAIN progress : EndReported(progress[n])
  /\ fetched => progress # <<>> /\ Head(progress).op = "complete_job"

(* The invariant that carries all of this through every step.              *)
SchedulingInv == /\ RowsAgree /\ PassAgrees /\ MessagesAgree
                 /\ WaitsForConflicts /\ OvertakesAfterCancel

(* While a job runs, what _check_jobs verified stays true (own state,      *)
(* get_deps, static dependencies of the new state), unless a cancelled job *)
(* held a write lock on one of those items: notifications and other jobs   *)
(* cannot pull them away.                                                  *)
DepsHoldWhileTasked ==
  \A j \in JobId :
    LET sp == spec[j]
    IN  /\ state[j] = "tasked"
        /\ ~\E m \in JobId : /\ cancelled[m]
                             /\ Writes(spec[m]) \cap (Writes(sp) \cup Reads(sp)) # {}
        => /\ \A d \in sp.deps : Satisfied(d)
           /\ IsStateChange(sp) =>
                /\ item_state[sp.obj] = sp.old
                /\ \A d \in StaticDeps[sp.obj][sp.new] : Satisfied(d)

(* A complete command has only complete jobs and says truthfully whether   *)
(* one was cancelled or failed (after a restart it may claim a failure);   *)
(* and between two lock holders no command is left open with nothing to    *)
(* wait for (update_commands, completion hooks, cancel_job, Service.run).  *)
CommandOutcome ==
  \A c \in 1..last_command :
    LET js == command_to_jobs[c]
        cmd == command[c]
        done == \A k \in js : state[k] = "complete"
    IN  /\ js # {}
        /\ cmd.complete => /\ done
                           /\ cmd.cancelled <=> \E k \in js : cancelled[k]
                           /\ (\E k \in js : errored[k]) => cmd.errored
                           /\ cmd.errored => \/ \E k \in js : errored[k]
                                             \/ cmd.cancelled
        /\ up /\ phase = "free" /\ done => cmd.complete

(* Whenever the lock is free, a job that could run has somebody to start   *)
(* it: a queued JobProgress message, unless a running job was cancelled    *)
(* (cancel_job then queues nothing).                                       *)
ReadyJobHasWakeup ==
  up /\ phase = "free" /\ Ready # {}
    => progress # <<>> \/ \E j \in JobId : cancelled[j] /\ thread[j] # "none"

(* A buffered notification waits for a lock, never for nothing, unless the *)
(* item's lock was given up by a cancellation, which drains nothing.       *)
BufferedWhileLocked ==
  up /\ phase = "free"
    => \A i \in Items :
         buffer[i] # <<>>
           => Locked(i) \/ \E j \in JobId :
                             cancelled[j] /\ i \in Writes(spec[j]) \cup Reads(spec[j])

(* Attributes reported by an agent never go back to an older report,       *)
(* whether applied at once or kept in the buffer behind a lock             *)
(* (drain_notifications_for_key), unless that lock was given up by a       *)
(* cancellation, which drains nothing.                                     *)
ReportsInOrder ==
  [][\A i \in Items :
       attr'[i] < attr[i]
         => \E j \in JobId : /\ cancelled[j]
                             /\ i \in Writes(spec[j]) \cup Reads(spec[j])]_vars

(* A reported state is applied only if nobody intentionally changed the    *)
(* object since the report: every job that was writing it when the report  *)
(* was made has been cancelled (state_modified_at, Locked).                *)
StaleReportNeverApplied ==
  [][nqueue # <<>> /\ phase = "free" /\ phase' = "run_next"
       /\ item_state' # item_state
     => \A h \in Head(nqueue).holders : cancelled[h]]_vars

(* The outcome of a job and of a command is final: a late completion, a    *)
(* second cancel or a restart never rewrites it.                           *)
OutcomeIsFinal ==
  [][/\ \A j \in JobId : state[j] = "complete" =>
          /\ state'[j] = "complete"
          /\ errored'[j] = errored[j] /\ cancelled'[j] = cancelled[j]
     /\ \A c \in CommandId : command[c].complete => command'[c] = command[c]]_vars

(* "jobs may only modify objects that they have taken out a writelock on"  *)
(* (complete_job): the one exception is a job that was cancelled after its *)
(* thread had finished, whose on_success still runs.                       *)
ModifiedUnderLock ==
  [][up /\ fetched /\ ~fetched' =>
       \A i \in Items : item_state'[i] # item_state[i]
         => Head(progress).job \in writers[i] \/ cancelled[Head(progress).job]]_vars

(* Every command completes, if no running job is cancelled.                *)
EveryCommandCompletes ==
  [](cancel_event = {}) =>
     \A c \in CommandId : last_command >= c ~> command[c].complete

-----------------------------------------------------------------------------
(* What comments and tests say, and the code does not keep (see README)    *)

(* command_plan.py: "Depend on the most recent pending write to this       *)
(* stateful object, trust that it will have depended on any before that":  *)
(* tasked jobs never conflict.                                             *)
TaskedExclusive ==
  \A j, k \in JobId : \A i \in Items :
    j < k /\ state[j] = "tasked" /\ state[k] = "tasked"
      => ~Conflict(i, spec[j], spec[k])

(* cancel_job: "So that anything waiting on this job can be cancelled too":*)
(* what waits for a cancelled job does not stay pending.                   *)
CancelReachesWaiters ==
  \A j, k \in JobId :
    (cancelled[j] /\ j \in wait_for[k] /\ state[k] = "pending")
      ~> state[k] # "pending"
=============================================================================
