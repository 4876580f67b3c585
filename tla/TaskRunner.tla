----------------------------- MODULE TaskRunner -----------------------------
(***************************************************************************)
(* iml-task-runner, which hands the fids queued for a task to the clients  *)
(* that mount its filesystem, and iml-mailbox and the API, which queue     *)
(* them.  All state they share is in Postgres.                             *)
(*                                                                         *)
(* The fids of a task are interchangeable, so a queue is the number of its *)
(* rows that are neither deleted nor locked by a transaction.  One         *)
(* filesystem is modelled; a worker is a client of it, on a host of its    *)
(* own.                                                                    *)
(***************************************************************************)
EXTENDS Naturals, FiniteSets, FiniteSetsExt

CONSTANTS
  Tasks,             \* the tasks
  SingleRunner,      \* those with single_runner set
  ApiTasks,          \* those whose fids come from the API, not the mailbox
  Steps,             \* task -> the number of its actions
  Workers,           \* the clients
  NoHost,            \* running_on_id is Null
  POOL_LIMIT,        \* workers at a time, and database connections
  FID_LIMIT,         \* fids per transaction
  ROUNDS,            \* transactions per task and spawn
  MaxBatches,        \* bound: batches of fids queued
  BatchSizes,        \* bound: fids in a batch
  MaxRunnerFaults    \* bound: failures of any kind

ASSUME RunnerAssumption ==
  /\ SingleRunner \cup ApiTasks \subseteq Tasks /\ NoHost \notin Workers
  /\ IsFiniteSet(Tasks) /\ IsFiniteSet(Workers)
  /\ {POOL_LIMIT, FID_LIMIT, ROUNDS} \subseteq Nat \ {0}
  /\ Steps \in [Tasks -> Nat] /\ MaxBatches \in Nat /\ MaxRunnerFaults \in Nat

VARIABLES
  \* the database
  queue,       \* task -> rows of chroma_core_fidtaskqueue free to take
  total, completed,   \* task -> fids_total, fids_completed
  runningOn,   \* task -> running_on_id
  mounted,     \* the clients in state mounted
  \* the producers
  batches,     \* batches queued so far
  adding,      \* batches whose fids are not yet in fids_total
  \* the task runner
  ids,         \* the active clients the main loop has read, as a set of at most one set
  active,      \* active_clients
  work,        \* worker -> "off", "spawned" or "running"
  job,         \* <<worker, task>> -> its round of send_work
  \* history
  astray,      \* task -> fids the counters do not account for
  runnerFaults

storeVars == <<queue, total, completed, runningOn>>
producerVars == <<batches, adding>>
runnerVars == <<ids, active, work, job>>
taskVars == <<queue, total, completed, runningOn, mounted, batches, adding, ids, active,
              work, job, astray, runnerFaults>>

NoJob == [at |-> "none"]
Job(at, mine, round, n) ==
  [at |-> at, mine |-> mine, round |-> round, n |-> n, step |-> 0, aborted |-> FALSE]
Pairs == Workers \X Tasks
Astray == {"untotalled", "invalid", "uncounted", "returned"}

TaskInit ==
  /\ queue = [t \in Tasks |-> 0]
  /\ total = queue /\ completed = queue
  /\ runningOn = [t \in Tasks |-> NoHost]
  /\ mounted = Workers
  /\ batches = 0 /\ adding = {}
  /\ ids = {} /\ active = {}
  /\ work = [w \in Workers |-> "off"]
  /\ job = [p \in Pairs |-> NoJob]
  /\ astray = [t \in Tasks |-> [k \in Astray |-> 0]]
  /\ runnerFaults = 0

-----------------------------------------------------------------------------
(* The producers: insert_lines (mailbox) or insert_fidlist (API) inserts   *)
(* the rows; a statement of its own adds them to fids_total.  The API adds *)
(* the fids it was given, those that are no fid and were not inserted      *)
(* included; the mailbox counts what it inserted.                          *)

InsertLines(t, n, invalid) ==
  /\ batches < MaxBatches /\ (invalid = 0 \/ t \in ApiTasks)
  /\ batches' = batches + 1
  /\ queue' = [queue EXCEPT ![t] = @ + n]
  /\ adding' = adding \cup {[id |-> batches', task |-> t, n |-> n, invalid |-> invalid]}
  /\ UNCHANGED <<total, completed, runningOn, mounted, runnerVars, astray, runnerFaults>>

IncreaseTotal(b) ==
  /\ adding' = adding \ {b}
  /\ total' = [total EXCEPT ![b.task] = @ + b.n + b.invalid]
  /\ astray' = [astray EXCEPT ![b.task]["invalid"] = @ + b.invalid]
  /\ UNCHANGED <<queue, completed, runningOn, mounted, batches, runnerVars, runnerFaults>>

(* The producer fails or stops between the two statements.                 *)
ProducerStops(b) ==
  /\ runnerFaults < MaxRunnerFaults /\ runnerFaults' = runnerFaults + 1
  /\ adding' = adding \ {b}
  /\ astray' = [astray EXCEPT ![b.task]["untotalled"] = @ + b.n]
  /\ UNCHANGED <<storeVars, mounted, batches, runnerVars>>

(* A client is unmounted.                                                  *)
Unmount(w) ==
  /\ w \in mounted /\ runnerFaults < MaxRunnerFaults /\ runnerFaults' = runnerFaults + 1
  /\ mounted' = mounted \ {w}
  /\ UNCHANGED <<storeVars, producerVars, runnerVars, astray>>

-----------------------------------------------------------------------------
(* The main loop.                                                          *)

(* A transaction holds a connection of the pool until it ends.             *)
Connections == Cardinality({p \in Pairs : job[p].at = "acting"})
Connected == Connections < POOL_LIMIT

(* One tick: the active clients are read; with capacity left, clients      *)
(* other than those are fetched, marked active and spawned.                *)
Tick ==
  /\ ids = {} /\ Cardinality(active) < POOL_LIMIT
  /\ ids' = {active}
  /\ UNCHANGED <<storeVars, mounted, producerVars, active, work, job, astray, runnerFaults>>

(* Variant: LIMIT takes no account of the clients already active.          *)
AvailableWorkersUnlimited(known) ==
  {ws \in SUBSET (mounted \ known) :
     Cardinality(ws) = Min({Cardinality(mounted \ known), POOL_LIMIT})}
AvailableWorkers(known) ==
  {ws \in SUBSET (mounted \ known) :
     Cardinality(ws) = Min({Cardinality(mounted \ known), POOL_LIMIT - Cardinality(known)})}

Spawn ==
  /\ Connected
  /\ \E known \in ids : \E ws \in AvailableWorkers(known) :
       /\ active' = active \cup ws
       /\ work' = [w \in Workers |-> IF w \in ws THEN "spawned" ELSE work[w]]
  /\ ids' = {}
  /\ UNCHANGED <<storeVars, mounted, producerVars, job, astray, runnerFaults>>

(* The process ends and is started again: every transaction is rolled      *)
(* back, and what was committed and not counted never is.                  *)
Fids(t, Holds(_)) == MapThenSumSet(LAMBDA w : job[<<w, t>>].n,
                                   {w \in Workers : Holds(job[<<w, t>>])})
InFlight(t) == Fids(t, LAMBDA j : j.at = "acting")
Uncounted(t) == Fids(t, LAMBDA j : j.at = "count" /\ ~j.aborted)

Restart ==
  /\ queue' = [t \in Tasks |-> queue[t] + InFlight(t)]
  /\ astray' = [t \in Tasks |-> [astray[t] EXCEPT !["uncounted"] = @ + Uncounted(t)]]
  /\ ids' = {} /\ active' = {}
  /\ work' = [w \in Workers |-> "off"]
  /\ job' = [p \in Pairs |-> NoJob]
  /\ UNCHANGED <<total, completed, runningOn, mounted, producerVars>>

(* An error of available_workers ends main: the pool had no connection to  *)
(* give in time, because transactions wait for their agents.               *)
PoolTimesOut ==
  /\ ids # {} /\ ~Connected
  /\ runnerFaults < MaxRunnerFaults /\ runnerFaults' = runnerFaults + 1
  /\ Restart

RunnerCrash ==
  /\ runnerFaults < MaxRunnerFaults /\ runnerFaults' = runnerFaults + 1
  /\ Restart

-----------------------------------------------------------------------------
(* A worker.                                                               *)

(* Variant: a task that the host has claimed is not found again.           *)
RunnableUnclaimed(w, t) == total[t] > completed[t] /\ runningOn[t] = NoHost
(* tasks_per_worker: the tasks with work to do that this host may run.     *)
Runnable(w, t) == total[t] > completed[t] /\ runningOn[t] \in {NoHost, w}

(* run_tasks: a round of send_work for each, on a copy of the task's row.  *)
TasksPerWorker(w) ==
  /\ work[w] = "spawned" /\ Connected
  /\ work' = [work EXCEPT ![w] = "running"]
  /\ job' = [p \in Pairs |->
               IF p[1] = w /\ Runnable(w, p[2])
               THEN Job("round", runningOn[p[2]] = w, 1, 0) ELSE job[p]]
  /\ UNCHANGED <<storeVars, mounted, producerVars, ids, active, astray, runnerFaults>>

Release(w) ==
  /\ work[w] = "running" /\ \A t \in Tasks : job[<<w, t>>] = NoJob
  /\ work' = [work EXCEPT ![w] = "off"] /\ active' = active \ {w}
  /\ UNCHANGED <<storeVars, mounted, producerVars, ids, job, astray, runnerFaults>>

-----------------------------------------------------------------------------
(* send_work.                                                              *)

(* The copy says that nobody runs the task.  It is not read again after    *)
(* the task was claimed.                                                   *)
Unclaimed(w, t) == t \in SingleRunner /\ ~job[<<w, t>>].mine

(* Variant: the UPDATE has no condition on running_on_id.                  *)
ClaimAnyway(w, t) ==
  /\ job[<<w, t>>].at = "round" /\ Unclaimed(w, t) /\ Connected
  /\ runningOn' = [runningOn EXCEPT ![t] = w]
  /\ job' = [job EXCEPT ![<<w, t>>].at = "claimed"]
  /\ UNCHANGED <<queue, total, completed, mounted, producerVars, ids, active, work,
                 astray, runnerFaults>>
Claim(w, t) ==
  /\ job[<<w, t>>].at = "round" /\ Unclaimed(w, t) /\ Connected
  /\ IF runningOn[t] = NoHost
       THEN /\ runningOn' = [runningOn EXCEPT ![t] = w]
            /\ job' = [job EXCEPT ![<<w, t>>].at = "claimed"]
       ELSE /\ job' = [job EXCEPT ![<<w, t>>] = NoJob]
            /\ UNCHANGED runningOn
  /\ UNCHANGED <<queue, total, completed, mounted, producerVars, ids, active, work,
                 astray, runnerFaults>>

(* A transaction deletes the rows it can lock, at most FID_LIMIT.          *)
DeleteRows(w, t) ==
  LET n == Min({queue[t], FID_LIMIT})
      j == job[<<w, t>>]
  IN  /\ j.at = "claimed" \/ (j.at = "round" /\ ~Unclaimed(w, t))
      /\ Connected
      /\ queue' = [queue EXCEPT ![t] = @ - n]
      /\ job' = [job EXCEPT ![<<w, t>>] =
                   IF n = 0 THEN NoJob ELSE Job("acting", j.mine, j.round, n)]
      /\ UNCHANGED <<total, completed, runningOn, mounted, producerVars, ids, active,
                     work, astray, runnerFaults>>

(* An action answers, with an error for each of some fids (they add to     *)
(* fids_failed, on which no decision depends).                             *)
ActionAnswers(w, t) ==
  /\ job[<<w, t>>].at = "acting" /\ job[<<w, t>>].step < Steps[t]
  /\ job' = [job EXCEPT ![<<w, t>>].step = @ + 1]
  /\ UNCHANGED <<storeVars, mounted, producerVars, ids, active, work, astray, runnerFaults>>

(* So it does, and an INSERT into chroma_core_fidtaskerror fails: this is  *)
(* logged, but Postgres has aborted the transaction.                       *)
InsertErrorFails(w, t) ==
  /\ job[<<w, t>>].at = "acting" /\ job[<<w, t>>].step < Steps[t]
  /\ runnerFaults < MaxRunnerFaults /\ runnerFaults' = runnerFaults + 1
  /\ job' = [job EXCEPT ![<<w, t>>].step = @ + 1, ![<<w, t>>].aborted = TRUE]
  /\ UNCHANGED <<storeVars, mounted, producerVars, ids, active, work, astray>>

(* Variant: the transaction is committed although an action failed.        *)
ActionFailsCommitted(w, t) ==
  /\ job[<<w, t>>].at = "acting" /\ job[<<w, t>>].step < Steps[t]
  /\ runnerFaults < MaxRunnerFaults /\ runnerFaults' = runnerFaults + 1
  /\ job' = [job EXCEPT ![<<w, t>>] = NoJob]
  /\ UNCHANGED <<storeVars, mounted, producerVars, ids, active, work, astray>>
(* The action cannot be sent, fails, or answers nonsense: rollback, and    *)
(* the task has to wait for the next spawn.                                *)
ActionFails(w, t) ==
  /\ job[<<w, t>>].at = "acting" /\ job[<<w, t>>].step < Steps[t]
  /\ runnerFaults < MaxRunnerFaults /\ runnerFaults' = runnerFaults + 1
  /\ queue' = [queue EXCEPT ![t] = @ + job[<<w, t>>].n]
  /\ job' = [job EXCEPT ![<<w, t>>] = NoJob]
  /\ UNCHANGED <<total, completed, runningOn, mounted, producerVars, ids, active, work,
                 astray>>

(* COMMIT of an aborted transaction reports success and rolls back.        *)
CommitRows(w, t) ==
  LET j == job[<<w, t>>]
  IN  /\ j.at = "acting" /\ j.step = Steps[t]
      /\ queue' = IF j.aborted THEN [queue EXCEPT ![t] = @ + j.n] ELSE queue
      /\ job' = [job EXCEPT ![<<w, t>>].at = "count"]
      /\ UNCHANGED <<total, completed, runningOn, mounted, producerVars, ids, active,
                     work, astray, runnerFaults>>

(* The counters follow, in a statement of their own.  A full transaction   *)
(* is followed by another, ROUNDS in all.                                  *)
NextRound(j) ==
  IF j.n < FID_LIMIT \/ j.round = ROUNDS THEN NoJob
  ELSE Job("round", j.mine, j.round + 1, 0)

CountRows(w, t) ==
  LET j == job[<<w, t>>]
  IN  /\ j.at = "count" /\ Connected
      /\ completed' = [completed EXCEPT ![t] = @ + j.n]
      /\ astray' = [astray EXCEPT ![t]["returned"] = IF j.aborted THEN @ + j.n ELSE @]
      /\ job' = [job EXCEPT ![<<w, t>>] = NextRound(j)]
      /\ UNCHANGED <<queue, total, runningOn, mounted, producerVars, ids, active, work,
                     runnerFaults>>

CountFails(w, t) ==
  LET j == job[<<w, t>>]
  IN  /\ j.at = "count"
      /\ runnerFaults < MaxRunnerFaults /\ runnerFaults' = runnerFaults + 1
      /\ astray' = [astray EXCEPT ![t]["uncounted"] = IF j.aborted THEN @ ELSE @ + j.n]
      /\ job' = [job EXCEPT ![<<w, t>>] = NoJob]
      /\ UNCHANGED <<storeVars, mounted, producerVars, ids, active, work>>

-----------------------------------------------------------------------------
SendWork(w, t) ==
  \/ Claim(w, t) \/ DeleteRows(w, t) \/ CommitRows(w, t) \/ CountRows(w, t)
  \/ ActionAnswers(w, t)

WorkerStep(w) == TasksPerWorker(w) \/ Release(w) \/ (\E t \in Tasks : SendWork(w, t))
MainStep == Tick \/ Spawn

TaskFault ==
  \/ PoolTimesOut \/ RunnerCrash
  \/ \E b \in adding : ProducerStops(b)
  \/ \E w \in Workers : Unmount(w)
  \/ \E w \in Workers, t \in Tasks :
       InsertErrorFails(w, t) \/ ActionFails(w, t) \/ CountFails(w, t)

TaskNext ==
  \/ \E t \in Tasks, n \in BatchSizes, invalid \in {0, 1} : InsertLines(t, n, invalid)
  \/ \E b \in adding : IncreaseTotal(b)
  \/ MainStep
  \/ \E w \in Workers : WorkerStep(w)
  \/ TaskFault

(* The timer ticks, spawned futures run, agents answer and a producer that *)
(* is not stopped goes on.                                                 *)
TaskFairness ==
  /\ WF_taskVars(MainStep)
  /\ WF_taskVars(\E b \in adding : IncreaseTotal(b))
  /\ \A w \in Workers : WF_taskVars(WorkerStep(w))

TaskSpec == TaskInit /\ [][TaskNext]_taskVars /\ TaskFairness

-----------------------------------------------------------------------------
(* The counters and queues are numbers, and only an active client has      *)
(* rounds of send_work under way (main.rs:390, the release after a spawn). *)
RunnerTypeOK ==
  /\ queue \in [Tasks -> Nat] /\ total \in [Tasks -> Nat]
  /\ completed \in [Tasks -> Nat]
  /\ runningOn \in [Tasks -> Workers \cup {NoHost}]
  /\ active \subseteq Workers
  /\ \A w \in Workers, t \in Tasks : job[<<w, t>>] # NoJob => w \in active

(* Every fid queued is in the queue, in a transaction, or counted as       *)
(* completed.  fids_total and fids_completed differ from that only by the  *)
(* statement still to come, and for good by what was lost when one of the  *)
(* two statements failed or was never reached, by the invalid fids the API *)
(* counts, and by rows that an aborted transaction returned although they  *)
(* were counted (main.rs:248, 282-298; mailbox lib.rs:162-180).            *)
Accounted ==
  \A t \in Tasks :
    total[t] + MapThenSumSet(LAMBDA b : b.n, {b \in adding : b.task = t})
      + astray[t]["untotalled"] + astray[t]["returned"]
    = queue[t] + InFlight(t) + Uncounted(t) + completed[t]
      + astray[t]["uncounted"] + astray[t]["invalid"]

(* The fids of a single_runner task are only ever handed to the host in    *)
(* running_on_id, although every worker starts from a copy of the task     *)
(* that may say nobody runs it (main.rs:124).                              *)
OneRunner ==
  \A t \in SingleRunner, w \in Workers :
    job[<<w, t>>].at \in {"claimed", "acting", "count"} => runningOn[t] = w

(* At most POOL_LIMIT clients are served at a time, each by one spawn, and *)
(* their transactions take no more connections than the pool has           *)
(* (main.rs:55, 353).                                                      *)
PoolBounded ==
  /\ Cardinality(active) <= POOL_LIMIT /\ Connections <= POOL_LIMIT
  /\ active = {w \in Workers : work[w] # "off"}
  /\ \A p \in Pairs : job[p] # NoJob => work[p[1]] = "running"

(* Queued fids are eventually handed out.  They stay for good only if the  *)
(* counters say the task is done because of a count that went astray, or   *)
(* if the host that runs the task has no mounted client or is crowded out  *)
(* of the pool by other clients.                                           *)
Stranded(t) ==
  \/ total[t] <= completed[t] /\ astray[t]["untotalled"] + astray[t]["returned"] > 0
  \/ mounted = {}
  \/ /\ runningOn[t] # NoHost
     /\ runningOn[t] \notin mounted \/ Cardinality(mounted) > POOL_LIMIT
Drains == <>[](\A t \in Tasks : queue[t] = 0 \/ Stranded(t))
=============================================================================
