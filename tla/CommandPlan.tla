----------------------------- MODULE CommandPlan ----------------------------
(***************************************************************************)
(* The planner, chroma_core/services/job_scheduler/command_plan.py, over   *)
(* the objects of ManagedObjects, and the execution of its plans one job   *)
(* at a time in the order of the Job table.  Locks, threads and            *)
(* cancellation are the subject of JobScheduler; here the plans are real.  *)
(*                                                                         *)
(* A job is a Transition [obj, old, new].  Beside the jobs the rows are    *)
(* changed by iml-device, which writes the state of targets and            *)
(* filesystems as it finds them mounted on the hosts.                      *)
(***************************************************************************)
EXTENDS ManagedObjects, Integers, FiniteSets, FiniteSetsExt

CONSTANTS
  InitialState,   \* the states at the start
  Orders,         \* iteration orders of Python sets of objects
  Gaps,           \* requests known to be planned wrongly: <<class, from, to>>
  Scenarios       \* which part of the site is touched, and how far; by name:
                  \*   objects   those that set_state is called for, or that move
                  \*   vias      tie breaks of route_map
                  \*   requests  bound: how often set_state is called
                  \*   failures  bound: how many jobs fail
                  \*   moves     bound: how often targets start, stop or move
                  \*             by themselves

VARIABLES
  state,      \* the rows: the state of every object
  deleted,    \* the rows: those with not_deleted = None
  active,     \* the target table: the host each target was found mounted on
  mounted_on, \* the hosts themselves: where each target is mounted
  queue,      \* incomplete jobs, in the order of the Job table
  scan,       \* what iml-device still has to write
  goal,       \* what the latest successful set_state asked for
  raised,     \* how the latest set_state failed, or "none"
  refused,    \* what the latest set_state asked for, if it failed
  disturbed,  \* a pending job was planned before a failure or a scan, or in a gap
  scenario,   \* the scenario of this behaviour
  via,        \* the tie break of this process
  requests, failures, moves   \* how often these happened

vars == <<state, deleted, active, mounted_on, queue, scan, goal, raised,
          refused, disturbed, scenario, via, requests, failures, moves>>

Bound == Scenarios[scenario]

DB == [state |-> state, deleted |-> deleted, active |-> active]

Transition == [obj : Objects, old : UNION {States[c] : c \in Classes},
               new : UNION {States[c] : c \in Classes}]
NoTransition == [obj |-> "none", old |-> "none", new |-> "none"]

-----------------------------------------------------------------------------
(* get_expected_state: the end state of the latest pending write, if any *)

ActualStates == state
ExpectedStates ==
  [o \in Objects |->
     LET writes == {n \in DOMAIN queue : queue[n].obj = o}
     IN  IF writes = {} THEN state[o] ELSE queue[Max(writes)].new]

(***************************************************************************)
(* _emit_transition_deps and _collect_dependencies, mutually recursive.    *)
(* The plan under construction is a record                                 *)
(*   deps, edges   the sets of the same names                              *)
(*   ret           what the latest call returned (None is NoTransition)    *)
(*   raised        the exception that ended planning, or "none"            *)
(* and env holds what does not change: the rows, the expected states, the  *)
(* iteration order and the tie break.                                      *)
(***************************************************************************)
EmptyPlan == [deps |-> {}, edges |-> {}, ret |-> NoTransition, raised |-> "none"]

InOrder(order, S) == SelectSeq(order, LAMBDA o : o \in S)

\* the dependencies on one object, in some order
RECURSIVE SeqOfSet(_)
SeqOfSet(S) == IF S = {} THEN <<>>
               ELSE LET x == CHOOSE y \in S : TRUE IN <<x>> \o SeqOfSet(S \ {x})

DepsInOrder(order, deps) ==
  LET objs == InOrder(order, {d.on : d \in deps})
      RECURSIVE Flat(_)
      Flat(n) == IF n > Len(objs) THEN <<>>
                 ELSE SeqOfSet({d \in deps : d.on = objs[n]}) \o Flat(n + 1)
  IN  Flat(1)

RECURSIVE Emit(_, _, _, _), EmitRoute(_, _, _, _, _, _), Collect(_, _, _, _),
          CollectEach(_, _, _, _, _)

Emit(env, t, stack, plan) ==
  IF plan.raised # "none" THEN plan
  ELSE IF t \in plan.deps THEN [plan EXCEPT !.ret = t]
  ELSE IF t.old = t.new THEN [plan EXCEPT !.ret = NoTransition]
  ELSE IF ~HasRoute(Class[t.obj], t.old, t.new)
       THEN [plan EXCEPT !.raised = "SchedulingError"]
  ELSE EmitRoute(env, t.obj, GetRoute(Class[t.obj], t.old, t.new, env.via),
                 [o \in DOMAIN stack \cup {t.obj} |->
                    IF o = t.obj THEN t.new ELSE stack[o]],
                 NoTransition, plan)

\* one step of the route after the other, each depending on the one before
EmitRoute(env, obj, route, stack, prev, plan) ==
  IF Len(route) = 1 \/ plan.raised # "none" THEN [plan EXCEPT !.ret = prev]
  ELSE LET step == [obj |-> obj, old |-> route[1], new |-> route[2]]
           with == Collect(env, step, stack,
                           [plan EXCEPT !.deps = @ \cup {step}])
           edge == IF prev = NoTransition THEN {} ELSE {<<step, prev>>}
       IN  EmitRoute(env, obj, Tail(route), stack, step,
                     [with EXCEPT !.edges = @ \cup edge])

\* The transitions that mend some dependencies, those that fix a dependent
Needed(env, deps) ==
  [i \in DOMAIN deps |-> [obj |-> deps[i].on, old |-> env.expected[deps[i].on],
                          new |-> deps[i].preferred]]
Fixing(env, o, deps) ==
  [i \in DOMAIN deps |-> [obj |-> o, old |-> env.expected[o], new |-> deps[i].fix]]

RECURSIVE Fixed(_, _, _)
Fixed(env, root, dependents) ==
  IF dependents = <<>> THEN <<>>
  ELSE LET o == Head(dependents)
       IN  Fixing(env, o, SeqOfSet({d \in StateDeps(env.db, o, env.expected[o]) :
                                      d.on = root.obj /\ root.new \notin d.acceptable}))
           \o Fixed(env, root, Tail(dependents))

\* the transitions that root needs: what its job and its new state depend on,
\* and what depends on its old state
Collect(env, root, stack, plan) ==
  IF GetDepsRaises(env.db, root.obj, root.old, root.new)
  THEN [plan EXCEPT !.raised = "NameError"]
  ELSE CollectEach(env, root,
         Needed(env, DepsInOrder(env.order,
           {d \in JobDeps(env.db, root.obj, root.old, root.new) :
              env.expected[d.on] \notin d.acceptable}))
         \o Needed(env, DepsInOrder(env.order,
           {d \in StateDeps(env.db, root.obj, root.new) :
              d.on \notin DOMAIN stack /\ env.expected[d.on] \notin d.acceptable}))
         \o Fixed(env, root, InOrder(env.order,
              DependentObjects(env.db, root.obj) \ DOMAIN stack)),
         stack, plan)

CollectEach(env, root, needed, stack, plan) ==
  IF needed = <<>> \/ plan.raised # "none" THEN plan
  ELSE LET p == Emit(env, Head(needed), stack, plan)
       IN  CollectEach(env, root, Tail(needed), stack,
                       [p EXCEPT !.edges = @ \cup {<<root, p.ret>>}])

-----------------------------------------------------------------------------
(* _sort_graph: by the longest path from a leaf, ties in iteration order *)

IsCyclic(edges) ==
  LET nodes == {e[1] : e \in edges}
      Grow(S) == S \cup {e[2] : e \in {x \in edges : x[1] \in S}}
      RECURSIVE Closure(_)
      Closure(S) == IF Grow(S) = S THEN S ELSE Closure(Grow(S))
  IN  \E n \in nodes : n \in Closure({e[2] : e \in {x \in edges : x[1] = n}})

RECURSIVE LeafDistance(_, _)
ShortestDistance(edges, t) ==
  LET children == {e[2] : e \in {x \in edges : x[1] = t}}
  IN  IF children = {} THEN 0
      ELSE 1 + Min({LeafDistance(edges, c) : c \in children})
LeafDistance(edges, t) ==
  LET children == {e[2] : e \in {x \in edges : x[1] = t}}
  IN  IF children = {} THEN 0
      ELSE 1 + Max({LeafDistance(edges, c) : c \in children})

SortGraph(order, deps, edges) ==
  LET distance == [t \in deps |-> LeafDistance(edges, t)]
      place == [t \in deps |-> CHOOSE n \in DOMAIN order : order[n] = t.obj]
      before(t, u) == \/ distance[t] < distance[u]
                      \/ distance[t] = distance[u] /\ place[t] <= place[u]
      RECURSIVE Sorted(_)
      Sorted(S) == IF S = {} THEN <<>>
                   ELSE LET least == CHOOSE t \in S : \A u \in S : before(t, u)
                        IN  <<least>> \o Sorted(S \ {least})
  IN  Sorted(deps)

\* The assertion of _create_dependencies, for the jobs added after a queue:
\* each starts in the state in which the one before it leaves its object.
Chained(jobs) ==
  \A n \in DOMAIN jobs :
    LET before == {m \in DOMAIN jobs : m < n /\ jobs[m].obj = jobs[n].obj}
    IN  before # {} => jobs[Max(before)].new = jobs[n].old

PlanFails(e) == [jobs |-> <<>>, raised |-> e]
JobsCreated(jobs) == IF Chained(queue \o jobs) THEN [jobs |-> jobs, raised |-> "none"]
                     ELSE PlanFails("AssertionError")
JobsPlanned(order, plan) ==
  IF plan.raised # "none" THEN PlanFails(plan.raised)
  ELSE IF IsCyclic(plan.edges) THEN PlanFails("RecursionError")
  ELSE JobsCreated(SortGraph(order, plan.deps, plan.edges))

\* The jobs that _set_state creates, or the exception it raises
Plan(order, o, new) ==
  LET PlanFrom(expected) ==
        Emit([db |-> DB, expected |-> expected, order |-> order, via |-> via],
             [obj |-> o, old |-> expected[o], new |-> new], <<>>, EmptyPlan)
  IN  JobsPlanned(order, PlanFrom(ExpectedStates))

-----------------------------------------------------------------------------
Idle == [step |-> "idle", changed |-> {}, found |-> [t \in Targets |-> {}]]

Init ==
  /\ state = InitialState
  /\ deleted = {}
  /\ mounted_on = [t \in Targets |-> IF state[t] = "mounted"
                                    THEN HostsOf[t] ELSE {}]
  /\ active = mounted_on
  /\ queue = <<>>
  /\ scan = Idle
  /\ goal = NoTransition
  /\ raised = "none"
  /\ refused = NoTransition
  /\ disturbed = FALSE
  /\ scenario \in DOMAIN Scenarios
  /\ via \in Bound.vias
  /\ requests = 0 /\ failures = 0 /\ moves = 0

InGap(t) == <<Class[t.obj], t.old, t.new>> \in Gaps

\* command_set_state and _set_state for one object
SetState(o, new) ==
  /\ requests < Bound.requests
  /\ o \in Bound.objects \ deleted
  /\ new \in AvailableStates(DB, o) \cup {state[o]}
  /\ requests' = requests + 1
  /\ LET request == [obj |-> o, old |-> ExpectedStates[o], new |-> new]
     IN  IF new = ExpectedStates[o]
         THEN /\ raised' = "none" /\ refused' = NoTransition
              /\ UNCHANGED <<queue, goal, disturbed>>
         ELSE \E order \in Orders :
                \E plan \in {Plan(order, o, new)} :
                    /\ raised' = plan.raised
                    /\ queue' = queue \o plan.jobs
                    /\ IF plan.raised = "none"
                       THEN goal' = request /\ refused' = NoTransition
                       ELSE goal' = goal /\ refused' = request
                    /\ disturbed' = (disturbed \/ (InGap(request) /\ queue' # queue))
  /\ UNCHANGED <<state, deleted, active, mounted_on, scan, scenario, via, failures,
                 moves>>

\* Job.all_deps(...).satisfied(), the last check before a job runs
DepsSatisfied(job) ==
  LET needed == JobDeps(DB, job.obj, job.old, job.new)
      ok(deps) == \A d \in deps : Satisfied(DB, d)
  IN  /\ state[job.obj] = job.old
      /\ \A o \in DependentObjects(DB, job.obj) :
           \A d \in StateDeps(DB, o, state[o]) :
             (d.on = job.obj /\ job.new \notin d.acceptable) => state[o] = d.fix
      /\ IF DependsOnAny(DB, job.obj, job.new)
         THEN needed # {} => \E d \in needed : Satisfied(DB, d)
         ELSE ok(needed)
      /\ ok(StateDeps(DB, job.obj, job.new))

\* Rows that a completed job deletes (mark_deleted)
Deletes(job) ==
  CASE job.new = "forgotten" -> {job.obj}
    [] job.new = "removed" /\ Class[job.obj] = "client_mount" -> {job.obj}
    [] job.new = "removed" /\ Class[job.obj] = "host" ->
         {job.obj} \cup {o \in Objects : HostsOf[o] = {job.obj} /\
            Class[o] \in {"client_mount", "pacemaker", "corosync", "ntp"}}
    [] OTHER -> {}

\* The next job runs: its steps work, and on_success sets the new state
RunJob ==
  /\ queue # <<>>
  /\ LET job == Head(queue)
     IN  /\ DepsSatisfied(job)
         /\ state' = [o \in Objects |->
              IF o = job.obj THEN job.new
              ELSE IF o \in Deletes(job) /\ Class[o] # "client_mount"
                   THEN "removed" ELSE state[o]]
         /\ deleted' = deleted \cup Deletes(job)
         /\ IF job.obj \in Targets /\ job.new \in {"mounted", "unmounted"}
            THEN \E h \in HostsOf[job.obj] \ deleted :
                   mounted_on' = [mounted_on EXCEPT ![job.obj] =
                                    IF job.new = "mounted" THEN {h} ELSE {}]
            ELSE UNCHANGED mounted_on
  /\ queue' = Tail(queue)
  /\ disturbed' = (disturbed /\ Tail(queue) # <<>>)
  /\ UNCHANGED <<active, scan, goal, raised, refused, scenario, via, requests, failures,
                 moves>>

\* The next job runs and one of its steps fails
FailJob ==
  /\ queue # <<>> /\ DepsSatisfied(Head(queue))
  /\ failures < Bound.failures
  /\ failures' = failures + 1
  /\ queue' = Tail(queue)
  /\ disturbed' = (Tail(queue) # <<>>)
  /\ UNCHANGED <<state, deleted, active, mounted_on, scan, goal, raised,
                 refused, scenario, via, requests, moves>>

\* The next job is cancelled because its dependencies do not hold
CancelJob ==
  /\ queue # <<>> /\ ~DepsSatisfied(Head(queue))
  /\ queue' = Tail(queue)
  /\ disturbed' = (disturbed /\ Tail(queue) # <<>>)
  /\ UNCHANGED <<state, deleted, active, mounted_on, scan, goal, raised,
                 refused, scenario, via, requests, failures, moves>>

\* The cluster starts, stops or moves a target on its own
MoveTarget(t) ==
  /\ moves < Bound.moves
  /\ t \in Bound.objects \ deleted
  /\ \E to \in {{}} \cup {{h} : h \in HostsOf[t] \ deleted} :
       /\ to # mounted_on[t]
       /\ mounted_on' = [mounted_on EXCEPT ![t] = to]
  /\ moves' = moves + 1
  /\ UNCHANGED <<state, deleted, active, queue, scan, goal, raised, refused,
                 disturbed, scenario, via, requests, failures>>

(***************************************************************************)
(* iml-device writes what is found mounted in three statements, without a  *)
(* transaction: the target table, then for the targets that changed there  *)
(* the rows of ManagedTarget, then those of their filesystems.             *)
(***************************************************************************)
DeviceTargetsStale ==
  /\ scan.step = "idle"
  /\ active # mounted_on
  /\ scan' = [step |-> "targets", found |-> active,
              changed |-> {t \in Targets : active[t] # mounted_on[t]}]
  /\ active' = mounted_on
  /\ disturbed' = (queue # <<>>)
  /\ UNCHANGED <<state, deleted, mounted_on, queue, goal, raised, refused,
                 scenario, via, requests, failures, moves>>

DeviceTargets ==
  /\ scan.step = "idle"
  /\ active # mounted_on
  /\ scan' = [step |-> "targets", found |-> mounted_on,
              changed |-> {t \in Targets : active[t] # mounted_on[t]}]
  /\ active' = mounted_on
  /\ disturbed' = (queue # <<>>)
  /\ UNCHANGED <<state, deleted, mounted_on, queue, goal, raised, refused,
                 scenario, via, requests, failures, moves>>

DeviceManagedTargets ==
  /\ scan.step = "targets"
  /\ state' = [o \in Objects |->
                IF o \notin scan.changed \ deleted THEN state[o]
                ELSE IF scan.found[o] = {} THEN "unmounted" ELSE "mounted"]
  /\ scan' = [scan EXCEPT !.step = "filesystems"]
  /\ disturbed' = (queue # <<>>)
  /\ UNCHANGED <<deleted, active, mounted_on, queue, goal, raised, refused,
                 scenario, via, requests, failures, moves>>

\* The state of a filesystem, as the rows of its targets show it
FilesystemFound(f) ==
  LET members == MembersOf(DB, f)
  IN  CASE \A t \in members \cup (MgsOf[f] \ deleted) : state[t] = "unmounted" ->
             "stopped"
        [] \E t \in members : Class[t] = "mdt" /\ state[t] = "unmounted" ->
             "unavailable"
        [] OTHER -> "available"

DeviceFilesystems ==
  /\ scan.step = "filesystems"
  /\ state' = [o \in Objects |->
                IF /\ Class[o] = "filesystem" /\ o \notin deleted
                   /\ scan.changed \cap (MembersOf(DB, o) \cup MgsOf[o]) # {}
                THEN FilesystemFound(o) ELSE state[o]]
  /\ scan' = Idle
  /\ disturbed' = (queue # <<>>)
  /\ UNCHANGED <<deleted, active, mounted_on, queue, goal, raised, refused,
                 scenario, via, requests, failures, moves>>

Next ==
  \/ \E o \in Objects : \E new \in States[Class[o]] : SetState(o, new)
  \/ RunJob \/ FailJob \/ CancelJob
  \/ \E t \in Targets : MoveTarget(t)
  \/ DeviceTargets \/ DeviceManagedTargets \/ DeviceFilesystems

Spec == Init /\ [][Next]_vars

-----------------------------------------------------------------------------
(* Properties *)

\* "The order of the rows in the Job table corresponds to the order in which
\* the jobs would run (including accounting for dependencies)": in that order
\* every job finds its dependencies met, unless a job failed or rows changed.
NextJobCanRun == queue # <<>> /\ ~disturbed => DepsSatisfied(Head(queue))

\* When the last planned job has run, the object is where it was wanted.
GoalReached ==
  [][queue # <<>> /\ queue' = <<>> /\ ~disturbed /\ failures' = failures
       => state'[goal.obj] = goal.new]_vars

\* Planning never trips over its own graph or its own jobs.
PlansAreSane == raised \in {"AssertionError", "RecursionError"} => InGap(refused)

\* No object loses what it stands on, whatever fails or moves: the LNet and
\* Pacemaker of a target's hosts stay configured, the MGS of a filesystem
\* exists, a mounted client has its LNet up.
GroundHolds ==
  \A o \in Objects \ deleted : \A d \in StateDeps(DB, o, state[o]) :
    (d.fix \in {"removed", "forgotten"} \/ (Class[d.on] = "lnet" /\ o \notin Targets))
      => Satisfied(DB, d)

\* Jobs and scans write the same rows of targets without a common lock.  As long
\* as only jobs start and stop targets, a row is right whenever nobody is about
\* to write it: a stale scan is always followed by another one.
RowsMatchMounts ==
  moves = 0 /\ scan.step = "idle" /\ active = mounted_on =>
    \A t \in Targets \ deleted : (state[t] = "mounted") = (mounted_on[t] # {})

\* "Depend on the active mount's host having LNet up, so that if LNet is stopped
\* on that host this target will be stopped first."
LNetStopsLast ==
  [][\A l \in OfClass("lnet") : \A t \in Targets :
       state[l] = "lnet_up" /\ state'[l] = "lnet_down"
         => mounted_on[t] \cap HostsOf[l] = {}]_vars
=============================================================================
