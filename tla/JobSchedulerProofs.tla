------------------------- MODULE JobSchedulerProofs -------------------------
(***************************************************************************)
(* Type correctness and the lock discipline of the job scheduler, proved   *)
(* for any items, jobs, plans and bounds: the lock cache matches the       *)
(* incomplete jobs, and jobs with conflicting locks are active together    *)
(* only after a cancellation.                                              *)
(***************************************************************************)
EXTENDS JobScheduler, TLAPS, WellFoundedInduction

USE ZenonT(20)


-----------------------------------------------------------------------------
(* Types *)

(* A non-empty set of job ids has a greatest element: there is a smallest  *)
(* distance to MaxJobs.                                                    *)
LEMMA MaxExists ==
  ASSUME NEW n \in Nat, NEW W \in SUBSET (0..n), W # {}
  PROVE  \E x \in W : \A y \in W : x >= y
<1> DEFINE D == {n - w : w \in W}
<1>1. D \subseteq Nat /\ D # {}
  <2>1. \A w \in W : n - w \in Nat
    BY SMT
  <2>2. PICK w \in W : TRUE
    OBVIOUS
  <2>3. n - w \in D
    OBVIOUS
  <2> QED  BY <2>1, <2>3
<1>2. PICK d \in D : \A e \in D : ~(<<e, d>> \in OpToRel(<, Nat))
  <2> HIDE DEF D
  <2> QED  BY <1>1, NatLessThanWellFounded, WFMin
<1>3. \A e \in D : ~(e < d)
  <2> SUFFICES ASSUME NEW e \in D, e < d PROVE FALSE
    OBVIOUS
  <2>1. e \in Nat /\ d \in Nat
    BY <1>1
  <2>2. <<e, d>> \in OpToRel(<, Nat)
    BY <2>1 DEF OpToRel
  <2> QED  BY <1>2, <2>2
<1>4. PICK x \in W : d = n - x
  OBVIOUS
<1>5. \A y \in W : x >= y
  <2> SUFFICES ASSUME NEW y \in W, y > x PROVE FALSE
    BY SMT
  <2> DEFINE e == n - y
  <2>1. e \in D /\ e < d
    BY SMT, <1>4
  <2> QED  BY <2>1, <1>3
<1> QED  BY <1>5

(* LockCache.get_latest_write: 0 (nobody), or a writer no other is after.  *)
LEMMA LatestWriteIsLatest ==
  ASSUME NEW W \in SUBSET JobId
  PROVE  /\ LatestWrite(W) \in W \cup {0}
         /\ \A w \in W : w <= LatestWrite(W)
<1>1. {0} \cup W \in SUBSET (0..MaxJobs) /\ {0} \cup W # {}
  BY SMT, Bounds DEF JobId
<1>2. \E x \in {0} \cup W : \A y \in {0} \cup W : x >= y
  BY <1>1, MaxExists, Bounds
<1>3. \E x \in {0} \cup W : \A y \in W : y <= x
  BY <1>1, <1>2, Bounds
<1>4. LatestWrite(W) \in {0} \cup W /\ \A y \in W : y <= LatestWrite(W)
  BY <1>3 DEF LatestWrite
<1> QED  BY <1>4

(* Whom _create_dependencies makes a new job wait for.                     *)
LEMMA WaitsFor ==
  ASSUME NEW sp, NEW ws, NEW rs, NEW m
  PROVE  m \in CreateDependencies(sp, ws, rs) <=>
           /\ m # 0
           /\ \/ \E i \in Writes(sp) :
                   m = LatestWrite(ws[i]) \/ (m \in rs[i] /\ LatestWrite(ws[i]) <= m)
              \/ \E i \in Reads(sp) : m = LatestWrite(ws[i])
<1> DEFINE Late(i) == {r \in rs[i] : LatestWrite(ws[i]) <= r}
           U == {LatestWrite(ws[i]) : i \in Writes(sp) \cup Reads(sp)}
           V == UNION {Late(i) : i \in Writes(sp)}
<1>1. CreateDependencies(sp, ws, rs) = (U \cup V) \ {0}
  BY DEF CreateDependencies
<1>2. m \in U <=> \E i \in Writes(sp) \cup Reads(sp) : m = LatestWrite(ws[i])
  OBVIOUS
<1>3. m \in V <=> \E i \in Writes(sp) : m \in Late(i)
  OBVIOUS
<1>4. \A i : m \in Late(i) <=> (m \in rs[i] /\ LatestWrite(ws[i]) <= m)
  OBVIOUS
<1> HIDE DEF Late, U, V
<1>5. m \in CreateDependencies(sp, ws, rs) <=> m # 0 /\ (m \in U \/ m \in V)
  BY <1>1
<1> QED  BY <1>2, <1>3, <1>4, <1>5

(* They are jobs.                                                          *)
LEMMA WaitsForJobs ==
  ASSUME NEW sp \in JobSpecs, NEW ws \in [Items -> SUBSET JobId],
         NEW rs \in [Items -> SUBSET JobId]
  PROVE  CreateDependencies(sp, ws, rs) \subseteq JobId
<1>1. Writes(sp) \subseteq Items /\ Reads(sp) \subseteq Items
  BY SMT, SpecsAssumption, DepsAssumption
     DEF Writes, Reads, JobSpec, IsStateChange, Dependency
<1>2. \A i \in Items : LatestWrite(ws[i]) \in JobId \cup {0}
  BY LatestWriteIsLatest
<1> QED  BY SMT, <1>1, <1>2, WaitsFor

-----------------------------------------------------------------------------
(* Type correctness *)

(* The expected states are states.                                         *)
LEMMA ExpectedType ==
  ASSUME TypeOK
  PROVE  Expected \in [Items -> States]
<1> SUFFICES ASSUME NEW i \in Items
             PROVE  LET w == LatestWrite(writers[i])
                    IN  (IF w # 0 /\ spec[w].obj = i THEN spec[w].new
                         ELSE item_state[i]) \in States
  BY DEF Expected
<1>1. LatestWrite(writers[i]) \in JobId \cup {0}
  BY LatestWriteIsLatest DEF TypeOK
<1>2. \A w \in JobId : spec[w].new \in States
  BY SMT, SpecsAssumption DEF TypeOK, JobSpec
<1> QED  BY <1>1, <1>2 DEF TypeOK

(* A planning call that adds the jobs of a well-formed plan to a command.  *)
WellFormed(p) == /\ p \in Plan
                 /\ Len(p.after) = Len(p.specs)
                 /\ \A x \in DOMAIN p.after : \A y \in p.after[x] : y < x

(* Registering a plan (add_jobs) keeps rows, commands and locks in type.   *)
LEMMA AddJobsType ==
  ASSUME TypeOK, NEW p, WellFormed(p), NEW c \in CommandId, AddJobs(p, c)
  PROVE  /\ last_id' \in 0..MaxJobs
         /\ spec' \in [JobId -> JobSpecs]
         /\ state' \in [JobId -> {"none", "pending", "tasked", "complete"}]
         /\ errored' \in [JobId -> BOOLEAN] /\ cancelled' \in [JobId -> BOOLEAN]
         /\ wait_for' \in [JobId -> SUBSET JobId]
         /\ command_to_jobs' \in [CommandId -> SUBSET JobId]
         /\ jobs' \subseteq JobId
         /\ writers' \in [Items -> SUBSET JobId]
         /\ readers' \in [Items -> SUBSET JobId]
<1> DEFINE new == last_id + 1 .. last_id + Len(p.specs)
           NS == [k \in JobId |-> IF k \in new THEN p.specs[k - last_id]
                                               ELSE spec[k]]
           WA(k) == [i \in Items |-> writers[i] \cup
                       {m \in new : m < k /\ i \in Writes(NS[m])}]
           RA(k) == [i \in Items |-> readers[i] \cup
                       {m \in new : m < k /\ i \in Reads(NS[m])}]
           attached == {LatestWrite(writers[i]) : i \in p.attach} \ {0}
<1>1. /\ p.specs \in Seq(JobSpecs) /\ p.after \in Seq(SUBSET JobId)
      /\ p.attach \in SUBSET Items
  BY DEF WellFormed, Plan
<1>2. /\ Len(p.specs) \in Nat
      /\ DOMAIN p.specs = 1..Len(p.specs) /\ DOMAIN p.after = 1..Len(p.specs)
      /\ \A x \in 1..Len(p.specs) :
           p.specs[x] \in JobSpecs /\ p.after[x] \in SUBSET JobId
  BY SMT, <1>1 DEF WellFormed
<1>3. last_id + Len(p.specs) <= MaxJobs /\ last_id \in 0..MaxJobs
  BY DEF AddJobs, TypeOK
<1>4. new \subseteq JobId
  BY SMTT(30), <1>2, <1>3, Bounds DEF JobId
<1>5. NS \in [JobId -> JobSpecs]
  BY SMTT(30), <1>2, <1>3, Bounds DEF TypeOK, JobId
<1>6. \A k : /\ WA(k) \in [Items -> SUBSET JobId]
             /\ RA(k) \in [Items -> SUBSET JobId]
  BY <1>4 DEF TypeOK
<1>7. attached \subseteq JobId
  BY SMTT(30), <1>1, LatestWriteIsLatest DEF TypeOK
<1>8. \A k \in JobId : CreateDependencies(NS[k], WA(k), RA(k)) \subseteq JobId
  <2> HIDE DEF NS, WA, RA
  <2> QED  BY <1>5, <1>6, WaitsForJobs
<1>9. \A k \in new : \A x \in p.after[k - last_id] : last_id + x \in JobId
  <2> SUFFICES ASSUME NEW k \in new, NEW x \in p.after[k - last_id] PROVE last_id + x \in JobId
    OBVIOUS
  <2>1. k - last_id \in 1..Len(p.specs)
    BY SMT, <1>2, <1>3
  <2>2. x \in JobId /\ x < k - last_id
    BY <1>2, <2>1 DEF WellFormed
  <2> QED
    BY SMTT(30), <1>2, <1>3, <2>1, <2>2, Bounds DEF JobId
<1> QED
  <2>1. /\ last_id' = last_id + Len(p.specs)
        /\ spec' = NS
        /\ state' = [k \in JobId |-> IF k \in new THEN "pending" ELSE state[k]]
        /\ wait_for' = [k \in JobId |->
             IF k \in new
             THEN CreateDependencies(NS[k], WA(k), RA(k))
                    \cup {last_id + x : x \in p.after[k - last_id]}
             ELSE wait_for[k]]
        /\ writers' = WA(last_id + Len(p.specs) + 1)
        /\ readers' = RA(last_id + Len(p.specs) + 1)
        /\ jobs' = jobs \cup new \cup attached
        /\ command_to_jobs' = [command_to_jobs EXCEPT ![c] =
                                 @ \cup new \cup attached]
        /\ UNCHANGED <<errored, cancelled>>
    BY DEF AddJobs
  <2> HIDE DEF new, NS, WA, RA, attached
  <2>2. wait_for' \in [JobId -> SUBSET JobId]
    BY SMTT(30), <2>1, <1>4, <1>8, <1>9 DEF TypeOK
  <2>3. last_id' \in 0..MaxJobs /\ jobs' \subseteq JobId
    BY SMTT(30), <2>1, <1>2, <1>3, <1>4, <1>7, Bounds DEF TypeOK
  <2>4. state' \in [JobId -> {"none", "pending", "tasked", "complete"}]
    BY <2>1 DEF TypeOK
  <2>5. command_to_jobs' \in [CommandId -> SUBSET JobId]
    BY <2>1, <1>4, <1>7 DEF TypeOK
  <2>6. writers' \in [Items -> SUBSET JobId] /\ readers' \in [Items -> SUBSET JobId]
    BY <2>1, <1>6
  <2>7. errored' \in [JobId -> BOOLEAN] /\ cancelled' \in [JobId -> BOOLEAN]
    BY <2>1 DEF TypeOK
  <2>8. spec' \in [JobId -> JobSpecs]
    BY <2>1, <1>5
  <2> QED
    BY <2>2, <2>3, <2>4, <2>5, <2>6, <2>7, <2>8

(* The one job that a completion hook asks for is a well-formed plan.      *)
LEMMA HookPlanWellFormed == WellFormed(HookPlan)
  BY SMT, HookAssumption DEF WellFormed, HookPlan, Plan

(* What the planner returns in a reachable state is well formed.           *)
LEMMA PlanWellFormed ==
  ASSUME TypeOK, NEW r \in Requests
  PROVE  WellFormed(PlanFor(r, item_state, Expected))
<1>1. item_state \in [Items -> States] /\ Expected \in [Items -> States]
  BY ExpectedType DEF TypeOK
<1> QED  BY <1>1, PlanAssumption DEF WellFormed

(* Marking reports as stale keeps them reports.                            *)
LEMMA MarkStaleType ==
  ASSUME NEW q \in Seq(Notification), NEW touched
  PROVE  MarkStale(q, touched) \in Seq(Notification)
<1>1. \A n \in 1..Len(q) :
        (IF q[n].item \in touched THEN [q[n] EXCEPT !.stale = TRUE] ELSE q[n])
          \in Notification
  <2>1. \A x \in Notification : [x EXCEPT !.stale = TRUE] \in Notification
    BY DEF Notification
  <2> QED  BY SMT, <2>1
<1>2. DOMAIN q = 1..Len(q) /\ Len(q) \in Nat
  BY SMT
<1> QED  BY SMT, <1>1, <1>2 DEF MarkStale

(* update_commands leaves Command rows.                                    *)
LEMMA UpdateCommandsType ==
  ASSUME TypeOK, NEW j, UpdateCommands(j)
  PROVE  command' \in [CommandId -> [complete : BOOLEAN, errored : BOOLEAN,
                                     cancelled : BOOLEAN]]
  BY DEF UpdateCommands, TypeOK, AnyOf

(* LockCache.remove_job leaves sets of jobs.                               *)
LEMMA RemoveLocksType ==
  ASSUME TypeOK, NEW j, RemoveLocks(j)
  PROVE  /\ writers' \in [Items -> SUBSET JobId]
         /\ readers' \in [Items -> SUBSET JobId]
  BY DEF RemoveLocks, TypeOK

(* The part of the state that planning touches.                            *)
PlanType ==
  /\ last_id \in 0..MaxJobs
  /\ spec \in [JobId -> JobSpecs]
  /\ state \in [JobId -> {"none", "pending", "tasked", "complete"}]
  /\ errored \in [JobId -> BOOLEAN] /\ cancelled \in [JobId -> BOOLEAN]
  /\ wait_for \in [JobId -> SUBSET JobId]
  /\ last_command \in 0..MaxCommands
  /\ command_to_jobs \in [CommandId -> SUBSET JobId]
  /\ jobs \subseteq JobId
  /\ writers \in [Items -> SUBSET JobId]
  /\ readers \in [Items -> SUBSET JobId]

(* FinishJob leaves rows, locks and control well typed.                    *)
FinishType ==
  /\ state \in [JobId -> {"none", "pending", "tasked", "complete"}]
  /\ errored \in [JobId -> BOOLEAN] /\ cancelled \in [JobId -> BOOLEAN]
  /\ last_id \in 0..MaxJobs
  /\ spec \in [JobId -> JobSpecs]
  /\ wait_for \in [JobId -> SUBSET JobId]
  /\ writers \in [Items -> SUBSET JobId]
  /\ readers \in [Items -> SUBSET JobId]
  /\ phase \in {"free", "hooks", "drain", "run_next", "cancelling", "spawning"}
  /\ current \in 0..MaxJobs /\ resume \in {"drain", "cancelling"}

(* The end of a job (complete_job, cancel_job) keeps the types it touches. *)
LEMMA FinishJobType ==
  ASSUME TypeOK, NEW j \in JobId, NEW e \in BOOLEAN, NEW c \in BOOLEAN,
         NEW next \in {"drain", "cancelling"}, FinishJob(j, e, c, next)
  PROVE  FinishType'
<1>1. /\ state' \in [JobId -> {"none", "pending", "tasked", "complete"}]
      /\ errored' \in [JobId -> BOOLEAN] /\ cancelled' \in [JobId -> BOOLEAN]
  BY DEF FinishJob, TypeOK
<1>2. RemoveLocks(j)
  BY DEF FinishJob
<1>3. /\ phase' = "hooks" /\ current' = j /\ resume' = next
      /\ UNCHANGED <<last_id, spec, wait_for>>
  BY DEF FinishJob
<1>4. current' \in 0..MaxJobs
  BY SMT, <1>3, Bounds DEF JobId
<1>5. /\ last_id' \in 0..MaxJobs /\ spec' \in [JobId -> JobSpecs]
      /\ wait_for' \in [JobId -> SUBSET JobId]
  BY <1>3 DEF TypeOK
<1> QED  BY <1>1, <1>2, <1>3, <1>4, <1>5, RemoveLocksType DEF FinishType

(* Applying a report keeps states and attributes in their types.           *)
LEMMA ApplyType ==
  ASSUME TypeOK, NEW n \in Notification, Apply(n)
  PROVE  /\ item_state' \in [Items -> States]
         /\ attr' \in [Items -> 0..MaxNotifications]
<1>1. /\ n.item \in Items /\ n.seq \in 0..MaxNotifications
      /\ n.to # NoState => n.to \in States
  BY SMT, Bounds DEF Notification
<1>2. item_state' \in [Items -> States]
  <2>1. item_state' = IF n.to # NoState
                      THEN [item_state EXCEPT ![n.item] = n.to] ELSE item_state
    BY DEF Apply
  <2> QED  BY <1>1, <2>1 DEF TypeOK
<1>3. attr' \in [Items -> 0..MaxNotifications]
  <2>1. attr' = IF n.to = NoState
                THEN [attr EXCEPT ![n.item] = n.seq] ELSE attr
    BY DEF Apply
  <2> QED  BY <1>1, <2>1 DEF TypeOK
<1> QED  BY <1>2, <1>3

(* What the threads put on the JobProgress queue are messages.             *)
LEMMA Messages ==
  /\ AdvanceMsg \in Message
  /\ \A j \in JobId : /\ CompleteMsg(j, TRUE) \in Message
                       /\ CompleteMsg(j, FALSE) \in Message
  BY DEF Message, CompleteMsg

(* A queue of messages stays one when a message is put on it.              *)
LEMMA AppendMessage ==
  ASSUME TypeOK
  PROVE  /\ progress \in Seq(Message)
         /\ \A m \in Message : Append(progress, m) \in Seq(Message)
<1>1. progress \in Seq(Message)
  BY DEF TypeOK
<1> QED  BY SMT, <1>1

(* A new command stays within the bound on commands.                       *)
LEMMA NewCommandType ==
  ASSUME TypeOK, NEW c, NewCommand(c)
  PROVE  last_command' \in 0..MaxCommands
  BY SMT, Bounds DEF NewCommand, TypeOK

(* A completion hook keeps rows, commands and locks in type.               *)
LEMMA HookType ==
  ASSUME TypeOK, NEW i, NoHook \/ HookInNewCommand(i)
  PROVE  PlanType'
<1>1. CASE NoHook
  BY <1>1 DEF NoHook, TypeOK, PlanType, jobVars, lockVars
<1>2. CASE HookInNewCommand(i)
  <2>1. PICK c \in CommandId : NewCommand(c) /\ RunHook(i, c)
    BY <1>2 DEF HookInNewCommand
  <2>2. AddJobs(HookPlan, c)
    BY <2>1 DEF RunHook
  <2> QED  BY <2>1, <2>2, AddJobsType, HookPlanWellFormed, NewCommandType
           DEF PlanType
<1> QED  BY <1>1, <1>2

(* Every step keeps every variable in its type.                            *)
LEMMA TypeStep ==
  ASSUME TypeOK, [Next]_vars,
         fetched => progress # <<>> /\ Head(progress).op = "complete_job"
  PROVE  TypeOK'
<1> USE Bounds
<1>1. ASSUME NEW r \in Requests, SubmitCommand(r) PROVE TypeOK'
  <2> DEFINE p == PlanFor(r, item_state, Expected)
  <2>1. PICK c \in CommandId : NewCommand(c) /\ AddJobs(p, c)
    BY <1>1 DEF SubmitCommand
  <2>2. /\ progress' = Append(progress, AdvanceMsg)
        /\ UNCHANGED <<command, runVars, fetched, objVars, noteVars, ctlVars,
                       sysVars>>
    BY <1>1 DEF SubmitCommand
  <2>3. PlanType'
    <3> HIDE DEF p
    <3>1. WellFormed(p)
      BY PlanWellFormed DEF p
    <3> QED  BY <2>1, <3>1, AddJobsType, NewCommandType DEF PlanType
  <2>4. progress' \in Seq(Message)
    BY SMT, <2>2 DEF TypeOK, Message
  <2> QED  BY <2>2, <2>3, <2>4
           DEF TypeOK, PlanType, runVars, objVars, noteVars, ctlVars, sysVars
<1>2. ASSUME NEW r \in Reports, AgentReport(r) PROVE TypeOK'
  <2>1. [item |-> r.item, to |-> r.to, from |-> r.from, seq |-> nsent + 1,
         stale |-> FALSE, holders |-> writers[r.item]] \in Notification
    BY SMTT(30), <1>2, ReportsAssumption DEF AgentReport, Report, Notification, TypeOK
  <2> QED  BY SMTT(30), <1>2, <2>1 DEF AgentReport, TypeOK, jobVars, cmdVars, lockVars,
                             runVars, objVars, ctlVars, sysVars
<1>3. ASSUME NEW j \in JobId, CancelJob(j) PROVE TypeOK'
  <2>1. progress' \in Seq(Message) /\ cancel_event' \subseteq JobId
    <3>1. progress' = progress \/ progress' = Append(progress, AdvanceMsg)
      BY <1>3 DEF CancelJob, StopOrAdvance
    <3>2. cancel_event' = cancel_event \/ cancel_event' = cancel_event \cup {j}
      BY <1>3 DEF CancelJob, StopOrAdvance
    <3>3. progress' \in Seq(Message)
      BY <3>1, Messages, AppendMessage
    <3> QED  BY <3>2, <3>3 DEF TypeOK
  <2>2. UpdateCommands(j) /\ RemoveLocks(j)
    BY <1>3 DEF CancelJob
  <2> QED  BY <1>3, <2>1, <2>2, UpdateCommandsType, RemoveLocksType
           DEF CancelJob, TypeOK, objVars, noteVars, ctlVars, sysVars
<1>4. ASSUME NEW j \in JobId, ThreadAction(j) PROVE TypeOK'
  <2>1. \/ progress' = progress
        \/ \E m \in Message : progress' = Append(progress, m)
    BY <1>4, Messages DEF ThreadAction, ThreadFinishes, ThreadReports,
                          ThreadFails, ThreadCancelled
  <2>2. progress' \in Seq(Message)
    BY <2>1, AppendMessage
  <2>3. PICK from, to \in {"none", "running", "finished", "ended"} :
          ThreadStep(j, from, to)
    BY <1>4 DEF ThreadAction, ThreadFinishes, ThreadReports, ThreadFails,
                ThreadCancelled
  <2> QED  BY <2>2, <2>3 DEF ThreadStep, TypeOK, jobVars, cmdVars, lockVars,
                             objVars, noteVars, ctlVars, sysVars
<1>5. CASE Advance
  BY SMT, <1>5 DEF Advance, NextMsg, TypeOK, jobVars, cmdVars, lockVars, runVars,
              objVars, noteVars, sysVars
<1>6. CASE FetchJob
  BY <1>6 DEF FetchJob, TypeOK, jobVars, cmdVars, lockVars, runVars, objVars,
              noteVars, ctlVars
<1>7. CASE CompleteJob
  <2> DEFINE j == Head(progress).job
  <2>1. PICK failed \in BOOLEAN :
          /\ OnSuccess(j, failed)
          /\ IF StillTasked(j)
             THEN /\ FinishJob(j, failed, FALSE, "drain")
                  /\ holder' = "progress"
             ELSE UNCHANGED <<jobVars, lockVars, phase, holder, current, resume>>
    BY <1>7 DEF CompleteJob
  <2>2. /\ fetched /\ progress' = Tail(progress) /\ fetched' = FALSE
        /\ UNCHANGED <<cmdVars, jobs, runVars, ok_jobs, cancel_jobs, again,
                       sysVars>>
    BY <1>7 DEF CompleteJob
  <2>3. Head(progress) \in Message /\ progress' \in Seq(Message)
    BY SMTT(30), <2>2 DEF TypeOK
  <2>4. j \in JobId
    BY SMT, <2>2, <2>3 DEF Message, AdvanceMsg
  <2> HIDE DEF j
  <2>5. /\ nqueue' \in Seq(Notification)
        /\ UNCHANGED <<attr, nsent, buffer>>
    BY <2>1, MarkStaleType DEF OnSuccess, TypeOK
  <2>6. item_state' \in [Items -> States]
    <3>1. spec[j].new \in States
      BY SMT, <2>4, SpecsAssumption DEF TypeOK, JobSpec
    <3> QED  BY <2>1, <3>1 DEF OnSuccess, TypeOK
  <2>7. CASE StillTasked(j)
    <3>1. FinishType'
      BY <2>1, <2>4, <2>7, FinishJobType
    <3> QED  BY <2>1, <2>2, <2>3, <2>5, <2>6, <2>7, <3>1
             DEF FinishType, TypeOK, cmdVars, runVars, sysVars
  <2>8. CASE ~StillTasked(j)
    BY <2>1, <2>2, <2>3, <2>5, <2>6, <2>8
       DEF TypeOK, jobVars, lockVars, cmdVars, runVars, sysVars
  <2> QED  BY <2>7, <2>8
<1>8. CASE CompletionHooks
  <2>1. /\ UpdateCommands(current)
        /\ phase' = resume /\ current' = 0
        /\ UNCHANGED <<runVars, progress, fetched, objVars, noteVars, holder,
                       resume, ok_jobs, cancel_jobs, again, sysVars>>
    BY <1>8 DEF CompletionHooks
  <2>2. PlanType'
    <3>1. CASE NoHook
      BY <3>1, HookType
    <3>2. ASSUME NEW i, HookInNewCommand(i) PROVE PlanType'
      BY <3>2, HookType
    <3>3. ASSUME NEW i, NEW c \in OpenCommands(current),
                 RunHook(i, c), UNCHANGED last_command
          PROVE  PlanType'
      <4>1. c \in CommandId
        BY DEF OpenCommands
      <4>2. AddJobs(HookPlan, c)
        BY <3>3 DEF RunHook
      <4>3. last_command' \in 0..MaxCommands
        BY <3>3 DEF TypeOK
      <4> QED  BY <4>1, <4>2, <4>3, AddJobsType, HookPlanWellFormed
               DEF PlanType
    <3> QED  BY <1>8, <3>1, <3>2, <3>3 DEF CompletionHooks
  <2> QED  BY SMTT(30), <2>1, <2>2, UpdateCommandsType
           DEF TypeOK, PlanType, runVars, objVars, noteVars, sysVars
<1>9. CASE Notify
  <2> DEFINE n == Head(nqueue)
  <2>1. nqueue # <<>> /\ n \in Notification /\ Tail(nqueue) \in Seq(Notification)
    <3>1. nqueue # <<>> /\ nqueue \in Seq(Notification)
      BY <1>9 DEF Notify, TypeOK
    <3> QED  BY SMT, <3>1
  <2> HIDE DEF n
  <2>2. /\ phase' = "run_next" /\ holder' = "notify"
        /\ UNCHANGED <<command, runVars, progress, fetched, nsent, current,
                       resume, ok_jobs, cancel_jobs, again, sysVars>>
    BY <1>9 DEF Notify
  <2>3. PlanType'
    <3>1. NoHook \/ HookInNewCommand(n.item)
      BY <1>9 DEF Notify, Apply, n
    <3> QED  BY <3>1, HookType
  <2>4. nqueue' \in Seq(Notification)
    BY <1>9, <2>1, MarkStaleType DEF Notify, n
  <2>5. buffer' \in [Items -> Seq(Notification)]
    <3>1. buffer' = buffer
            \/ buffer' = [buffer EXCEPT ![n.item] = Append(@, n)]
      BY <1>9 DEF Notify, n
    <3>2. n.item \in Items
      BY <2>1 DEF Notification
    <3>3. Append(buffer[n.item], n) \in Seq(Notification)
      BY SMTT(30), <2>1, <3>2 DEF TypeOK
    <3> QED  BY <3>1, <3>2, <3>3 DEF TypeOK
  <2>6. /\ item_state' \in [Items -> States]
        /\ attr' \in [Items -> 0..MaxNotifications]
    <3>1. UNCHANGED objVars \/ Apply(n)
      BY <1>9 DEF Notify, n
    <3> QED  BY <2>1, <3>1, ApplyType DEF objVars, TypeOK
  <2> QED  BY <2>2, <2>3, <2>4, <2>5, <2>6
           DEF TypeOK, PlanType, runVars, sysVars
<1>10. ASSUME NEW i \in Items, DrainItem(i) PROVE TypeOK'
  <2> DEFINE n == DrainLatest(buffer[i])
  <2>1. n \in Notification
    BY SMT, <1>10 DEF DrainItem, DrainLatest, TypeOK
  <2> HIDE DEF n
  <2>2. /\ buffer' = [buffer EXCEPT ![i] = <<>>]
        /\ UNCHANGED <<command, runVars, progress, fetched, nqueue, nsent,
                       ctlVars, sysVars>>
    BY <1>10 DEF DrainItem
  <2>3. Apply(n) \/ (NoHook /\ UNCHANGED objVars)
    BY <1>10 DEF DrainItem, n
  <2>4. PlanType'
    BY <2>3, HookType DEF Apply
  <2>5. /\ item_state' \in [Items -> States]
        /\ attr' \in [Items -> 0..MaxNotifications]
    BY <2>1, <2>3, ApplyType DEF objVars, TypeOK
  <2>6. buffer' \in [Items -> Seq(Notification)]
    BY SMTT(30), <2>2 DEF TypeOK
  <2> QED  BY <2>2, <2>4, <2>5, <2>6
           DEF TypeOK, PlanType, runVars, ctlVars, sysVars
<1>11. CASE DrainDone
  BY <1>11 DEF DrainDone, TypeOK, jobVars, cmdVars, lockVars, runVars, objVars,
               noteVars, sysVars
<1>12. CASE CheckJobs
  <2>1. Ready \subseteq JobId
    BY DEF Ready, InState, TypeOK
  <2> QED  BY <1>12, <2>1 DEF CheckJobs, GoTo, TypeOK, jobVars, cmdVars,
                              lockVars, runVars, objVars, noteVars, sysVars
<1>13. ASSUME NEW j \in JobId, CancelFailed(j) PROVE TypeOK'
  <2>1. FinishJob(j, FALSE, TRUE, "cancelling")
    BY <1>13 DEF CancelFailed
  <2>2. FinishType'
    BY <2>1, FinishJobType
  <2> QED  BY <1>13, <2>2 DEF CancelFailed, FinishType, TypeOK, cmdVars,
                              runVars, objVars, noteVars, sysVars
<1>14. CASE TaskJobs
  BY <1>14 DEF TaskJobs, GoTo, AfterSpawning, TypeOK, cmdVars, lockVars,
               runVars, objVars, noteVars, sysVars
<1>15. ASSUME NEW j \in JobId, SpawnJob(j) PROVE TypeOK'
  <2>1. /\ progress' \in Seq(Message)
        /\ thread' \in [JobId -> {"none", "running", "finished", "ended"}]
    <3>1. CASE spec[j].steps
      BY <1>15, <3>1 DEF SpawnJob, TypeOK
    <3>2. CASE ~spec[j].steps
      <4>1. progress' = Append(progress, CompleteMsg(j, FALSE)) /\ thread' = thread
        BY <1>15, <3>2 DEF SpawnJob
      <4>2. progress' \in Seq(Message)
        BY <4>1, Messages, AppendMessage
      <4> QED  BY <4>1, <4>2 DEF TypeOK
    <3> QED  BY <3>1, <3>2
  <2>2. /\ phase' \in {"free", "run_next", "spawning"}
        /\ holder' \in {"none", "progress", "notify"}
        /\ ok_jobs' \subseteq JobId
    BY <1>15 DEF SpawnJob, GoTo, AfterSpawning, TypeOK
  <2>3. UNCHANGED <<jobVars, cmdVars, jobs, lockVars, cancel_event, fetched,
                    objVars, noteVars, current, resume, cancel_jobs, again,
                    sysVars>>
    BY <1>15 DEF SpawnJob
  <2> QED  BY <2>1, <2>2, <2>3 DEF TypeOK, jobVars, cmdVars, lockVars, objVars,
                                   noteVars, sysVars
<1>16. CASE Restart
  <2>1. /\ state' \in [JobId -> {"none", "pending", "tasked", "complete"}]
        /\ cancelled' \in [JobId -> BOOLEAN]
        /\ thread' \in [JobId -> {"none", "running", "finished", "ended"}]
    BY <1>16 DEF Restart, TypeOK
  <2>2. command' \in [CommandId -> [complete : BOOLEAN, errored : BOOLEAN,
                                    cancelled : BOOLEAN]]
    BY <1>16 DEF Restart, TypeOK
  <2>3. /\ up' \in BOOLEAN /\ restarts' \in 0..MaxRestarts
        /\ current' \in 0..MaxJobs
    BY SMTT(30), <1>16, Bounds DEF Restart, TypeOK
  <2>4. /\ progress' \in Seq(Message) /\ nqueue' \in Seq(Notification)
        /\ buffer' \in [Items -> Seq(Notification)]
    <3>1. \A S : <<>> \in Seq(S)
      BY SMT
    <3> QED  BY <1>16, <3>1 DEF Restart
  <2>5. /\ writers' \in [Items -> SUBSET JobId]
        /\ readers' \in [Items -> SUBSET JobId]
        /\ jobs' = {} /\ cancel_event' = {} /\ ok_jobs' = {}
        /\ cancel_jobs' = {} /\ fetched' = FALSE /\ again' = FALSE
        /\ phase' = "free" /\ holder' = "none" /\ resume' = "drain"
    BY <1>16 DEF Restart
  <2>6. UNCHANGED <<last_id, spec, errored, wait_for, last_command,
                    command_to_jobs, objVars, nsent>>
    BY <1>16 DEF Restart
  <2> QED  BY <2>1, <2>2, <2>3, <2>4, <2>5, <2>6 DEF TypeOK, objVars
<1>17. CASE UNCHANGED vars
  BY <1>17 DEF vars, TypeOK, jobVars, cmdVars, lockVars, runVars, objVars,
               noteVars, ctlVars, sysVars
<1> QED
  BY <1>1, <1>2, <1>3, <1>4, <1>5, <1>6, <1>7, <1>8, <1>9, <1>10, <1>11,
     <1>12, <1>13, <1>14, <1>15, <1>16, <1>17
     DEF Next, ProgressAction, LockHolder

-----------------------------------------------------------------------------
(* The lock discipline *)

(* What a step can do to job rows, locks and threads.                      *)
RowVars == <<last_id, spec, state, cancelled, wait_for, writers, readers>>

ThreadMove ==
  /\ UNCHANGED RowVars
  /\ \/ UNCHANGED thread
     \/ \E j \in JobId : /\ state[j] = "tasked"
                         /\ thread' = [thread EXCEPT ![j] = "running"]
     \/ \E j \in JobId : /\ thread[j] \in {"running", "finished"}
                         /\ \/ thread' = [thread EXCEPT ![j] = "finished"]
                            \/ thread' = [thread EXCEPT ![j] = "ended"]

PlanStep == /\ \E p : \E c \in CommandId : WellFormed(p) /\ AddJobs(p, c)
            /\ UNCHANGED thread

EndJob(j, cancel) ==
  /\ Incomplete(j)
  /\ cancel \/ (state[j] = "tasked" /\ thread[j] \in {"none", "ended"})
  /\ state' = [state EXCEPT ![j] = "complete"]
  /\ cancelled' = [cancelled EXCEPT ![j] = cancel]
  /\ RemoveLocks(j)
  /\ UNCHANGED <<last_id, spec, wait_for, thread>>

EndStep == \E j \in JobId : \E cancel \in BOOLEAN : EndJob(j, cancel)

-----------------------------------------------------------------------------
(* Planning *)

WritersBefore(k) ==
  [i \in Items |-> {m \in JobId : m < k /\ Incomplete(m) /\ i \in Writes(spec[m])}]
ReadersBefore(k) ==
  [i \in Items |-> {m \in JobId : m < k /\ Incomplete(m) /\ i \in Reads(spec[m])}]

(* The locks a new job k finds are those of the incomplete jobs before it. *)
LEMMA LocksFound ==
  ASSUME TypeOK, LocksMatchJobs, RowsAgree, NEW n \in Nat,
         last_id + n <= MaxJobs, NEW sp \in [JobId -> JobSpecs],
         NEW st \in [JobId -> {"none", "pending", "tasked", "complete"}],
         \A k \in JobId : k <= last_id => sp[k] = spec[k] /\ st[k] = state[k],
         \A k \in last_id + 1 .. last_id + n : st[k] = "pending",
         NEW k \in last_id + 1 .. last_id + n + 1, NEW i \in Items
  PROVE  /\ writers[i] \cup {m \in last_id + 1 .. last_id + n :
                               m < k /\ i \in Writes(sp[m])}
              = {m \in JobId : /\ m < k /\ st[m] \in {"pending", "tasked"}
                               /\ i \in Writes(sp[m])}
         /\ readers[i] \cup {m \in last_id + 1 .. last_id + n :
                               m < k /\ i \in Reads(sp[m])}
              = {m \in JobId : /\ m < k /\ st[m] \in {"pending", "tasked"}
                               /\ i \in Reads(sp[m])}
<1>1. last_id \in Nat /\ JobId = 1..MaxJobs /\ MaxJobs \in Nat
  BY SMTT(30), Bounds DEF TypeOK, JobId
<1>2. \A m \in JobId : Incomplete(m) => m <= last_id
  BY SMT, <1>1 DEF RowsAgree, Incomplete, TypeOK
<1>3. \A m \in JobId :
        /\ m \in writers[i] <=> Incomplete(m) /\ i \in Writes(spec[m])
        /\ m \in readers[i] <=> Incomplete(m) /\ i \in Reads(spec[m])
  BY DEF LocksMatchJobs
<1>4. writers[i] \subseteq JobId /\ readers[i] \subseteq JobId
  BY DEF TypeOK
<1>5. \A m \in JobId : m <= last_id =>
        (st[m] \in {"pending", "tasked"} <=> Incomplete(m))
  BY DEF Incomplete
<1>6. \A m \in JobId : m < k => \/ m <= last_id
                                \/ m \in last_id + 1 .. last_id + n
  BY SMT, <1>1
<1>7. last_id + 1 .. last_id + n \subseteq JobId
  BY SMT, <1>1
<1> QED  BY SMT, <1>1, <1>2, <1>3, <1>4, <1>5, <1>6, <1>7

(* What AddJobs does to rows and locks.                                    *)
LEMMA PlanFacts ==
  ASSUME TypeOK, LocksMatchJobs, RowsAgree, NEW p, WellFormed(p),
         NEW c \in CommandId, AddJobs(p, c)
  PROVE  /\ last_id <= last_id' /\ last_id' <= MaxJobs
         /\ cancelled' = cancelled
         /\ \A k \in JobId : k <= last_id \/ k > last_id' =>
              /\ spec'[k] = spec[k] /\ state'[k] = state[k]
              /\ wait_for'[k] = wait_for[k]
         /\ \A k \in JobId : k > last_id /\ k <= last_id' =>
              /\ state'[k] = "pending"
              /\ \E after : /\ wait_for'[k] =
                                 CreateDependencies(spec'[k], WritersBefore(k)',
                                                    ReadersBefore(k)') \cup after
                            /\ \A m \in after : m \in Nat /\ m < k
         /\ LocksMatchJobs'
<1> DEFINE N == Len(p.specs)
           new == last_id + 1 .. last_id + N
           WA(k) == [i \in Items |-> writers[i] \cup
                       {m \in new : m < k /\ i \in Writes(spec'[m])}]
           RA(k) == [i \in Items |-> readers[i] \cup
                       {m \in new : m < k /\ i \in Reads(spec'[m])}]
<1>1. /\ last_id + N <= MaxJobs /\ last_id' = last_id + N
      /\ spec' = [k \in JobId |-> IF k \in new THEN p.specs[k - last_id]
                                               ELSE spec[k]]
      /\ state' = [k \in JobId |-> IF k \in new THEN "pending" ELSE state[k]]
      /\ cancelled' = cancelled
  BY DEF AddJobs
<1>2. /\ wait_for' = [k \in JobId |->
             IF k \in new
             THEN CreateDependencies(spec'[k], WA(k), RA(k))
                    \cup {last_id + x : x \in p.after[k - last_id]}
             ELSE wait_for[k]]
      /\ writers' = WA(last_id + N + 1)
      /\ readers' = RA(last_id + N + 1)
  BY DEF AddJobs
<1>3. /\ N \in Nat /\ DOMAIN p.after = 1..N
      /\ p.after \in Seq(SUBSET JobId)
      /\ \A x \in DOMAIN p.after : \A y \in p.after[x] : y < x
  BY SMT DEF WellFormed, Plan
<1>4. last_id \in Nat /\ JobId = 1..MaxJobs /\ MaxJobs \in Nat
  BY SMT, Bounds DEF TypeOK, JobId
<1>5. /\ spec' \in [JobId -> JobSpecs]
      /\ state' \in [JobId -> {"none", "pending", "tasked", "complete"}]
  BY AddJobsType
<1>6. \A k \in JobId : k <= last_id \/ k > last_id' =>
        /\ spec'[k] = spec[k] /\ state'[k] = state[k]
        /\ wait_for'[k] = wait_for[k]
  BY SMTT(30), <1>1, <1>2, <1>3, <1>4
<1>7. \A k \in new : k \in JobId /\ state'[k] = "pending"
  BY SMT, <1>1, <1>3, <1>4
<1>8. \A k \in last_id + 1 .. last_id + N + 1 :
        WA(k) = WritersBefore(k)' /\ RA(k) = ReadersBefore(k)'
  <2> SUFFICES ASSUME NEW k \in last_id + 1 .. last_id + N + 1
               PROVE  WA(k) = WritersBefore(k)' /\ RA(k) = ReadersBefore(k)'
    OBVIOUS
  <2>1. ASSUME NEW i \in Items
        PROVE
          /\ writers[i] \cup {m \in new : m < k /\ i \in Writes(spec'[m])}
               = {m \in JobId : /\ m < k /\ state'[m] \in {"pending", "tasked"}
                                /\ i \in Writes(spec'[m])}
          /\ readers[i] \cup {m \in new : m < k /\ i \in Reads(spec'[m])}
               = {m \in JobId : /\ m < k /\ state'[m] \in {"pending", "tasked"}
                                /\ i \in Reads(spec'[m])}
    <3>1. \A m \in JobId : m <= last_id => spec'[m] = spec[m]
                                           /\ state'[m] = state[m]
      BY <1>6
    <3>2. \A m \in new : state'[m] = "pending"
      BY <1>7
    <3>3. N \in Nat /\ last_id + N <= MaxJobs
      BY <1>1, <1>3
    <3> HIDE DEF N
    <3> QED  BY SMTT(30), <3>1, <3>2, <3>3, <1>5, LocksFound
  <2> QED  BY <2>1 DEF WritersBefore, ReadersBefore, Incomplete
<1> HIDE DEF WA, RA
<1>9. \A k \in new :
        \E after : /\ wait_for'[k] =
                        CreateDependencies(spec'[k], WritersBefore(k)',
                                           ReadersBefore(k)') \cup after
                   /\ \A m \in after : m \in Nat /\ m < k
  <2> SUFFICES ASSUME NEW k \in new
               PROVE  \E after :
                        /\ wait_for'[k] =
                             CreateDependencies(spec'[k], WritersBefore(k)',
                                                ReadersBefore(k)') \cup after
                        /\ \A m \in after : m \in Nat /\ m < k
    OBVIOUS
  <2>1. k \in last_id + 1 .. last_id + N + 1 /\ k \in JobId
    BY SMTT(30), <1>3, <1>4, <1>7
  <2>2. wait_for'[k] = CreateDependencies(spec'[k], WA(k), RA(k))
                         \cup {last_id + x : x \in p.after[k - last_id]}
    BY <1>2, <2>1
  <2>3. \A x \in p.after[k - last_id] : x \in Nat /\ x < k - last_id
    BY SMTT(30), <1>3, <1>4
  <2>4. \A m \in {last_id + x : x \in p.after[k - last_id]} : m \in Nat /\ m < k
    BY SMT, <2>3, <1>4, <1>3
  <2> QED  BY <2>1, <2>2, <2>4, <1>8
<1>10. LocksMatchJobs'
  <2>1. PICK top \in last_id + 1 .. last_id + N + 1 : top = last_id + N + 1
    BY SMTT(30), <1>3, <1>4
  <2>2. \A m \in JobId : Incomplete(m)' => m < top
    BY SMTT(30), <1>1, <1>3, <1>4, <1>6, <2>1 DEF Incomplete, RowsAgree
  <2>3. writers' = WritersBefore(top)' /\ readers' = ReadersBefore(top)'
    BY <1>2, <1>8, <2>1
  <2> QED  BY <2>2, <2>3 DEF LocksMatchJobs, WritersBefore, ReadersBefore
<1>11. \A k \in JobId : k > last_id /\ k <= last_id' => k \in new
  BY SMTT(30), <1>1, <1>3, <1>4
<1>12. last_id <= last_id' /\ last_id' <= MaxJobs
  BY SMTT(30), <1>1, <1>3, <1>4
<1> HIDE DEF new
<1> QED  BY <1>1, <1>6, <1>7, <1>9, <1>10, <1>11, <1>12

(* Locks are on items.                                                     *)
LEMMA LocksAreOnItems ==
  ASSUME NEW sp \in JobSpecs
  PROVE  Writes(sp) \subseteq Items /\ Reads(sp) \subseteq Items
  BY SMT, SpecsAssumption, DepsAssumption
     DEF Writes, Reads, JobSpec, IsStateChange, Dependency

(* _create_dependencies makes a job wait for earlier jobs only.            *)
LEMMA WaitsForEarlier ==
  ASSUME NEW k \in JobId, NEW sp \in JobSpecs,
         NEW ws \in [Items -> SUBSET JobId], NEW rs \in [Items -> SUBSET JobId],
         \A i \in Items : \A m \in ws[i] \cup rs[i] : m < k,
         NEW m \in CreateDependencies(sp, ws, rs)
  PROVE  m \in JobId /\ m < k
<1>1. \A i \in Items : LatestWrite(ws[i]) \in ws[i] \cup {0}
  BY LatestWriteIsLatest
<1>2. m # 0 /\ \E i \in Items : m = LatestWrite(ws[i]) \/ m \in rs[i]
  BY SMT, WaitsFor, LocksAreOnItems
<1> QED  BY <1>1, <1>2

(* It waits for each of them it conflicts with, or for a writer after it.  *)
LEMMA WaitsForConflicting ==
  ASSUME NEW sp \in JobSpecs,
         NEW ws \in [Items -> SUBSET JobId], NEW rs \in [Items -> SUBSET JobId],
         NEW i \in Items, NEW j \in JobId,
         \/ j \in ws[i] /\ i \in Writes(sp) \cup Reads(sp)
         \/ j \in rs[i] /\ i \in Writes(sp)
  PROVE  \/ j \in CreateDependencies(sp, ws, rs)
         \/ \E w \in CreateDependencies(sp, ws, rs) : w \in ws[i] /\ j < w
<1> DEFINE late == LatestWrite(ws[i])
<1>1. late \in ws[i] \cup {0} /\ \A w \in ws[i] : w <= late
  BY LatestWriteIsLatest
<1>2. j \in Nat /\ j # 0 /\ late \in Nat
  BY SMT, <1>1, Bounds DEF JobId
<1> HIDE DEF late
<1>3. late # 0 => late \in ws[i]
  BY <1>1
<1>4. i \in Writes(sp) \cup Reads(sp) /\ late # 0
        => late \in CreateDependencies(sp, ws, rs)
  BY WaitsFor DEF late
<1>5. CASE late > j
  BY SMTT(30), <1>2, <1>3, <1>4, <1>5
<1>6. CASE ~(late > j) /\ j \in ws[i] /\ i \in Writes(sp) \cup Reads(sp)
  <2>1. late = j
    BY SMTT(30), <1>1, <1>2, <1>6
  <2> QED  BY <1>2, <1>4, <1>6, <2>1
<1>7. CASE ~(late > j) /\ j \in rs[i] /\ i \in Writes(sp)
  <2>1. late <= j
    BY SMTT(30), <1>2, <1>7
  <2> QED  BY <1>2, <1>7, <2>1, WaitsFor DEF late
<1> QED  BY <1>5, <1>6, <1>7

(* Planning keeps the rows in agreement and makes the new jobs wait.       *)
LEMMA PlanKeeps ==
  ASSUME TypeOK, TypeOK', LocksMatchJobs, RowsAgree, WaitsForConflicts,
         OvertakesAfterCancel, PlanStep
  PROVE  LocksMatchJobs' /\ RowsAgree' /\ WaitsForConflicts'
           /\ OvertakesAfterCancel'
<1>0. PICK p : \E c \in CommandId : WellFormed(p) /\ AddJobs(p, c)
  BY DEF PlanStep
<1>1. PICK c \in CommandId : WellFormed(p) /\ AddJobs(p, c)
  BY <1>0
<1>2. /\ last_id <= last_id' /\ last_id' <= MaxJobs
      /\ cancelled' = cancelled
      /\ \A k \in JobId : k <= last_id \/ k > last_id' =>
           /\ spec'[k] = spec[k] /\ state'[k] = state[k]
           /\ wait_for'[k] = wait_for[k]
      /\ \A k \in JobId : k > last_id /\ k <= last_id' =>
           /\ state'[k] = "pending"
           /\ \E after : /\ wait_for'[k] =
                              CreateDependencies(spec'[k], WritersBefore(k)',
                                                 ReadersBefore(k)') \cup after
                         /\ \A m \in after : m \in Nat /\ m < k
      /\ LocksMatchJobs'
  BY <1>1, PlanFacts
<1>3. /\ last_id \in Nat /\ last_id' \in Nat
      /\ JobId = 1..MaxJobs /\ MaxJobs \in Nat
      /\ thread' = thread
  BY SMTT(30), Bounds DEF TypeOK, JobId, PlanStep
<1>4. ASSUME NEW k \in JobId, k > last_id, k <= last_id'
      PROVE  /\ \A m \in wait_for'[k] : m < k
             /\ \A j \in JobId : \A i \in Items :
                  j < k /\ Incomplete(j)' /\ Conflict(i, spec'[j], spec'[k])
                    => \/ j \in wait_for'[k]
                       \/ \E w \in wait_for'[k] : j < w /\ i \in Writes(spec'[w])
  <2> DEFINE ws == WritersBefore(k)'
             rs == ReadersBefore(k)'
  <2>1. PICK after : /\ wait_for'[k] = CreateDependencies(spec'[k], ws, rs)
                                         \cup after
                     /\ \A m \in after : m \in Nat /\ m < k
    BY <1>2, <1>4
  <2>2. ws \in [Items -> SUBSET JobId] /\ rs \in [Items -> SUBSET JobId]
    BY DEF WritersBefore, ReadersBefore
  <2>3. \A i \in Items : \A m \in ws[i] \cup rs[i] : m < k
    BY DEF WritersBefore, ReadersBefore
  <2>4. \A i \in Items, m \in JobId :
          /\ m \in ws[i] <=> m < k /\ Incomplete(m)' /\ i \in Writes(spec'[m])
          /\ m \in rs[i] <=> m < k /\ Incomplete(m)' /\ i \in Reads(spec'[m])
    BY DEF WritersBefore, ReadersBefore
  <2>5. spec'[k] \in JobSpecs
    BY DEF TypeOK
  <2> HIDE DEF ws, rs
  <2>6. \A m \in CreateDependencies(spec'[k], ws, rs) : m \in JobId /\ m < k
    BY <2>2, <2>3, <2>5, WaitsForEarlier
  <2>7. ASSUME NEW j \in JobId, NEW i \in Items, j < k, Incomplete(j)',
               Conflict(i, spec'[j], spec'[k])
        PROVE  \/ j \in wait_for'[k]
               \/ \E w \in wait_for'[k] : j < w /\ i \in Writes(spec'[w])
    <3>1. \/ j \in ws[i] /\ i \in Writes(spec'[k]) \cup Reads(spec'[k])
          \/ j \in rs[i] /\ i \in Writes(spec'[k])
      BY <2>4, <2>7 DEF Conflict
    <3>2. \/ j \in CreateDependencies(spec'[k], ws, rs)
          \/ \E w \in CreateDependencies(spec'[k], ws, rs) :
                w \in ws[i] /\ j < w
      BY <3>1, <2>2, <2>5, WaitsForConflicting
    <3> QED  BY <3>2, <2>1, <2>4, <2>6
  <2> QED  BY <2>1, <2>6, <2>7
<1>5. RowsAgree'
  <2>1. \A j \in JobId : state'[j] = "none" <=> j > last_id'
    BY SMTT(30), <1>2, <1>3 DEF RowsAgree
  <2>2. \A j \in JobId : state'[j] # "complete" => ~cancelled'[j]
    BY SMTT(30), <1>2, <1>3 DEF RowsAgree
  <2>3. \A j \in JobId : /\ state'[j] \in {"none", "pending"} => thread'[j] = "none"
                         /\ thread'[j] \in {"running", "finished"}
                               => state'[j] = "tasked" \/ cancelled'[j]
    BY SMTT(30), <1>2, <1>3 DEF RowsAgree
  <2>4. \A k \in JobId : \A m \in wait_for'[k] : m < k
    BY SMTT(30), <1>2, <1>3, <1>4 DEF RowsAgree
  <2> QED  BY <2>1, <2>2, <2>3, <2>4 DEF RowsAgree
<1>6. WaitsForConflicts'
  <2> SUFFICES ASSUME NEW j \in JobId, NEW k \in JobId, NEW i \in Items, j < k,
                      Incomplete(j)', state'[k] # "none",
                      Conflict(i, spec'[j], spec'[k])
               PROVE  \/ j \in wait_for'[k]
                      \/ \E w \in wait_for'[k] : j < w /\ i \in Writes(spec'[w])
    BY DEF WaitsForConflicts, Conflict
  <2>1. CASE k > last_id
    <3>1. k <= last_id'
      BY SMTT(30), <1>2, <1>3, <1>5 DEF RowsAgree
    <3> QED  BY <1>4, <2>1, <3>1
  <2>2. CASE ~(k > last_id)
    <3>1. k <= last_id /\ j <= last_id
      BY SMTT(30), <1>3, <2>2
    <3>2. /\ Incomplete(j) /\ state[k] # "none" /\ Conflict(i, spec[j], spec[k])
          /\ wait_for'[k] = wait_for[k]
      BY <1>2, <3>1 DEF Incomplete
    <3>3. \/ j \in wait_for[k]
          \/ \E w \in wait_for[k] : j < w /\ i \in Writes(spec[w])
      BY <3>2 DEF WaitsForConflicts
    <3>4. \A w \in wait_for[k] : w \in JobId /\ w <= last_id
      <4>1. \A w \in wait_for[k] : w \in JobId /\ w < k
        BY DEF RowsAgree, TypeOK
      <4> QED  BY SMTT(30), <1>3, <3>1, <4>1
    <3> QED  BY <1>2, <3>2, <3>3, <3>4
  <2> QED  BY <2>1, <2>2
<1>7. OvertakesAfterCancel'
  <2> SUFFICES ASSUME NEW j \in JobId, NEW k \in JobId, NEW i \in Items, j < k,
                      Incomplete(j)', state'[k] \in {"tasked", "complete"},
                      Conflict(i, spec'[j], spec'[k])
               PROVE  \/ cancelled'[k] /\ thread'[k] = "none"
                      \/ \E m \in JobId : j < m /\ m < k /\ cancelled'[m]
                                            /\ i \in Writes(spec'[m])
    BY DEF OvertakesAfterCancel, Conflict
  <2>1. k <= last_id /\ j <= last_id
    BY SMTT(30), <1>2, <1>3, <1>5 DEF RowsAgree
  <2>2. /\ Incomplete(j) /\ state[k] \in {"tasked", "complete"}
        /\ Conflict(i, spec[j], spec[k])
    BY <1>2, <2>1 DEF Incomplete
  <2>3. \/ cancelled[k] /\ thread[k] = "none"
        \/ \E m \in JobId : j < m /\ m < k /\ cancelled[m]
                              /\ i \in Writes(spec[m])
    BY <2>2 DEF OvertakesAfterCancel
  <2>4. \A m \in JobId : m < k => spec'[m] = spec[m]
    BY SMTT(30), <1>2, <1>3, <2>1
  <2> QED  BY <1>2, <1>3, <2>3, <2>4
<1> QED  BY <1>2, <1>5, <1>6, <1>7

-----------------------------------------------------------------------------
(* Starting and ending jobs *)

(* A thread that starts or ends disturbs neither rows nor locks.           *)
LEMMA ThreadMoveKeeps ==
  ASSUME TypeOK, LocksMatchJobs, RowsAgree, WaitsForConflicts,
         OvertakesAfterCancel, ThreadMove
  PROVE  LocksMatchJobs' /\ RowsAgree' /\ WaitsForConflicts'
           /\ OvertakesAfterCancel'
<1>1. /\ UNCHANGED <<last_id, spec, state, cancelled, wait_for, writers,
                     readers>>
      /\ \A j \in JobId :
           \/ thread'[j] = thread[j]
           \/ thread'[j] = "running" /\ state[j] = "tasked"
           \/ thread[j] \in {"running", "finished"}
  BY DEF ThreadMove, RowVars, TypeOK
<1>2. LocksMatchJobs' /\ WaitsForConflicts'
  BY <1>1 DEF LocksMatchJobs, WaitsForConflicts, Incomplete, Conflict
<1>3. \A j \in JobId : thread'[j] \in {"none", "running", "finished", "ended"}
  BY SMT DEF ThreadMove, TypeOK
<1>4. RowsAgree'
  BY <1>1, <1>3 DEF RowsAgree
<1>5. OvertakesAfterCancel'
  <2> SUFFICES ASSUME NEW j \in JobId, NEW k \in JobId, NEW i \in Items, j < k,
                      Incomplete(j), state[k] \in {"tasked", "complete"},
                      Conflict(i, spec[j], spec[k])
               PROVE  \/ cancelled[k] /\ thread'[k] = "none"
                      \/ \E m \in JobId : j < m /\ m < k /\ cancelled[m]
                                            /\ i \in Writes(spec[m])
    BY <1>1 DEF OvertakesAfterCancel, Conflict, Incomplete
  <2>1. cancelled[k] /\ thread[k] = "none" => thread'[k] = "none"
    BY <1>1 DEF RowsAgree
  <2> QED  BY <2>1 DEF OvertakesAfterCancel
<1> QED  BY <1>2, <1>4, <1>5

(* Nor does the end of a job, which takes its own locks with it.           *)
LEMMA EndJobKeeps ==
  ASSUME TypeOK, LocksMatchJobs, RowsAgree, WaitsForConflicts,
         OvertakesAfterCancel, EndStep
  PROVE  LocksMatchJobs' /\ RowsAgree' /\ WaitsForConflicts'
           /\ OvertakesAfterCancel'
<1>1. PICK e \in JobId, cancel \in BOOLEAN : EndJob(e, cancel)
  BY DEF EndStep
<1>2. /\ Incomplete(e) /\ e \in JobId
      /\ cancel \/ (state[e] = "tasked" /\ thread[e] \in {"none", "ended"})
      /\ state'[e] = "complete" /\ cancelled'[e] = cancel
      /\ \A j \in JobId : j # e => /\ state'[j] = state[j]
                                   /\ cancelled'[j] = cancelled[j]
      /\ UNCHANGED <<last_id, spec, wait_for, thread>>
  BY <1>1 DEF EndJob, TypeOK
<1>3. \A j \in JobId : Incomplete(j)' <=> Incomplete(j) /\ j # e
  BY <1>2 DEF Incomplete
<1>4. LocksMatchJobs'
  <2>1. \A i \in Items : /\ writers'[i] = writers[i] \ {e}
                         /\ readers'[i] = readers[i] \ {e}
    BY <1>1 DEF EndJob, RemoveLocks
  <2> QED  BY <1>2, <1>3, <2>1 DEF LocksMatchJobs
<1>5. RowsAgree'
  BY <1>2 DEF RowsAgree, Incomplete
<1>6. WaitsForConflicts'
  BY <1>2, <1>3 DEF WaitsForConflicts, Conflict, Incomplete
<1>7. OvertakesAfterCancel'
  <2> SUFFICES ASSUME NEW j \in JobId, NEW k \in JobId, NEW i \in Items, j < k,
                      Incomplete(j)', state'[k] \in {"tasked", "complete"},
                      Conflict(i, spec[j], spec[k])
               PROVE  \/ cancelled'[k] /\ thread[k] = "none"
                      \/ \E m \in JobId : j < m /\ m < k /\ cancelled'[m]
                                            /\ i \in Writes(spec[m])
    BY <1>2 DEF OvertakesAfterCancel, Conflict
  <2>1. Incomplete(j)
    BY <1>3
  <2>2. \A m \in JobId : cancelled[m] => cancelled'[m]
    BY <1>2 DEF RowsAgree, Incomplete
  <2>3. CASE state[k] \in {"tasked", "complete"}
    BY <2>1, <2>2, <2>3 DEF OvertakesAfterCancel
  <2>4. CASE state[k] \notin {"tasked", "complete"}
    BY <1>2, <2>4 DEF RowsAgree, Incomplete
  <2> QED  BY <2>3, <2>4
<1> QED  BY <1>4, <1>5, <1>6, <1>7

(* The jobs that pass the checks have nobody left to wait for; whoever     *)
(* conflicts with one of them and is not complete was overtaken because a  *)
(* writer between the two was cancelled.                                   *)
LEMMA TaskJobsKeeps ==
  ASSUME TypeOK, LocksMatchJobs, RowsAgree, PassAgrees, WaitsForConflicts,
         OvertakesAfterCancel, TaskJobs
  PROVE  LocksMatchJobs' /\ RowsAgree' /\ WaitsForConflicts'
           /\ OvertakesAfterCancel'
<1>1. /\ \A j \in JobId : state'[j] = IF j \in ok_jobs THEN "tasked" ELSE state[j]
      /\ UNCHANGED <<last_id, spec, cancelled, wait_for, writers, readers,
                     thread>>
  BY DEF TaskJobs, lockVars, runVars
<1>2. /\ ok_jobs \subseteq JobId
      /\ \A j \in ok_jobs : /\ state[j] = "pending"
                            /\ \A m \in wait_for[j] : state[m] = "complete"
  BY DEF TaskJobs, PassAgrees, Checked, TypeOK
<1>3. \A j \in JobId : Incomplete(j)' <=> Incomplete(j)
  BY <1>1, <1>2 DEF Incomplete
<1>4. LocksMatchJobs'
  BY <1>1, <1>3 DEF LocksMatchJobs
<1>5. RowsAgree'
  BY <1>1, <1>2 DEF RowsAgree
<1>6. WaitsForConflicts'
  BY <1>1, <1>2, <1>3 DEF WaitsForConflicts, Conflict
<1>7. OvertakesAfterCancel'
  <2> SUFFICES ASSUME NEW j \in JobId, NEW k \in JobId, NEW i \in Items, j < k,
                      Incomplete(j), state'[k] \in {"tasked", "complete"},
                      Conflict(i, spec[j], spec[k])
               PROVE  \/ cancelled[k] /\ thread[k] = "none"
                      \/ \E m \in JobId : j < m /\ m < k /\ cancelled[m]
                                            /\ i \in Writes(spec[m])
    BY <1>1, <1>3 DEF OvertakesAfterCancel, Conflict
  <2>1. CASE k \notin ok_jobs
    BY <1>1, <2>1 DEF OvertakesAfterCancel
  <2>2. CASE k \in ok_jobs
    <3>1. j \notin wait_for[k]
      BY <1>2, <2>2 DEF Incomplete
    <3>2. PICK w \in wait_for[k] : j < w /\ i \in Writes(spec[w])
      BY <1>2, <2>2, <3>1 DEF WaitsForConflicts
    <3>3. w \in JobId /\ w < k /\ state[w] = "complete"
      BY <1>2, <2>2, <3>2 DEF RowsAgree, TypeOK
    <3>4. Conflict(i, spec[j], spec[w])
      BY <3>2 DEF Conflict
    <3>5. \/ cancelled[w]
          \/ \E m \in JobId : j < m /\ m < w /\ cancelled[m]
                                /\ i \in Writes(spec[m])
      BY <3>2, <3>3, <3>4 DEF OvertakesAfterCancel
    <3>6. \A m \in JobId : m < w => m < k
      BY SMTT(30), <3>3, Bounds DEF JobId
    <3> QED  BY <3>2, <3>3, <3>5, <3>6
  <2> QED  BY <2>1, <2>2
<1> QED  BY <1>4, <1>5, <1>6, <1>7

(* A restart leaves no incomplete job and no lock.                         *)
LEMMA RestartKeeps ==
  ASSUME TypeOK, RowsAgree, Restart
  PROVE  LocksMatchJobs' /\ RowsAgree' /\ WaitsForConflicts'
           /\ OvertakesAfterCancel'
<1>1. /\ UNCHANGED <<last_id, spec, wait_for>>
      /\ \A j \in JobId :
           /\ state'[j] = IF j <= last_id THEN "complete" ELSE state[j]
           /\ cancelled'[j] = IF state[j] \in {"pending", "tasked"}
                              THEN TRUE ELSE cancelled[j]
           /\ thread'[j] = IF thread[j] = "none" THEN "none" ELSE "ended"
      /\ \A i \in Items : writers'[i] = {} /\ readers'[i] = {}
  BY DEF Restart
<1>2. \A j \in JobId : /\ j > last_id <=> ~(j <= last_id)
                       /\ j > last_id => state[j] = "none"
  BY SMTT(30), Bounds DEF RowsAgree, TypeOK, JobId
<1>3. \A j \in JobId : ~Incomplete(j)'
  BY <1>1, <1>2 DEF Incomplete
<1>4. LocksMatchJobs' /\ WaitsForConflicts' /\ OvertakesAfterCancel'
  BY <1>1, <1>3 DEF LocksMatchJobs, WaitsForConflicts, OvertakesAfterCancel
<1>5. ASSUME NEW j \in JobId
      PROVE  /\ state'[j] = "none" <=> j > last_id
             /\ state'[j] # "complete" => ~cancelled'[j]
             /\ state'[j] \in {"none", "pending"} => thread'[j] = "none"
             /\ thread'[j] \notin {"running", "finished"}
  <2>1. CASE j <= last_id
    BY <1>1, <1>2, <2>1
  <2>2. CASE j > last_id
    BY <1>1, <1>2, <2>2 DEF RowsAgree
  <2> QED  BY <1>2, <2>1, <2>2
<1>6. RowsAgree'
  BY <1>1, <1>5 DEF RowsAgree
<1> QED  BY <1>4, <1>6

-----------------------------------------------------------------------------
(* Every step is one of these *)

(* A completion hook that ran planned jobs.                                *)
LEMMA HookShape ==
  ASSUME NEW i, NoHook \/ HookInNewCommand(i), UNCHANGED thread
  PROVE  (UNCHANGED <<jobVars, lockVars, thread>>) \/ PlanStep
<1>1. CASE NoHook
  BY <1>1 DEF NoHook
<1>2. CASE HookInNewCommand(i)
  BY <1>2, HookPlanWellFormed DEF HookInNewCommand, RunHook, PlanStep
<1> QED  BY <1>1, <1>2

(* A thread does one of four things.                                       *)
LEMMA ThreadShape ==
  ASSUME TypeOK, NEW j \in JobId, ThreadAction(j)
  PROVE  /\ thread[j] \in {"running", "finished"}
         /\ \/ thread' = [thread EXCEPT ![j] = "finished"] /\ progress' = progress
            \/ thread' = [thread EXCEPT ![j] = "ended"] /\ progress' = progress
            \/ /\ thread' = [thread EXCEPT ![j] = "ended"]
               /\ \E e \in BOOLEAN : progress' = Append(progress, CompleteMsg(j, e))
         /\ UNCHANGED <<jobVars, cmdVars, jobs, lockVars, cancel_event, fetched,
                        objVars, noteVars, ctlVars, sysVars>>
<1>1. CASE ThreadFinishes(j)
  BY <1>1 DEF ThreadFinishes, ThreadStep
<1>2. CASE ThreadReports(j)
  BY <1>2 DEF ThreadReports, ThreadStep
<1>3. CASE ThreadFails(j)
  BY <1>3 DEF ThreadFails, ThreadStep
<1>4. CASE ThreadCancelled(j)
  BY <1>4 DEF ThreadCancelled, ThreadStep
<1> QED  BY <1>1, <1>2, <1>3, <1>4 DEF ThreadAction

(* The hooks that run inside complete_job add to a command or make one.    *)
LEMMA CompletionHooksShape ==
  ASSUME CompletionHooks
  PROVE  (UNCHANGED <<jobVars, lockVars, thread>>) \/ PlanStep
<1>1. UNCHANGED thread
  BY DEF CompletionHooks, runVars
<1>2. CASE NoHook
  BY <1>1, <1>2 DEF NoHook
<1>3. ASSUME NEW i, NEW c \in CommandId, RunHook(i, c)
      PROVE  PlanStep
  BY <1>1, <1>3, HookPlanWellFormed DEF RunHook, PlanStep
<1>4. CASE ~NoHook
  <2>1. PICK i \in Writes(spec[current]) :
          IF OpenCommands(current) # {}
          THEN \E c \in OpenCommands(current) :
                  RunHook(i, c) /\ UNCHANGED last_command
          ELSE HookInNewCommand(i)
    BY <1>4 DEF CompletionHooks
  <2>2. \E c \in CommandId : RunHook(i, c)
    BY <2>1 DEF OpenCommands, HookInNewCommand
  <2> QED  BY <1>3, <2>2
<1> QED  BY <1>2, <1>4

(* Every step moves threads, plans jobs, ends one, tasks some or restarts. *)
LEMMA StepShape ==
  ASSUME TypeOK, RowsAgree, PassAgrees, MessagesAgree, [Next]_vars
  PROVE  ThreadMove \/ PlanStep \/ EndStep \/ TaskJobs \/ Restart
<1>0. ASSUME UNCHANGED <<jobVars, lockVars, thread>> PROVE ThreadMove
  BY <1>0 DEF ThreadMove, RowVars, jobVars, lockVars
<1>1. ASSUME NEW r \in Requests, SubmitCommand(r) PROVE PlanStep
  <2> DEFINE p == PlanFor(r, item_state, Expected)
  <2>1. WellFormed(p)
    BY PlanWellFormed
  <2>2. \E c \in CommandId : AddJobs(p, c)
    BY <1>1 DEF SubmitCommand
  <2>3. UNCHANGED thread
    BY <1>1 DEF SubmitCommand, runVars
  <2> HIDE DEF p
  <2> QED  BY <2>1, <2>2, <2>3 DEF PlanStep
<1>2. ASSUME NEW r \in Reports, AgentReport(r) PROVE ThreadMove
  BY <1>0, <1>2 DEF AgentReport, runVars
<1>3. ASSUME NEW j \in JobId, CancelJob(j) PROVE EndStep
  <2>1. EndJob(j, TRUE)
    BY <1>3 DEF CancelJob, EndJob, Incomplete
  <2> QED  BY <2>1 DEF EndStep
<1>4. ASSUME NEW j \in JobId, ThreadAction(j) PROVE ThreadMove
  BY <1>4, ThreadShape DEF ThreadMove, RowVars, jobVars, lockVars
<1>5. CASE Advance
  BY <1>0, <1>5 DEF Advance, runVars
<1>6. CASE FetchJob
  BY <1>0, <1>6 DEF FetchJob, runVars
<1>7. CASE CompleteJob
  <2> DEFINE j == Head(progress).job
  <2>1. /\ fetched /\ UNCHANGED thread
    BY <1>7 DEF CompleteJob, runVars
  <2>2. /\ progress # <<>> /\ Head(progress) \in Message
        /\ Head(progress).op = "complete_job"
        /\ Head(progress) = progress[1] /\ 1 \in DOMAIN progress
    BY SMTT(30), <2>1 DEF MessagesAgree, TypeOK
  <2>3. j \in JobId
    BY SMT, <2>2 DEF Message, AdvanceMsg
  <2>4. thread[j] \in {"none", "ended"}
    BY <2>2 DEF MessagesAgree, EndReported
  <2>5. CASE StillTasked(j)
    <3>1. PICK failed \in BOOLEAN : FinishJob(j, failed, FALSE, "drain")
      BY <1>7, <2>5 DEF CompleteJob
    <3> HIDE DEF j
    <3>2. EndJob(j, FALSE)
      BY <2>1, <2>4, <2>5, <3>1 DEF EndJob, FinishJob, StillTasked, Incomplete
    <3> QED  BY <2>3, <3>2 DEF EndStep
  <2>6. CASE ~StillTasked(j)
    <3>1. UNCHANGED <<jobVars, lockVars>>
      BY <1>7, <2>6 DEF CompleteJob
    <3> QED  BY <1>0, <2>1, <3>1
  <2> QED  BY <2>5, <2>6
<1>8. CASE CompletionHooks
  BY <1>0, <1>8, CompletionHooksShape
<1>9. CASE Notify
  <2>1. UNCHANGED thread
    BY <1>9 DEF Notify, runVars
  <2>2. \E i : NoHook \/ HookInNewCommand(i)
    BY <1>9 DEF Notify, Apply
  <2> QED  BY <1>0, <2>1, <2>2, HookShape
<1>10. ASSUME NEW i \in Items, DrainItem(i) PROVE ThreadMove \/ PlanStep
  <2>1. UNCHANGED thread
    BY <1>10 DEF DrainItem, runVars
  <2>2. \E x : NoHook \/ HookInNewCommand(x)
    BY <1>10 DEF DrainItem, Apply
  <2> QED  BY <1>0, <2>1, <2>2, HookShape
<1>11. CASE DrainDone
  BY <1>0, <1>11 DEF DrainDone, runVars
<1>12. CASE CheckJobs
  BY <1>0, <1>12 DEF CheckJobs, runVars
<1>13. ASSUME NEW j \in JobId, CancelFailed(j) PROVE EndStep
  <2>1. state[j] = "pending"
    BY <1>13 DEF CancelFailed, PassAgrees, Checked
  <2>2. EndJob(j, TRUE)
    BY <1>13, <2>1 DEF CancelFailed, FinishJob, EndJob, Incomplete, runVars
  <2> QED  BY <2>2 DEF EndStep
<1>14. ASSUME NEW j \in JobId, SpawnJob(j) PROVE ThreadMove
  <2>1. state[j] = "tasked"
    BY <1>14 DEF SpawnJob, PassAgrees
  <2> QED  BY <1>14, <2>1 DEF SpawnJob, ThreadMove, RowVars, jobVars, lockVars
<1>15. CASE UNCHANGED vars
  BY <1>0, <1>15 DEF vars, runVars
<1> QED
  BY <1>1, <1>2, <1>3, <1>4, <1>5, <1>6, <1>7, <1>8, <1>9, <1>10, <1>11,
     <1>12, <1>13, <1>14, <1>15
     DEF Next, ProgressAction, LockHolder

(* A job never goes back: whoever is tasked or complete stays so.          *)
LEMMA StatesAdvance ==
  ASSUME TypeOK, LocksMatchJobs, RowsAgree, PassAgrees,
         ThreadMove \/ PlanStep \/ EndStep \/ TaskJobs \/ Restart,
         NEW j \in JobId
  PROVE  /\ state[j] = "complete" => state'[j] = "complete"
         /\ state[j] = "tasked" => state'[j] \in {"tasked", "complete"}
<1>1. CASE ThreadMove
  BY <1>1 DEF ThreadMove, RowVars
<1>2. CASE PlanStep
  <2>1. PICK p : \E c \in CommandId : WellFormed(p) /\ AddJobs(p, c)
    BY <1>2 DEF PlanStep
  <2>2. PICK c \in CommandId : WellFormed(p) /\ AddJobs(p, c)
    BY <2>1
  <2>3. j <= last_id => state'[j] = state[j]
    BY <2>2, PlanFacts
  <2>4. state[j] # "none" => j <= last_id
    BY SMTT(30), Bounds DEF RowsAgree, TypeOK, JobId
  <2> QED  BY <2>3, <2>4
<1>3. CASE EndStep
  BY <1>3 DEF EndStep, EndJob, TypeOK
<1>4. CASE TaskJobs
  BY <1>4 DEF TaskJobs, PassAgrees, Checked
<1>5. CASE Restart
  <2>1. state[j] # "none" => j <= last_id
    BY SMTT(30), Bounds DEF RowsAgree, TypeOK, JobId
  <2> QED  BY <1>5, <2>1 DEF Restart
<1> QED  BY <1>1, <1>2, <1>3, <1>4, <1>5

-----------------------------------------------------------------------------
(* The lists of the running pass *)

(* Outside the checks and the spawning there is nothing to keep.           *)
LEMMA NoPass ==
  ASSUME \/ phase' \in {"free", "drain", "run_next"}
         \/ phase' = "hooks" /\ resume' = "drain"
  PROVE  PassAgrees'
  BY DEF PassAgrees, Checked

(* Every step keeps ok_jobs and cancel_jobs in agreement with the rows.    *)
LEMMA PassStep ==
  ASSUME TypeOK, LocksMatchJobs, RowsAgree, PassAgrees, MessagesAgree,
         [Next]_vars
  PROVE  PassAgrees'
<1>0. ASSUME UNCHANGED <<jobVars, thread, ctlVars>> PROVE PassAgrees'
  BY <1>0 DEF PassAgrees, Checked, jobVars, ctlVars
<1>1. ASSUME NEW r \in Requests, SubmitCommand(r) PROVE PassAgrees'
  BY <1>1, NoPass DEF SubmitCommand, ctlVars
<1>2. ASSUME NEW r \in Reports, AgentReport(r) PROVE PassAgrees'
  BY <1>0, <1>2 DEF AgentReport, runVars
<1>3. ASSUME NEW j \in JobId, CancelJob(j) PROVE PassAgrees'
  BY <1>3, NoPass DEF CancelJob, ctlVars
<1>4. ASSUME NEW j \in JobId, ThreadAction(j) PROVE PassAgrees'
  <2>1. /\ \A k \in JobId : thread[k] = "none" => thread'[k] = "none"
        /\ UNCHANGED <<state, wait_for, phase, resume, ok_jobs, cancel_jobs>>
    BY <1>4, ThreadShape DEF TypeOK, jobVars, ctlVars
  <2> QED  BY <2>1 DEF PassAgrees, Checked, TypeOK
<1>5. CASE Advance
  BY <1>5, NoPass DEF Advance
<1>6. CASE FetchJob
  BY <1>0, <1>6 DEF FetchJob, runVars
<1>7. CASE CompleteJob
  <2>1. \/ phase' = "hooks" /\ resume' = "drain"
        \/ phase' = phase /\ phase = "free"
    BY <1>7 DEF CompleteJob, FinishJob
  <2> QED  BY <2>1, NoPass
<1>8. CASE CompletionHooks
  <2>1. phase' = resume /\ phase = "hooks" /\ resume \in {"drain", "cancelling"}
        /\ UNCHANGED <<ok_jobs, cancel_jobs, thread>>
    BY <1>8 DEF CompletionHooks, TypeOK, runVars
  <2>2. CASE resume = "drain"
    BY <2>1, <2>2, NoPass
  <2>3. CASE resume = "cancelling"
    <3>1. /\ ok_jobs \cap cancel_jobs = {}
          /\ \A j \in ok_jobs \cup cancel_jobs : state[j] = "pending"
          /\ \A j \in ok_jobs : \A m \in wait_for[j] : state[m] = "complete"
          /\ ok_jobs \subseteq JobId /\ cancel_jobs \subseteq JobId
          /\ \A j \in JobId : wait_for[j] \subseteq JobId
      BY <2>1, <2>3 DEF PassAgrees, Checked, TypeOK
    <3>2. \A j \in JobId :
            /\ state[j] = "complete" => state'[j] = "complete"
            /\ state[j] = "pending" =>
                 state'[j] = "pending" /\ wait_for'[j] = wait_for[j]
      <4>1. CASE UNCHANGED <<jobVars, lockVars, thread>>
        BY <4>1 DEF jobVars
      <4>2. CASE PlanStep
        <5>1. PICK p : \E c \in CommandId : WellFormed(p) /\ AddJobs(p, c)
          BY <4>2 DEF PlanStep
        <5>2. PICK c \in CommandId : WellFormed(p) /\ AddJobs(p, c)
          BY <5>1
        <5>3. \A j \in JobId : j <= last_id =>
                state'[j] = state[j] /\ wait_for'[j] = wait_for[j]
          BY <5>2, PlanFacts
        <5>4. \A j \in JobId : state[j] # "none" => j <= last_id
          BY SMTT(30), Bounds DEF RowsAgree, TypeOK, JobId
        <5> QED  BY <5>3, <5>4
      <4> QED  BY <1>8, <4>1, <4>2, CompletionHooksShape
    <3>3. /\ \A j \in ok_jobs \cup cancel_jobs : state'[j] = "pending"
          /\ \A j \in ok_jobs : \A m \in wait_for'[j] : state'[m] = "complete"
      BY <3>1, <3>2
    <3> QED  BY <2>1, <2>3, <3>1, <3>3 DEF PassAgrees, Checked
  <2> QED  BY <2>1, <2>2, <2>3
<1>9. CASE Notify
  BY <1>9, NoPass DEF Notify
<1>10. ASSUME NEW i \in Items, DrainItem(i) PROVE PassAgrees'
  BY <1>10, NoPass DEF DrainItem, ctlVars
<1>11. CASE DrainDone
  BY <1>11, NoPass DEF DrainDone
<1>12. CASE CheckJobs
  <2>1. CASE phase' = "free"
    BY <2>1, NoPass
  <2>2. CASE phase' # "free"
    <3>1. PICK bad \in SUBSET Ready :
            /\ cancel_jobs' = bad /\ ok_jobs' = Ready \ bad
            /\ phase' = "cancelling"
            /\ UNCHANGED <<state, wait_for>>
      BY <1>12, <2>2 DEF CheckJobs, GoTo, jobVars
    <3>2. \A j \in Ready : /\ state[j] = "pending"
                           /\ \A m \in wait_for[j] : state[m] = "complete"
      BY DEF Ready, InState
    <3>3. phase' # "spawning"
      BY <3>1
    <3> QED  BY <3>1, <3>2, <3>3 DEF PassAgrees, Checked
  <2> QED  BY <2>1, <2>2
<1>13. ASSUME NEW j \in JobId, CancelFailed(j) PROVE PassAgrees'
  <2>1. /\ j \in cancel_jobs /\ cancel_jobs' = cancel_jobs \ {j}
        /\ phase = "cancelling" /\ phase' = "hooks"
        /\ state' = [state EXCEPT ![j] = "complete"]
        /\ UNCHANGED <<ok_jobs, wait_for>>
    BY <1>13 DEF CancelFailed, FinishJob
  <2>2. \A k \in JobId : state'[k] = IF k = j THEN "complete" ELSE state[k]
    BY <2>1 DEF TypeOK
  <2>3. /\ ok_jobs \cap cancel_jobs = {} /\ ok_jobs \cup cancel_jobs \subseteq JobId
        /\ \A k \in ok_jobs \cup cancel_jobs : state[k] = "pending"
        /\ \A k \in ok_jobs : wait_for[k] \subseteq JobId
                              /\ \A m \in wait_for[k] : state[m] = "complete"
    BY <2>1 DEF PassAgrees, Checked, TypeOK
  <2> QED  BY <2>1, <2>2, <2>3 DEF PassAgrees, Checked
<1>14. CASE TaskJobs
  <2>1. /\ phase' \in {"free", "run_next", "spawning"} /\ ok_jobs' = ok_jobs
        /\ \A j \in JobId : state'[j] = IF j \in ok_jobs THEN "tasked" ELSE state[j]
        /\ thread' = thread
    BY <1>14 DEF TaskJobs, GoTo, AfterSpawning, runVars
  <2>2. \A j \in ok_jobs : j \in JobId /\ thread[j] = "none"
    BY <1>14 DEF TaskJobs, PassAgrees, Checked, RowsAgree, TypeOK
  <2> QED  BY <2>1, <2>2 DEF PassAgrees, Checked
<1>15. ASSUME NEW j \in JobId, SpawnJob(j) PROVE PassAgrees'
  <2>1. /\ phase' \in {"free", "run_next", "spawning"} /\ phase = "spawning"
        /\ ok_jobs' = ok_jobs \ {j} /\ UNCHANGED state
        /\ \A k \in JobId : k # j => thread'[k] = thread[k]
    BY <1>15 DEF SpawnJob, GoTo, AfterSpawning, jobVars, TypeOK
  <2>2. ok_jobs \subseteq JobId
    BY DEF TypeOK
  <2> QED  BY <2>1, <2>2 DEF PassAgrees, Checked
<1>16. CASE Restart
  BY <1>16, NoPass DEF Restart
<1>17. CASE UNCHANGED vars
  BY <1>0, <1>17 DEF vars, runVars
<1> QED
  BY <1>1, <1>2, <1>3, <1>4, <1>5, <1>6, <1>7, <1>8, <1>9, <1>10, <1>11,
     <1>12, <1>13, <1>14, <1>15, <1>16, <1>17
     DEF Next, ProgressAction, LockHolder

-----------------------------------------------------------------------------
(* The JobProgress queue *)

(* Queues of messages: what Append and Tail leave in them.                 *)
LEMMA QueueFacts ==
  ASSUME NEW S, NEW q \in Seq(S)
  PROVE  /\ \A m \in S : /\ Append(q, m) # <<>>
                         /\ q # <<>> => Head(Append(q, m)) = Head(q)
                         /\ \A n \in DOMAIN Append(q, m) :
                              \/ Append(q, m)[n] = m
                              \/ \E k \in DOMAIN q : Append(q, m)[n] = q[k]
         /\ q # <<>> => \A n \in DOMAIN Tail(q) :
                          \E k \in DOMAIN q : Tail(q)[n] = q[k]
         /\ \A n \in DOMAIN q : q[n] \in S
<1>1. ASSUME NEW m \in S
      PROVE  /\ Append(q, m) # <<>>
             /\ q # <<>> => Head(Append(q, m)) = Head(q)
             /\ \A n \in DOMAIN Append(q, m) :
                  \/ Append(q, m)[n] = m
                  \/ \E k \in DOMAIN q : Append(q, m)[n] = q[k]
  <2>1. /\ DOMAIN Append(q, m) = 1..Len(q) + 1 /\ DOMAIN q = 1..Len(q)
        /\ Len(q) \in Nat /\ Append(q, m)[Len(q) + 1] = m
        /\ \A n \in 1..Len(q) : Append(q, m)[n] = q[n]
    BY SMT
  <2>2. Append(q, m) # <<>> /\ (q # <<>> => Head(Append(q, m)) = Head(q))
    <3>1. Append(q, m) \in Seq(S) /\ Len(Append(q, m)) = Len(q) + 1
      BY SMTT(30)
    <3>2. Append(q, m) # <<>> /\ Head(Append(q, m)) = Append(q, m)[1]
      BY SMTT(30), <2>1, <3>1
    <3>3. q # <<>> => 1 \in 1..Len(q) /\ Head(q) = q[1]
      BY SMTT(30)
    <3> QED  BY <2>1, <3>2, <3>3
  <2>3. \A n \in 1..Len(q) + 1 : n = Len(q) + 1 \/ n \in 1..Len(q)
    BY SMT, <2>1
  <2> QED  BY <2>1, <2>2, <2>3
<1>2. ASSUME q # <<>>, NEW n \in DOMAIN Tail(q)
      PROVE  \E k \in DOMAIN q : Tail(q)[n] = q[k]
  <2>1. n + 1 \in DOMAIN q /\ Tail(q)[n] = q[n + 1]
    BY SMT, <1>2
  <2> QED  BY <2>1
<1> QED  BY SMTT(30), <1>1, <1>2

(* If the messages already queued stay in order, and a new one is in       *)
(* order, the queue is.                                                    *)
LEMMA QueueKept ==
  ASSUME TypeOK, MessagesAgree, \A m \in Message : EndReported(m) => EndReported(m)',
         \/ progress' = progress
         \/ \E m \in Message : progress' = Append(progress, m) /\ EndReported(m)',
         fetched' = fetched
  PROVE  MessagesAgree'
<1>1. progress \in Seq(Message)
  BY DEF TypeOK
<1>2. CASE progress' = progress
  <2>1. \A n \in DOMAIN progress : progress[n] \in Message
    BY <1>1, QueueFacts
  <2> QED  BY <1>2, <2>1 DEF MessagesAgree
<1>3. ASSUME NEW m \in Message, progress' = Append(progress, m), EndReported(m)'
      PROVE  MessagesAgree'
  <2>1. \A n \in DOMAIN progress' :
          \/ progress'[n] = m
          \/ \E k \in DOMAIN progress : progress'[n] = progress[k]
    BY SMTT(30), <1>1, <1>3, QueueFacts
  <2>2. \A n \in DOMAIN progress : progress[n] \in Message
    BY <1>1, QueueFacts
  <2>3. fetched => progress' # <<>> /\ Head(progress') = Head(progress)
    BY <1>1, <1>3, QueueFacts DEF MessagesAgree
  <2>4. fetched' => progress' # <<>> /\ Head(progress').op = "complete_job"
    BY <2>3 DEF MessagesAgree
  <2>5. (\A n \in DOMAIN progress : EndReported(progress[n]))'
    BY <1>3, <2>1, <2>2 DEF MessagesAgree
  <2> QED  BY <2>4, <2>5 DEF MessagesAgree
<1> QED  BY <1>2, <1>3

(* Likewise when JobProgress takes the first message.                      *)
LEMMA QueueTaken ==
  ASSUME TypeOK, MessagesAgree, \A m \in Message : EndReported(m) => EndReported(m)',
         progress # <<>>, progress' = Tail(progress), ~fetched'
  PROVE  MessagesAgree'
<1>1. progress \in Seq(Message)
  BY DEF TypeOK
<1>2. \A n \in DOMAIN progress' :
        \E k \in DOMAIN progress : progress'[n] = progress[k]
  BY <1>1, QueueFacts
<1>3. \A n \in DOMAIN progress : progress[n] \in Message
  BY <1>1, QueueFacts
<1> QED  BY <1>2, <1>3 DEF MessagesAgree

(* Every step keeps the queue in order.                                    *)
LEMMA MessagesStep ==
  ASSUME TypeOK, LocksMatchJobs, RowsAgree, PassAgrees, MessagesAgree,
         [Next]_vars
  PROVE  MessagesAgree'
<1>a. \A j \in JobId : state[j] \in {"tasked", "complete"}
                          => state'[j] \in {"tasked", "complete"}
  BY StepShape, StatesAdvance
<1>b. \A m \in Message : m.op = "complete_job" => m.job \in JobId
  BY SMT DEF Message, AdvanceMsg
<1>c. EndReported(AdvanceMsg)'
  BY DEF EndReported, AdvanceMsg
(* A step that starts no thread and no spawning.                           *)
<1>d. ASSUME UNCHANGED thread, phase' # "spawning", NEW m \in Message, EndReported(m)
      PROVE  EndReported(m)'
  BY <1>a, <1>b, <1>d DEF EndReported
<1>e. ASSUME UNCHANGED <<thread, phase, ok_jobs>>, NEW m \in Message, EndReported(m)
      PROVE  EndReported(m)'
  BY <1>a, <1>b, <1>e DEF EndReported
<1>1. ASSUME NEW r \in Requests, SubmitCommand(r) PROVE MessagesAgree'
  <2>1. /\ UNCHANGED <<thread, fetched, phase>> /\ phase = "free"
        /\ progress' = Append(progress, AdvanceMsg)
    BY <1>1 DEF SubmitCommand, runVars, ctlVars
  <2> QED  BY <1>c, <1>d, <2>1, Messages, QueueKept
<1>2. ASSUME NEW r \in Reports, AgentReport(r) PROVE MessagesAgree'
  BY <1>2, <1>e, QueueKept DEF AgentReport, runVars, ctlVars
<1>3. ASSUME NEW j \in JobId, CancelJob(j) PROVE MessagesAgree'
  <2>1. /\ UNCHANGED <<thread, fetched, phase>> /\ phase = "free"
        /\ progress' = progress \/ progress' = Append(progress, AdvanceMsg)
    BY <1>3 DEF CancelJob, StopOrAdvance, ctlVars
  <2> QED  BY <1>c, <1>d, <2>1, Messages, QueueKept
<1>4. ASSUME NEW j \in JobId, ThreadAction(j) PROVE MessagesAgree'
  <2>1. /\ thread[j] \in {"running", "finished"}
        /\ UNCHANGED <<state, cancelled, fetched, phase, ok_jobs>>
    BY <1>4, ThreadShape DEF jobVars, ctlVars
  <2>2. \A k \in JobId : k # j => thread'[k] = thread[k]
    <3>1. \E to : thread' = [thread EXCEPT ![j] = to]
      BY <1>4, ThreadShape
    <3> QED  BY <3>1 DEF TypeOK
  <2>3. \A m \in Message : EndReported(m) => EndReported(m)'
    BY <1>b, <2>1, <2>2 DEF EndReported
  <2>4. /\ state[j] \in {"tasked", "complete"}
        /\ phase = "spawning" => j \notin ok_jobs
    BY <2>1 DEF RowsAgree, PassAgrees, TypeOK
  <2>5. \/ progress' = progress
        \/ \E m \in Message : progress' = Append(progress, m) /\ EndReported(m)'
    <3>1. \/ progress' = progress
          \/ /\ thread' = [thread EXCEPT ![j] = "ended"]
             /\ \E e \in BOOLEAN : progress' = Append(progress, CompleteMsg(j, e))
      BY <1>4, ThreadShape
    <3>2. CASE thread' = [thread EXCEPT ![j] = "ended"]
      <4>1. thread'[j] = "ended"
        BY <3>2 DEF TypeOK
      <4>2. \A e \in BOOLEAN : EndReported(CompleteMsg(j, e))'
        BY <2>1, <2>4, <4>1 DEF EndReported, CompleteMsg
      <4>3. \A e \in BOOLEAN : CompleteMsg(j, e) \in Message
        BY Messages
      <4> QED  BY <3>1, <4>2, <4>3
    <3> QED  BY <3>1, <3>2
  <2> QED  BY <2>1, <2>3, <2>5, QueueKept
<1>5. CASE Advance
  <2>1. /\ progress # <<>> /\ Head(progress).op = "advance"
        /\ progress' = Tail(progress) /\ phase' = "run_next"
        /\ UNCHANGED <<thread, fetched>>
    BY <1>5 DEF Advance, NextMsg, runVars
  <2>2. ~fetched'
    BY <2>1 DEF MessagesAgree
  <2> QED  BY <1>d, <2>1, <2>2, QueueTaken
<1>6. CASE FetchJob
  <2>1. /\ progress # <<>> /\ Head(progress).op = "complete_job"
        /\ UNCHANGED <<progress, thread, state, phase, ok_jobs>>
    BY <1>6 DEF FetchJob, NextMsg, runVars, jobVars, ctlVars
  <2> QED  BY <2>1 DEF MessagesAgree, EndReported
<1>7. CASE CompleteJob
  <2>1. /\ fetched /\ ~fetched' /\ progress' = Tail(progress)
        /\ UNCHANGED thread
    BY <1>7 DEF CompleteJob, runVars
  <2>2. phase' # "spawning"
    BY <1>7 DEF CompleteJob, FinishJob
  <2>3. progress # <<>>
    BY <2>1 DEF MessagesAgree
  <2> QED  BY <1>d, <2>1, <2>2, <2>3, QueueTaken
<1>8. CASE CompletionHooks
  <2>1. UNCHANGED <<thread, progress, fetched>> /\ phase' # "spawning"
    BY <1>8 DEF CompletionHooks, runVars, TypeOK
  <2> QED  BY <1>d, <2>1, QueueKept
<1>9. CASE Notify
  <2>1. UNCHANGED <<thread, progress, fetched>> /\ phase' # "spawning"
    BY <1>9 DEF Notify, runVars
  <2> QED  BY <1>d, <2>1, QueueKept
<1>10. ASSUME NEW i \in Items, DrainItem(i) PROVE MessagesAgree'
  BY <1>10, <1>e, QueueKept DEF DrainItem, runVars, ctlVars
<1>11. CASE DrainDone
  BY <1>11, <1>d, QueueKept DEF DrainDone, runVars
<1>12. CASE CheckJobs
  <2>1. UNCHANGED <<thread, progress, fetched>> /\ phase' # "spawning"
    BY <1>12 DEF CheckJobs, GoTo, runVars
  <2> QED  BY <1>d, <2>1, QueueKept
<1>13. ASSUME NEW j \in JobId, CancelFailed(j) PROVE MessagesAgree'
  <2>1. UNCHANGED <<thread, progress, fetched>> /\ phase' # "spawning"
    BY <1>13 DEF CancelFailed, FinishJob, runVars
  <2> QED  BY <1>d, <2>1, QueueKept
<1>14. CASE TaskJobs
  <2>1. UNCHANGED <<thread, progress, fetched, ok_jobs>>
    BY <1>14 DEF TaskJobs, runVars
  <2>2. \A j \in ok_jobs : state[j] = "pending"
    BY <1>14 DEF TaskJobs, PassAgrees, Checked
  <2>3. \A m \in Message : EndReported(m) => EndReported(m)'
    BY <1>a, <1>b, <2>1, <2>2 DEF EndReported
  <2> QED  BY <2>1, <2>3, QueueKept
<1>15. ASSUME NEW j \in JobId, SpawnJob(j) PROVE MessagesAgree'
  <2>1. /\ phase = "spawning" /\ j \in ok_jobs /\ ok_jobs' = ok_jobs \ {j}
        /\ UNCHANGED <<state, fetched>>
    BY <1>15 DEF SpawnJob, jobVars
  <2>2. /\ \A k \in JobId : k # j => thread'[k] = thread[k]
        /\ state[j] = "tasked" /\ thread[j] = "none"
    BY <1>15, <2>1 DEF SpawnJob, TypeOK, PassAgrees
  <2>3. \A m \in Message : EndReported(m) => EndReported(m)'
    BY <1>b, <2>1, <2>2 DEF EndReported
  <2>4. CASE progress' = progress
    BY <2>1, <2>3, <2>4, QueueKept
  <2>5. CASE progress' # progress
    <3>1. progress' = Append(progress, CompleteMsg(j, FALSE)) /\ thread' = thread
      BY <1>15, <2>5 DEF SpawnJob
    <3>2. EndReported(CompleteMsg(j, FALSE))'
      BY <2>1, <2>2, <3>1 DEF EndReported, CompleteMsg
    <3> QED  BY <2>1, <2>3, <3>1, <3>2, Messages, QueueKept
  <2> QED  BY <2>4, <2>5
<1>16. CASE Restart
  <2>1. progress' = <<>> /\ fetched' = FALSE
    BY <1>16 DEF Restart
  <2>2. (\A n \in DOMAIN progress : EndReported(progress[n]))'
    BY SMT, <2>1
  <2> QED  BY <2>1, <2>2 DEF MessagesAgree
<1>17. CASE UNCHANGED vars
  BY <1>17, <1>e, QueueKept DEF vars, runVars, ctlVars
<1> QED
  BY <1>1, <1>2, <1>3, <1>4, <1>5, <1>6, <1>7, <1>8, <1>9, <1>10, <1>11,
     <1>12, <1>13, <1>14, <1>15, <1>16, <1>17
     DEF Next, ProgressAction, LockHolder

-----------------------------------------------------------------------------
(* The theorems *)

(* What every step keeps.                                                  *)
IInv == TypeOK /\ LocksMatchJobs /\ SchedulingInv

(* It holds when the service starts for the first time.                    *)
LEMMA InitIInv == Init => IInv
<1> SUFFICES ASSUME Init PROVE IInv
  OBVIOUS
<1>1. TypeOK
  <2>1. /\ last_id \in 0..MaxJobs /\ last_command \in 0..MaxCommands
        /\ nsent \in 0..MaxNotifications /\ restarts \in 0..MaxRestarts
        /\ current \in 0..MaxJobs
        /\ attr \in [Items -> 0..MaxNotifications]
    BY SMT, Bounds DEF Init
  <2>2. /\ spec \in [JobId -> JobSpecs]
        /\ command \in [CommandId -> [complete : BOOLEAN, errored : BOOLEAN,
                                      cancelled : BOOLEAN]]
    BY HookAssumption DEF Init, NoCommand
  <2>3. /\ progress \in Seq(Message) /\ nqueue \in Seq(Notification)
        /\ buffer \in [Items -> Seq(Notification)]
    <3>1. \A S : <<>> \in Seq(S)
      BY SMTT(30)
    <3> QED  BY <3>1 DEF Init
  <2> QED  BY <2>1, <2>2, <2>3 DEF Init, TypeOK
<1>2. \A j \in JobId : j > last_id
  BY SMTT(30), Bounds DEF Init, JobId
<1>3. LocksMatchJobs
  BY DEF Init, LocksMatchJobs, Incomplete
<1>4. RowsAgree
  BY <1>2 DEF Init, RowsAgree
<1>5. PassAgrees /\ MessagesAgree
  BY SMT DEF Init, PassAgrees, Checked, MessagesAgree
<1>6. WaitsForConflicts /\ OvertakesAfterCancel
  BY DEF Init, WaitsForConflicts, OvertakesAfterCancel, Incomplete
<1> QED  BY <1>1, <1>3, <1>4, <1>5, <1>6 DEF IInv, SchedulingInv

(* And every step of every thread keeps it.                                *)
LEMMA NextIInv == IInv /\ [Next]_vars => IInv'
<1> SUFFICES ASSUME IInv, [Next]_vars PROVE IInv'
  OBVIOUS
<1>1. /\ TypeOK /\ LocksMatchJobs /\ RowsAgree /\ PassAgrees /\ MessagesAgree
      /\ WaitsForConflicts /\ OvertakesAfterCancel
  BY DEF IInv, SchedulingInv
<1>2. TypeOK'
  BY <1>1, TypeStep DEF MessagesAgree
<1>3. LocksMatchJobs' /\ RowsAgree' /\ WaitsForConflicts' /\ OvertakesAfterCancel'
  BY <1>1, <1>2, StepShape, ThreadMoveKeeps, PlanKeeps, EndJobKeeps,
     TaskJobsKeeps, RestartKeeps
<1>4. PassAgrees' /\ MessagesAgree'
  BY <1>1, PassStep, MessagesStep
<1> QED  BY <1>2, <1>3, <1>4 DEF IInv, SchedulingInv

(* Every variable keeps the type the code gives it.                        *)
THEOREM TypeCorrect == Spec => []TypeOK
<1>1. IInv => TypeOK
  BY DEF IInv
<1> QED  BY <1>1, InitIInv, NextIInv, PTL DEF Spec

(* LockCache holds a lock exactly as long as its job is incomplete, for    *)
(* every interleaving of planning, completion, cancellation and restart.   *)
THEOREM LocksAreExact == Spec => []LocksMatchJobs
<1>1. IInv => LocksMatchJobs
  BY DEF IInv
<1> QED  BY <1>1, InitIInv, NextIInv, PTL DEF Spec

(* Rows, threads, pass lists and queue agree, and whoever overtook a       *)
(* conflicting job did so past a cancelled writer.                         *)
THEOREM SchedulingIsSound == Spec => []SchedulingInv
<1>1. IInv => SchedulingInv
  BY DEF IInv
<1> QED  BY <1>1, InitIInv, NextIInv, PTL DEF Spec

(* Jobs with conflicting locks are active together only if the earlier one *)
(* or a writer between them was cancelled (_create_dependencies).          *)
THEOREM ConflictsAreOrdered == Spec => []ConflictOnlyAfterCancel
<1>1. IInv => ConflictOnlyAfterCancel
  <2> SUFFICES ASSUME IInv, NEW j \in JobId, NEW k \in JobId, NEW i \in Items,
                      j < k, Active(j), Active(k), Conflict(i, spec[j], spec[k])
               PROVE  \E m \in j..(k-1) : cancelled[m]
                                            /\ (m = j \/ i \in Writes(spec[m]))
    BY DEF ConflictOnlyAfterCancel
  <2>1. /\ TypeOK /\ RowsAgree /\ OvertakesAfterCancel
    BY DEF IInv, SchedulingInv
  <2>2. j \in Nat /\ k \in Nat /\ JobId \subseteq Nat
    BY SMTT(30), Bounds DEF JobId
  <2>3. j \in j..(k-1)
    BY SMT, <2>2
  <2>4. CASE cancelled[j]
    BY <2>3, <2>4
  <2>5. CASE ~cancelled[j]
    <3>1. Incomplete(j)
      BY <2>1, <2>5 DEF Active, RowsAgree, Incomplete
    <3>2. state[k] \in {"tasked", "complete"} /\ ~(cancelled[k] /\ thread[k] = "none")
      BY <2>1 DEF Active, RowsAgree, TypeOK
    <3>3. PICK m \in JobId : j < m /\ m < k /\ cancelled[m] /\ i \in Writes(spec[m])
      BY <2>1, <3>1, <3>2 DEF OvertakesAfterCancel
    <3>4. m \in j..(k-1)
      BY SMTT(30), <2>2, <3>3
    <3> QED  BY <3>3, <3>4
  <2> QED  BY <2>4, <2>5
<1> QED  BY <1>1, InitIInv, NextIInv, PTL DEF Spec

-----------------------------------------------------------------------------
(* Rows *)

(* What a step may write into the errored flags.                           *)
LEMMA ErroredStep ==
  ASSUME IInv, [Next]_vars
  PROVE  \/ errored' = errored
         \/ \E j \in JobId : \E e \in BOOLEAN : /\ Incomplete(j)
                                                /\ errored' = [errored EXCEPT ![j] = e]
<1>0. TypeOK /\ RowsAgree /\ PassAgrees /\ MessagesAgree
  BY DEF IInv, SchedulingInv
<1>1. \A i : NoHook \/ HookInNewCommand(i) => errored' = errored
  BY DEF NoHook, HookInNewCommand, RunHook, AddJobs, jobVars
<1>2. CASE CompleteJob
  <2> DEFINE j == Head(progress).job
  <2>1. j \in JobId
    <3>1. progress # <<>> /\ Head(progress).op = "complete_job" /\ progress \in Seq(Message)
      BY <1>0, <1>2 DEF CompleteJob, MessagesAgree, TypeOK
    <3>2. Head(progress) \in Message
      BY SMT, <3>1
    <3> QED  BY SMTT(30), <3>1, <3>2 DEF Message, AdvanceMsg
  <2>2. CASE StillTasked(j)
    <3>1. PICK failed \in BOOLEAN : FinishJob(j, failed, FALSE, "drain")
      BY <1>2, <2>2 DEF CompleteJob
    <3> HIDE DEF j
    <3> QED  BY <2>1, <2>2, <3>1 DEF FinishJob, StillTasked, Incomplete
  <2>3. CASE ~StillTasked(j)
    BY <1>2, <2>3 DEF CompleteJob, jobVars
  <2> QED  BY <2>2, <2>3
<1>3. ASSUME NEW j \in JobId, CancelFailed(j)
      PROVE  Incomplete(j) /\ errored' = [errored EXCEPT ![j] = FALSE]
  BY <1>0, <1>3 DEF CancelFailed, FinishJob, PassAgrees, Checked, Incomplete
<1>4. CASE CompletionHooks
  BY <1>4 DEF CompletionHooks, NoHook, HookInNewCommand, RunHook, AddJobs, jobVars
<1>5. CASE Notify
  BY <1>1, <1>5 DEF Notify, Apply
<1>6. ASSUME NEW i \in Items, DrainItem(i) PROVE errored' = errored
  BY <1>1, <1>6 DEF DrainItem, Apply
<1>7. ASSUME NEW r \in Requests, SubmitCommand(r) PROVE errored' = errored
  BY <1>7 DEF SubmitCommand, AddJobs
<1>8. ASSUME NEW j \in JobId, CancelJob(j) \/ ThreadAction(j) \/ SpawnJob(j) PROVE errored' = errored
  BY <1>0, <1>8, ThreadShape DEF CancelJob, SpawnJob, jobVars
<1>9. ASSUME NEW r \in Reports, AgentReport(r) PROVE errored' = errored
  BY <1>9 DEF AgentReport, jobVars
<1>10. CASE Advance \/ FetchJob \/ DrainDone \/ CheckJobs \/ TaskJobs \/ Restart \/ UNCHANGED vars
  BY <1>10 DEF Advance, FetchJob, DrainDone, CheckJobs, TaskJobs, Restart, vars, jobVars
<1> QED
  BY <1>2, <1>3, <1>4, <1>5, <1>6, <1>7, <1>8, <1>9, <1>10 DEF Next, ProgressAction, LockHolder

(* A job keeps its spec, and a complete one its outcome.                   *)
LEMMA RowsStay ==
  ASSUME IInv, [Next]_vars, NEW j \in JobId
  PROVE  /\ state[j] = "complete" => /\ state'[j] = "complete" /\ errored'[j] = errored[j]
                                     /\ cancelled'[j] = cancelled[j]
         /\ j <= last_id => spec'[j] = spec[j]
         /\ state[j] # "none" => j <= last_id
         /\ last_id \in Nat /\ last_id' \in Nat /\ last_id <= last_id'
<1>0. TypeOK /\ LocksMatchJobs /\ RowsAgree /\ PassAgrees /\ MessagesAgree
  BY DEF IInv, SchedulingInv
<1>1. ThreadMove \/ PlanStep \/ EndStep \/ TaskJobs \/ Restart
  BY <1>0, StepShape
<1>2. state[j] = "complete" => state'[j] = "complete"
  BY <1>0, <1>1, StatesAdvance
<1>3. state[j] = "complete" => errored'[j] = errored[j]
  BY <1>0, ErroredStep DEF Incomplete, TypeOK
<1>4. state[j] # "none" => j <= last_id
  BY SMTT(30), <1>0, Bounds DEF RowsAgree, TypeOK, JobId
<1>5. last_id \in Nat
  BY SMTT(30), <1>0, Bounds DEF TypeOK
<1>6. CASE PlanStep
  <2>1. PICK p : \E c \in CommandId : WellFormed(p) /\ AddJobs(p, c)
    BY <1>6 DEF PlanStep
  <2>2. PICK c \in CommandId : WellFormed(p) /\ AddJobs(p, c)
    BY <2>1
  <2>3. /\ last_id <= last_id' /\ cancelled' = cancelled
        /\ j <= last_id => spec'[j] = spec[j]
    BY <1>0, <2>2, PlanFacts
  <2>4. last_id' \in Nat
    BY SMTT(30), <1>0, <2>2, AddJobsType, Bounds
  <2> QED  BY <1>2, <1>3, <1>4, <1>5, <2>3, <2>4
<1>7. CASE ThreadMove
  BY SMTT(30), <1>2, <1>3, <1>4, <1>5, <1>7 DEF ThreadMove, RowVars
<1>8. CASE EndStep
  <2>1. UNCHANGED <<last_id, spec>> /\ (state[j] = "complete" => cancelled'[j] = cancelled[j])
    BY <1>0, <1>8 DEF EndStep, EndJob, Incomplete, TypeOK
  <2> QED  BY SMTT(30), <1>2, <1>3, <1>4, <1>5, <2>1
<1>9. CASE TaskJobs
  BY SMTT(30), <1>2, <1>3, <1>4, <1>5, <1>9 DEF TaskJobs
<1>10. CASE Restart
  <2>1. UNCHANGED <<last_id, spec>> /\ (state[j] = "complete" => cancelled'[j] = cancelled[j])
    BY <1>10 DEF Restart
  <2> QED  BY SMTT(30), <1>2, <1>3, <1>4, <1>5, <2>1
<1> QED  BY <1>1, <1>6, <1>7, <1>8, <1>9, <1>10

(* Once cancelled, always cancelled, and of the same spec.                 *)
LEMMA CancelledStays ==
  ASSUME IInv, [Next]_vars, NEW j \in JobId, cancelled[j]
  PROVE  state[j] = "complete" /\ cancelled'[j] /\ spec'[j] = spec[j]
<1>1. state[j] = "complete"
  BY DEF IInv, SchedulingInv, RowsAgree
<1> QED  BY <1>1, RowsStay

-----------------------------------------------------------------------------
(* Locks *)

(* A job ends by complete_job, or it is cancelled.                         *)
LEMMA EndsHow ==
  ASSUME IInv, [Next]_vars, NEW h \in JobId, Incomplete(h), ~Incomplete(h)'
  PROVE  \/ cancelled'[h] /\ (CancelJob(h) \/ CancelFailed(h) \/ Restart)
         \/ CompleteJob /\ h = Head(progress).job /\ StillTasked(h)
<1>0. TypeOK /\ LocksMatchJobs /\ RowsAgree /\ PassAgrees /\ MessagesAgree
  BY DEF IInv, SchedulingInv
<1>1. ASSUME UNCHANGED jobVars PROVE FALSE
  BY <1>1 DEF jobVars, Incomplete
<1>2. ASSUME NEW p, NEW c \in CommandId, WellFormed(p), AddJobs(p, c) PROVE FALSE
  <2>1. h <= last_id
    BY RowsStay DEF Incomplete
  <2>2. state'[h] = state[h]
    BY <1>0, <1>2, <2>1, PlanFacts
  <2> QED  BY <2>2 DEF Incomplete
<1>3. ASSUME NEW i, NoHook \/ HookInNewCommand(i) PROVE FALSE
  BY <1>1, <1>2, <1>3, HookPlanWellFormed DEF NoHook, HookInNewCommand, RunHook
<1>4. ASSUME NEW r \in Requests, SubmitCommand(r) PROVE FALSE
  <2> DEFINE p == PlanFor(r, item_state, Expected)
  <2>1. WellFormed(p) /\ \E c \in CommandId : AddJobs(p, c)
    BY <1>0, <1>4, PlanWellFormed DEF SubmitCommand
  <2> HIDE DEF p
  <2> QED  BY <1>2, <2>1
<1>5. ASSUME NEW r \in Reports, AgentReport(r) PROVE FALSE
  BY <1>1, <1>5 DEF AgentReport
<1>6. ASSUME NEW j \in JobId, CancelJob(j) PROVE j = h /\ cancelled'[h]
  BY <1>0, <1>6 DEF CancelJob, TypeOK, Incomplete
<1>7. ASSUME NEW j \in JobId, ThreadAction(j) PROVE FALSE
  BY <1>0, <1>1, <1>7, ThreadShape
<1>8. ASSUME Advance \/ FetchJob PROVE FALSE
  BY <1>1, <1>8 DEF Advance, FetchJob
<1>9. ASSUME CompleteJob PROVE h = Head(progress).job /\ StillTasked(h)
  <2> DEFINE j == Head(progress).job
  <2>1. CASE StillTasked(j)
    <3>1. PICK failed \in BOOLEAN : FinishJob(j, failed, FALSE, "drain")
      BY <1>9, <2>1 DEF CompleteJob
    <3> HIDE DEF j
    <3>2. h = j
      BY <1>0, <3>1 DEF FinishJob, TypeOK, Incomplete
    <3> QED  BY <2>1, <3>2 DEF j
  <2>2. CASE ~StillTasked(j)
    <3>1. UNCHANGED jobVars
      BY <1>9, <2>2 DEF CompleteJob
    <3> QED  BY <1>1, <3>1
  <2> QED  BY <2>1, <2>2
<1>10. ASSUME CompletionHooks PROVE FALSE
  <2>1. NoHook \/ \E i : \E c \in CommandId : RunHook(i, c)
    BY <1>10 DEF CompletionHooks, OpenCommands, HookInNewCommand
  <2> QED  BY <1>2, <1>3, <2>1, HookPlanWellFormed DEF RunHook
<1>11. ASSUME Notify PROVE FALSE
  BY <1>3, <1>11 DEF Notify, Apply
<1>12. ASSUME NEW i \in Items, DrainItem(i) PROVE FALSE
  BY <1>3, <1>12 DEF DrainItem, Apply
<1>13. ASSUME DrainDone \/ CheckJobs PROVE FALSE
  BY <1>1, <1>13 DEF DrainDone, CheckJobs
<1>14. ASSUME NEW j \in JobId, CancelFailed(j) PROVE j = h /\ cancelled'[h]
  BY <1>0, <1>14 DEF CancelFailed, FinishJob, TypeOK, Incomplete
<1>15. ASSUME TaskJobs PROVE FALSE
  BY <1>15 DEF TaskJobs, Incomplete
<1>16. ASSUME NEW j \in JobId, SpawnJob(j) PROVE FALSE
  BY <1>1, <1>16 DEF SpawnJob
<1>17. ASSUME Restart PROVE cancelled'[h]
  BY <1>17 DEF Restart, Incomplete
<1>18. ASSUME UNCHANGED vars PROVE FALSE
  BY <1>1, <1>18 DEF vars
<1> QED
  BY <1>4, <1>5, <1>6, <1>7, <1>8, <1>9, <1>10, <1>11, <1>12, <1>13, <1>14, <1>15, <1>16, <1>17, <1>18
     DEF Next, ProgressAction, LockHolder

(* So does a lock.                                                         *)
LEMMA LocksStay ==
  ASSUME IInv, [Next]_vars, NEW i \in Items, NEW h \in writers[i] \cup readers[i]
  PROVE  /\ h \in JobId /\ Incomplete(h) /\ i \in Writes(spec'[h]) \cup Reads(spec'[h])
         /\ \/ /\ h \in writers[i] => h \in writers'[i]
               /\ h \in readers[i] => h \in readers'[i]
            \/ cancelled'[h]
            \/ CompleteJob /\ h = Head(progress).job /\ StillTasked(h)
<1>1. LocksMatchJobs /\ LocksMatchJobs' /\ TypeOK /\ TypeOK'
  BY NextIInv DEF IInv
<1>2. h \in JobId /\ Incomplete(h) /\ i \in Writes(spec[h]) \cup Reads(spec[h])
  BY <1>1 DEF LocksMatchJobs
<1>3. spec'[h] = spec[h]
  BY <1>2, RowsStay DEF Incomplete
<1>4. CASE Incomplete(h)'
  BY <1>1, <1>2, <1>3, <1>4 DEF LocksMatchJobs
<1>5. CASE ~Incomplete(h)'
  BY <1>2, <1>3, <1>5, EndsHow
<1> QED  BY <1>4, <1>5
=============================================================================
