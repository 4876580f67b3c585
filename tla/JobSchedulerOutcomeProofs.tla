--------------------- MODULE JobSchedulerOutcomeProofs ----------------------
(***************************************************************************)
(* What comes of commands, for any items, plans and bounds: CommandsInv and *)
(* HooksInv, inductive relative to IInv of JobSchedulerProofs.             *)
(***************************************************************************)
EXTENDS JobSchedulerProofs

USE ZenonT(20)


-----------------------------------------------------------------------------
(* Commands *)

(* The row of a complete command says what became of its jobs.             *)
Truthful(c) ==
  LET js == command_to_jobs[c]
  IN  /\ \A k \in js : state[k] = "complete"
      /\ command[c].cancelled <=> \E k \in js : cancelled[k]
      /\ (\E k \in js : errored[k]) => command[c].errored
      /\ command[c].errored => \/ \E k \in js : errored[k]
                               \/ command[c].cancelled

Done(c) == \A k \in command_to_jobs[c] : state[k] = "complete"

(* A command has jobs, and once they are complete so is the command, or    *)
(* the completion hooks of the last of them are about to run.              *)
CommandsInv ==
  /\ \A c \in CommandId : /\ command_to_jobs[c] \subseteq 1..last_id
                          /\ c > last_command => command_to_jobs[c] = {} /\ ~command[c].complete
                          /\ command[c].complete => Truthful(c)
  /\ \A c \in 1..last_command :
       /\ command_to_jobs[c] # {}
       /\ Done(c) => command[c].complete \/ (phase = "hooks" /\ current \in command_to_jobs[c])

(* The job whose hooks are about to run is of no complete command.         *)
HooksInv ==
  phase = "hooks" =>
    /\ current \in JobId /\ state[current] = "complete"
    /\ resume = "cancelling" => cancelled[current]
    /\ \A c \in CommandId : command[c].complete => current \notin command_to_jobs[c]

(* What add_jobs puts into a command: jobs that are not complete.          *)
LEMMA PlanCommands ==
  ASSUME TypeOK, LocksMatchJobs, RowsAgree, NEW p, WellFormed(p), NEW c \in CommandId, AddJobs(p, c)
  PROVE  \E added \in SUBSET (1..last_id') :
           /\ command_to_jobs' = [command_to_jobs EXCEPT ![c] = @ \cup added]
           /\ \A k \in added : state'[k] \in {"pending", "tasked"}
           /\ p.specs # <<>> \/ (\E i \in p.attach : writers[i] # {}) => added # {}
<1> DEFINE new == last_id + 1 .. last_id + Len(p.specs)
           attached == {LatestWrite(writers[i]) : i \in p.attach} \ {0}
<1>1. /\ last_id' = last_id + Len(p.specs) /\ last_id' <= MaxJobs
      /\ state' = [k \in JobId |-> IF k \in new THEN "pending" ELSE state[k]]
      /\ command_to_jobs' = [command_to_jobs EXCEPT ![c] = @ \cup new \cup attached]
  BY DEF AddJobs
<1>2. /\ last_id \in Nat /\ last_id' \in Nat /\ Len(p.specs) \in Nat /\ p.attach \subseteq Items
      /\ p.specs # <<>> => Len(p.specs) > 0
  <2>1. p.specs \in Seq(JobSpecs) /\ p.attach \in SUBSET Items
    BY DEF WellFormed, Plan
  <2>2. last_id \in 0..MaxJobs
    BY DEF TypeOK
  <2> QED  BY SMTT(30), <1>1, <2>1, <2>2, Bounds
<1>3. \A k \in JobId : state[k] # "none" => k \in 1..last_id
  BY SMTT(30), Bounds DEF RowsAgree, TypeOK, JobId
<1>4. ASSUME NEW k \in attached PROVE k \in 1..last_id /\ state[k] \in {"pending", "tasked"}
  <2>1. PICK i \in Items : k = LatestWrite(writers[i]) /\ k # 0
    BY <1>2, <1>4
  <2>2. k \in writers[i]
    BY <2>1, LatestWriteIsLatest DEF TypeOK
  <2>3. k \in JobId /\ Incomplete(k)
    BY <2>2 DEF LocksMatchJobs
  <2> QED  BY <1>3, <2>3 DEF Incomplete
<1>5. ASSUME NEW i \in p.attach, writers[i] # {} PROVE attached # {}
  <2>1. writers[i] \subseteq JobId /\ \A w \in writers[i] : w <= LatestWrite(writers[i])
    BY <1>2, LatestWriteIsLatest DEF TypeOK
  <2>2. LatestWrite(writers[i]) \in writers[i] \cup {0}
    BY <1>2, LatestWriteIsLatest DEF TypeOK
  <2>3. LatestWrite(writers[i]) # 0
    BY SMTT(30), <1>5, <2>1, Bounds DEF JobId
  <2> QED  BY <2>3
<1>6. new \subseteq 1..last_id' /\ (p.specs # <<>> => new # {})
  <2>1. new \subseteq 1..last_id'
    BY SMTT(30), <1>1, <1>2
  <2>2. ASSUME p.specs # <<>> PROVE last_id + 1 \in new
    BY SMTT(30), <1>2, <2>2
  <2> QED  BY <2>1, <2>2
<1>7. 1..last_id' \subseteq JobId
  BY SMTT(30), <1>1, <1>2, Bounds DEF JobId
<1> HIDE DEF attached
<1>8. attached \subseteq 1..last_id' /\ \A k \in attached : k \notin new
  BY SMTT(30), <1>1, <1>2, <1>4
<1> HIDE DEF new
<1>9. \A k \in new \cup attached : state'[k] \in {"pending", "tasked"}
  BY <1>1, <1>4, <1>6, <1>7, <1>8
<1>10. /\ new \cup attached \in SUBSET (1..last_id')
       /\ command_to_jobs' = [command_to_jobs EXCEPT ![c] = @ \cup (new \cup attached)]
  BY <1>1, <1>6, <1>8
<1> QED  BY <1>5, <1>6, <1>9, <1>10

(* No job completes.                                                       *)
NoneCompletes == \A j \in JobId : state'[j] = "complete" => state[j] = "complete"

(* Planning adds pending jobs and completes none.                          *)
LEMMA PlanCompletesNone ==
  ASSUME TypeOK, LocksMatchJobs, RowsAgree, NEW p, WellFormed(p), NEW c \in CommandId, AddJobs(p, c)
  PROVE  NoneCompletes
<1>1. state' = [k \in JobId |-> IF k \in last_id + 1 .. last_id + Len(p.specs) THEN "pending" ELSE state[k]]
  BY DEF AddJobs
<1> QED  BY <1>1 DEF NoneCompletes

(* Complete jobs keep their outcome, so a truthful command stays so.       *)
LEMMA TruthStays ==
  ASSUME IInv, [Next]_vars, CommandsInv, NEW c \in CommandId, command[c].complete,
         command'[c] = command[c], command_to_jobs'[c] = command_to_jobs[c]
  PROVE  Truthful(c)'
<1>1. Truthful(c) /\ \A k \in command_to_jobs[c] : k \in JobId
  BY DEF CommandsInv, IInv, TypeOK
<1>2. \A k \in command_to_jobs[c] : /\ state'[k] = "complete" /\ errored'[k] = errored[k]
                                    /\ cancelled'[k] = cancelled[k]
  BY <1>1, RowsStay DEF Truthful
<1> QED  BY <1>1, <1>2 DEF Truthful

(* Steps that leave the commands alone.                                    *)
LEMMA CommandsKept ==
  ASSUME IInv, [Next]_vars, CommandsInv, HooksInv, UNCHANGED cmdVars, NoneCompletes,
         \/ UNCHANGED <<phase, current, resume>>
         \/ phase # "hooks" /\ phase' # "hooks"
  PROVE  CommandsInv' /\ HooksInv'
<1>1. \A j \in JobId : last_id \in Nat /\ last_id' \in Nat /\ last_id <= last_id'
  BY RowsStay
<1>2. \A c \in CommandId : command_to_jobs[c] \subseteq JobId
  BY DEF IInv, TypeOK
<1>3. ASSUME NEW c \in CommandId
      PROVE  /\ command_to_jobs'[c] \subseteq 1..last_id'
             /\ c > last_command' => command_to_jobs'[c] = {} /\ ~command'[c].complete
             /\ command'[c].complete => Truthful(c)'
  <2>1. command_to_jobs'[c] \subseteq 1..last_id'
    <3>1. \A k \in command_to_jobs[c] : k \in JobId /\ k \in 1..last_id
      BY <1>2 DEF CommandsInv
    <3> QED  BY SMTT(30), <1>1, <3>1 DEF cmdVars
  <2> QED  BY <2>1, TruthStays DEF CommandsInv, cmdVars
<1>4. ASSUME NEW c \in 1..last_command', Done(c)'
      PROVE  command'[c].complete \/ (phase' = "hooks" /\ current' \in command_to_jobs'[c])
  <2>1. c \in CommandId
    BY SMTT(30), Bounds DEF IInv, TypeOK, CommandId, cmdVars
  <2>2. Done(c)
    BY <1>2, <1>4, <2>1 DEF Done, NoneCompletes, cmdVars
  <2> QED  BY <1>4, <2>2 DEF CommandsInv, cmdVars
<1>5. HooksInv'
  BY RowsStay DEF HooksInv, cmdVars
<1> QED  BY <1>3, <1>4, <1>5 DEF CommandsInv, cmdVars

(* A new command, outside the hooks.                                       *)
LEMMA CommandPlanned ==
  ASSUME IInv, [Next]_vars, CommandsInv, NEW p, WellFormed(p), NEW c \in CommandId,
         NewCommand(c), AddJobs(p, c), UNCHANGED command, phase # "hooks", phase' # "hooks",
         p.specs # <<>> \/ (\E i \in p.attach : writers[i] # {})
  PROVE  CommandsInv' /\ HooksInv'
<1>0. TypeOK /\ LocksMatchJobs /\ RowsAgree
  BY DEF IInv, SchedulingInv
<1>1. PICK added \in SUBSET (1..last_id') :
           /\ command_to_jobs' = [command_to_jobs EXCEPT ![c] = @ \cup added]
           /\ \A k \in added : state'[k] \in {"pending", "tasked"}
           /\ added # {}
  BY SMTT(30), <1>0, PlanCommands
<1>2. c = last_command + 1 /\ last_command' = c /\ last_command \in Nat /\ c \in Nat
  BY SMTT(30), <1>0, Bounds DEF NewCommand, TypeOK, CommandId
<1>3. NoneCompletes
  BY <1>0, PlanCompletesNone
<1>4. command_to_jobs[c] = {} /\ ~command[c].complete
  BY SMTT(30), <1>2 DEF CommandsInv
<1>5. \A b \in CommandId : command_to_jobs'[b] = IF b = c THEN added ELSE command_to_jobs[b]
  BY <1>0, <1>1, <1>4 DEF TypeOK
<1>6. \A j \in JobId : last_id \in Nat /\ last_id' \in Nat /\ last_id <= last_id'
  BY RowsStay
<1>7. \A b \in CommandId : command_to_jobs[b] \subseteq JobId /\ command_to_jobs[b] \subseteq 1..last_id
  BY <1>0 DEF TypeOK, CommandsInv
<1>8. ASSUME NEW b \in CommandId
      PROVE  /\ command_to_jobs'[b] \subseteq 1..last_id'
             /\ b > last_command' => command_to_jobs'[b] = {} /\ ~command'[b].complete
             /\ command'[b].complete => Truthful(b)'
  <2>1. command_to_jobs'[b] \subseteq 1..last_id'
    <3>1. \A k \in command_to_jobs[b] : k \in 1..last_id'
      BY SMTT(30), <1>6, <1>7
    <3> QED  BY <1>1, <1>5, <3>1
  <2>2. b > last_command' => b > last_command /\ b # c
    BY SMT, <1>2 DEF CommandId
  <2>3. command'[b].complete => b # c
    BY <1>4
  <2> QED  BY <1>5, <2>1, <2>2, <2>3, TruthStays DEF CommandsInv
<1>9. ASSUME NEW b \in 1..last_command'
      PROVE  command_to_jobs'[b] # {} /\ (Done(b)' => command'[b].complete)
  <2>1. b \in CommandId
    BY SMT, <1>2, Bounds DEF CommandId
  <2>2. CASE b = c
    <3>1. PICK k \in added : state'[k] # "complete"
      BY <1>1
    <3> QED  BY <1>1, <1>5, <2>2, <3>1 DEF Done
  <2>3. CASE b # c
    <3>1. b \in 1..last_command
      BY SMTT(30), <1>2, <2>3
    <3>2. Done(b)' => Done(b)
      BY <1>3, <1>5, <1>7, <2>1, <2>3 DEF Done, NoneCompletes
    <3> QED  BY <1>5, <2>1, <2>3, <3>1, <3>2 DEF CommandsInv
  <2> QED  BY <2>2, <2>3
<1> QED  BY <1>8, <1>9 DEF CommandsInv, HooksInv


(* What update_commands makes of a command whose jobs are complete.        *)
JustCompleted(c) ==
  /\ command[c].complete
  /\ command[c].errored <=> \E k \in command_to_jobs[c] : errored[k]
  /\ command[c].cancelled <=> \E k \in command_to_jobs[c] : cancelled[k]

(* Command.update_jobs: what the commands of a job that ended look like.   *)
LEMMA UpdatedCommands ==
  ASSUME NEW j, UpdateCommands(j), NEW c \in CommandId
  PROVE  IF j \in command_to_jobs'[c] /\ Done(c)' THEN JustCompleted(c)'
                                                 ELSE command'[c] = command[c]
<1>1. CASE j \in command_to_jobs'[c] /\ Done(c)'
  <2>1. command'[c] = [complete  |-> TRUE,
                       errored   |-> \E k \in command_to_jobs'[c] : errored'[k],
                       cancelled |-> \E k \in command_to_jobs'[c] : cancelled'[k]]
    BY <1>1 DEF UpdateCommands, Done, AnyOf
  <2>2. ASSUME NEW a, NEW b, command'[c] = [complete |-> TRUE, errored |-> a, cancelled |-> b]
        PROVE  command'[c].complete = TRUE /\ command'[c].errored = a /\ command'[c].cancelled = b
    BY SMT, <2>2
  <2>3. /\ command'[c].complete = TRUE
        /\ command'[c].errored = (\E k \in command_to_jobs'[c] : errored'[k])
        /\ command'[c].cancelled = (\E k \in command_to_jobs'[c] : cancelled'[k])
    BY <2>1, <2>2
  <2> QED  BY <1>1, <2>3 DEF JustCompleted
<1>2. CASE ~(j \in command_to_jobs'[c] /\ Done(c)')
  <2>1. command'[c] = command[c]
    BY <1>2 DEF UpdateCommands, Done, AnyOf
  <2> QED  BY <1>2, <2>1
<1> QED  BY <1>1, <1>2

(* The row that update_jobs writes is true of the jobs of the command.     *)
LEMMA CompletedTruthful ==
  ASSUME NEW c, JustCompleted(c)', Done(c)' PROVE Truthful(c)'
<1>1. /\ \A k \in command_to_jobs'[c] : state'[k] = "complete"
      /\ command'[c].errored <=> \E k \in command_to_jobs'[c] : errored'[k]
      /\ command'[c].cancelled <=> \E k \in command_to_jobs'[c] : cancelled'[k]
  BY DEF JustCompleted, Done
<1> QED  BY <1>1 DEF Truthful

(* A job ends, by cancel_job: its commands are updated at once.            *)
LEMMA CommandsAfterCancel ==
  ASSUME IInv, [Next]_vars, CommandsInv, NEW j \in JobId, CancelJob(j)
  PROVE  CommandsInv' /\ HooksInv'
<1>0. TypeOK /\ LocksMatchJobs /\ RowsAgree
  BY DEF IInv, SchedulingInv
<1>1. /\ phase = "free" /\ phase' = "free" /\ UNCHANGED <<last_id, last_command, command_to_jobs>>
      /\ state[j] \in {"pending", "tasked"} /\ state' = [state EXCEPT ![j] = "complete"]
      /\ UpdateCommands(j)
  BY DEF CancelJob, ctlVars
<1>2. \A c \in CommandId : command_to_jobs[c] \subseteq JobId
  BY <1>0 DEF TypeOK
<1>3. \A k \in JobId : k # j => state'[k] = state[k]
  BY <1>0, <1>1 DEF TypeOK
<1>4. \A c \in CommandId : IF j \in command_to_jobs[c] /\ Done(c)' THEN JustCompleted(c)'
                                                              ELSE command'[c] = command[c]
  BY <1>1, UpdatedCommands
<1>5. \A c \in CommandId : command[c].complete => j \notin command_to_jobs[c]
  BY <1>1 DEF CommandsInv, Truthful
<1>6. ASSUME NEW c \in CommandId
      PROVE  /\ c > last_command' => command_to_jobs'[c] = {} /\ ~command'[c].complete
             /\ command'[c].complete => Truthful(c)'
  <2>1. CASE j \in command_to_jobs[c] /\ Done(c)'
    <3>1. JustCompleted(c)'
      BY <1>4, <2>1
    <3>2. ~(c > last_command')
      BY <1>1, <2>1 DEF CommandsInv
    <3> QED  BY <2>1, <3>1, <3>2, CompletedTruthful
  <2>2. CASE ~(j \in command_to_jobs[c] /\ Done(c)')
    <3>1. command'[c] = command[c]
      BY <1>4, <2>2
    <3> QED  BY <1>1, <3>1, TruthStays DEF CommandsInv
  <2> QED  BY <2>1, <2>2
<1>7. ASSUME NEW c \in 1..last_command', Done(c)' PROVE command'[c].complete
  <2>1. c \in CommandId /\ c \in 1..last_command
    BY SMTT(30), <1>0, <1>1, Bounds DEF TypeOK, CommandId
  <2>2. CASE j \in command_to_jobs[c]
    BY <1>4, <1>7, <2>1, <2>2 DEF JustCompleted
  <2>3. CASE j \notin command_to_jobs[c]
    <3>1. Done(c)
      BY <1>1, <1>2, <1>3, <1>7, <2>1, <2>3 DEF Done
    <3> QED  BY <1>1, <1>4, <2>1, <2>3, <3>1 DEF CommandsInv
  <2> QED  BY <2>2, <2>3
<1> QED  BY <1>1, <1>6, <1>7 DEF CommandsInv, HooksInv

(* A job ends, by complete_job or cancelled by the checks: its hooks are   *)
(* next, and no command that has it is complete.                           *)
LEMMA CommandsAfterFinish ==
  ASSUME IInv, [Next]_vars, CommandsInv, NEW j \in JobId, Incomplete(j), NEW e, NEW x \in BOOLEAN, NEW next,
         FinishJob(j, e, x, next), UNCHANGED cmdVars, phase # "hooks",
         next = "cancelling" => x
  PROVE  CommandsInv' /\ HooksInv'
<1>0. TypeOK /\ LocksMatchJobs /\ RowsAgree
  BY DEF IInv, SchedulingInv
<1>1. /\ state' = [state EXCEPT ![j] = "complete"] /\ cancelled' = [cancelled EXCEPT ![j] = x]
      /\ phase' = "hooks" /\ current' = j /\ resume' = next /\ UNCHANGED last_id
  BY DEF FinishJob
<1>2. UNCHANGED <<last_command, command, command_to_jobs>>
  BY DEF cmdVars
<1>3. \A c \in CommandId : command_to_jobs[c] \subseteq JobId
  BY <1>0 DEF TypeOK
<1>4. /\ \A k \in JobId : k # j => state'[k] = state[k]
      /\ state'[j] = "complete" /\ cancelled'[j] = x
  BY <1>0, <1>1 DEF TypeOK
<1>5. \A c \in CommandId : command[c].complete => j \notin command_to_jobs[c]
  BY DEF CommandsInv, Truthful, Incomplete
<1>6. ASSUME NEW c \in CommandId
      PROVE  /\ command_to_jobs'[c] \subseteq 1..last_id'
             /\ c > last_command' => command_to_jobs'[c] = {} /\ ~command'[c].complete
             /\ command'[c].complete => Truthful(c)'
  BY <1>1, <1>2, TruthStays DEF CommandsInv
<1>7. ASSUME NEW c \in 1..last_command', Done(c)' PROVE command'[c].complete \/ current' \in command_to_jobs'[c]
  <2>1. c \in CommandId /\ c \in 1..last_command
    BY SMTT(30), <1>0, <1>2, Bounds DEF TypeOK, CommandId
  <2>2. CASE j \notin command_to_jobs[c]
    <3>1. Done(c)
      BY <1>2, <1>3, <1>4, <1>7, <2>1, <2>2 DEF Done
    <3> QED  BY <1>2, <2>1, <3>1 DEF CommandsInv
  <2> QED  BY <1>1, <1>2, <2>2
<1>8. CommandsInv'
  BY <1>1, <1>2, <1>6, <1>7 DEF CommandsInv
<1>9. HooksInv'
  BY <1>1, <1>2, <1>4, <1>5 DEF HooksInv
<1> QED  BY <1>8, <1>9

(* The completion hooks, and the update of the commands after them.        *)
LEMMA CommandsAfterHooks ==
  ASSUME IInv, [Next]_vars, CommandsInv, HooksInv, CompletionHooks
  PROVE  CommandsInv' /\ HooksInv'
<1>0. TypeOK /\ LocksMatchJobs /\ RowsAgree
  BY DEF IInv, SchedulingInv
<1> DEFINE j == current
<1>1. /\ phase = "hooks" /\ phase' = resume /\ resume \in {"drain", "cancelling"}
      /\ j \in JobId /\ state[j] = "complete"
      /\ \A c \in CommandId : command[c].complete => j \notin command_to_jobs[c]
  BY <1>0 DEF CompletionHooks, HooksInv, TypeOK
<1>2. PICK t \in Nat, added \in SUBSET (1..last_id') :
        /\ \A c \in CommandId : command_to_jobs'[c] = IF c = t THEN command_to_jobs[c] \cup added
                                                            ELSE command_to_jobs[c]
        /\ \A k \in added : state'[k] \in {"pending", "tasked"}
        /\ NoneCompletes /\ last_command' \in Nat /\ last_command' <= MaxCommands
        /\ \/ added = {} /\ last_command' = last_command
           \/ /\ added # {} /\ t \in CommandId /\ ~command[t].complete
              /\ \/ last_command' = last_command /\ t <= last_command
                 \/ last_command' = t /\ t = last_command + 1
  <2>1. last_command \in Nat /\ last_command <= MaxCommands
    BY SMTT(30), <1>0, Bounds DEF TypeOK
  <2>2. CASE NoHook
    <3>1. UNCHANGED <<state, command_to_jobs, last_command>>
      BY <2>2 DEF NoHook, jobVars
    <3>2. 0 \notin CommandId /\ {} \in SUBSET (1..last_id') /\ NoneCompletes
      BY SMT, <3>1, Bounds DEF NoneCompletes, CommandId
    <3>3. 0 \in Nat /\ \A c \in CommandId : command_to_jobs'[c] = IF c = 0 THEN command_to_jobs[c] \cup {}
                                                                     ELSE command_to_jobs[c]
      BY <3>1, <3>2
    <3> QED  BY <2>1, <3>1, <3>2, <3>3
  <2>3. ASSUME NEW i, NEW t \in CommandId, RunHook(i, t)
        PROVE  \E added \in SUBSET (1..last_id') :
                 /\ \A c \in CommandId : command_to_jobs'[c] = IF c = t THEN command_to_jobs[c] \cup added
                                                                     ELSE command_to_jobs[c]
                 /\ \A k \in added : state'[k] \in {"pending", "tasked"}
                 /\ NoneCompletes /\ added # {}
    <3>1. AddJobs(HookPlan, t) /\ WellFormed(HookPlan) /\ HookPlan.specs # <<>>
      BY <2>3, HookPlanWellFormed DEF RunHook, HookPlan
    <3>2. PICK added \in SUBSET (1..last_id') :
           /\ command_to_jobs' = [command_to_jobs EXCEPT ![t] = @ \cup added]
           /\ \A k \in added : state'[k] \in {"pending", "tasked"}
           /\ added # {}
      BY SMTT(30), <1>0, <3>1, PlanCommands
    <3>3. \A c \in CommandId : command_to_jobs'[c] = IF c = t THEN command_to_jobs[c] \cup added
                                                            ELSE command_to_jobs[c]
      BY <1>0, <3>2 DEF TypeOK
    <3> QED  BY <1>0, <3>1, <3>2, <3>3, PlanCompletesNone
  <2>4. CASE ~NoHook
    <3>1. PICK i \in Writes(spec[current]) :
            IF OpenCommands(current) # {}
            THEN \E c \in OpenCommands(current) : RunHook(i, c) /\ UNCHANGED last_command
            ELSE HookInNewCommand(i)
      BY <2>4 DEF CompletionHooks
    <3>2. CASE OpenCommands(current) # {}
      <4>1. PICK t \in OpenCommands(current) : RunHook(i, t) /\ UNCHANGED last_command
        BY <3>1, <3>2
      <4>2. t \in CommandId /\ ~command[t].complete /\ command_to_jobs[t] # {} /\ t \in Nat
        BY SMTT(30), <4>1, Bounds DEF OpenCommands, CommandId
      <4>3. t <= last_command
        BY SMT, <2>1, <4>2 DEF CommandsInv
      <4> QED  BY <2>1, <2>3, <4>1, <4>2, <4>3
    <3>3. CASE OpenCommands(current) = {}
      <4>1. PICK t \in CommandId : NewCommand(t) /\ RunHook(i, t)
        BY <3>1, <3>3 DEF HookInNewCommand
      <4>2. t = last_command + 1 /\ last_command' = t /\ t \in Nat /\ t <= MaxCommands
        BY SMTT(30), <4>1, Bounds DEF NewCommand, CommandId
      <4>3. ~command[t].complete
        BY SMT, <2>1, <4>2 DEF CommandsInv
      <4>4. PICK added \in SUBSET (1..last_id') :
              /\ \A c \in CommandId : command_to_jobs'[c] = IF c = t THEN command_to_jobs[c] \cup added
                                                                  ELSE command_to_jobs[c]
              /\ \A k \in added : state'[k] \in {"pending", "tasked"}
              /\ NoneCompletes /\ added # {}
        BY <2>3, <4>1
      <4>5. last_command' \in Nat /\ last_command' <= MaxCommands
        BY <4>2
      <4> QED  BY <4>1, <4>2, <4>3, <4>4, <4>5
    <3> QED  BY <3>2, <3>3
  <2> QED  BY <2>2, <2>4
<1>3. \A c \in CommandId : IF j \in command_to_jobs'[c] /\ Done(c)' THEN JustCompleted(c)'
                                                               ELSE command'[c] = command[c]
  BY UpdatedCommands DEF CompletionHooks
<1>4. last_command \in Nat /\ \A c \in CommandId : command_to_jobs[c] \subseteq JobId /\ c \in Nat
  BY SMTT(30), <1>0, Bounds DEF TypeOK, CommandId
<1>5. last_id \in Nat /\ last_id' \in Nat /\ last_id <= last_id'
  BY <1>1, RowsStay
<1>6. ASSUME NEW c \in CommandId, command[c].complete
      PROVE  command_to_jobs'[c] = command_to_jobs[c] /\ command'[c] = command[c]
  <2>1. command_to_jobs'[c] = command_to_jobs[c]
    BY <1>2, <1>6
  <2> QED  BY <1>1, <1>3, <1>6, <2>1
<1>7. ASSUME NEW c \in CommandId
      PROVE  /\ command_to_jobs'[c] \subseteq 1..last_id'
             /\ c > last_command' => command_to_jobs'[c] = {} /\ ~command'[c].complete
             /\ command'[c].complete => Truthful(c)'
  <2>1. command_to_jobs'[c] \subseteq 1..last_id'
    <3>1. \A k \in command_to_jobs[c] : k \in 1..last_id'
      BY SMTT(30), <1>5 DEF CommandsInv
    <3> QED  BY <1>2, <3>1
  <2>2. ASSUME c > last_command' PROVE command_to_jobs'[c] = {} /\ ~command'[c].complete
    <3>1. c > last_command /\ (c = t => added = {})
      BY SMTT(30), <1>2, <1>4, <2>2
    <3>2. command_to_jobs'[c] = {} /\ ~command[c].complete
      BY <1>2, <3>1 DEF CommandsInv
    <3> QED  BY <1>3, <3>2
  <2>3. CASE command[c].complete
    BY <1>6, <2>1, <2>2, <2>3, TruthStays
  <2>4. CASE ~command[c].complete
    <3>1. command'[c].complete => JustCompleted(c)' /\ Done(c)'
      BY <1>3, <2>4
    <3> QED  BY <2>1, <2>2, <3>1, CompletedTruthful
  <2> QED  BY <2>3, <2>4
<1>8. ASSUME NEW c \in 1..last_command'
      PROVE  command_to_jobs'[c] # {} /\ (Done(c)' => command'[c].complete)
  <2>1. c \in CommandId
    BY SMTT(30), <1>2, Bounds DEF CommandId
  <2>2. CASE c = t /\ added # {}
    <3>1. PICK k \in added : state'[k] # "complete"
      BY <1>2, <2>2
    <3> QED  BY <1>2, <2>1, <2>2, <3>1 DEF Done
  <2>3. CASE ~(c = t /\ added # {})
    <3>0. command_to_jobs'[c] = command_to_jobs[c]
      BY <1>2, <2>1, <2>3
    <3>1. c \in 1..last_command /\ command_to_jobs'[c] = command_to_jobs[c]
      BY SMTT(30), <1>2, <1>4, <2>1, <2>3, <3>0
    <3>2. command_to_jobs[c] # {} /\ (Done(c) => command[c].complete \/ j \in command_to_jobs[c])
      BY <3>1 DEF CommandsInv
    <3>3. Done(c)' => Done(c)
      BY <1>2, <1>4, <2>1, <3>1 DEF Done, NoneCompletes
    <3>4. CASE j \in command_to_jobs[c]
      BY <1>3, <2>1, <3>1, <3>2, <3>4 DEF JustCompleted
    <3>5. CASE j \notin command_to_jobs[c]
      BY <1>3, <2>1, <3>1, <3>2, <3>3, <3>5
    <3> QED  BY <3>4, <3>5
  <2> QED  BY <2>2, <2>3
<1>9. phase' # "hooks"
  BY <1>1
<1> QED  BY <1>7, <1>8, <1>9 DEF CommandsInv, HooksInv

(* Service.run completes what was open when the process died: a command    *)
(* with a job that it cancels, or that the checks had just cancelled.      *)
LEMMA CommandsAfterRestart ==
  ASSUME IInv, [Next]_vars, CommandsInv, HooksInv, Restart
  PROVE  CommandsInv' /\ HooksInv'
<1>0. TypeOK /\ RowsAgree
  BY DEF IInv, SchedulingInv
<1>1. /\ phase' = "free" /\ (phase = "hooks" => resume = "cancelling")
      /\ UNCHANGED <<last_id, errored, last_command, command_to_jobs>>
      /\ \A k \in JobId : /\ k <= last_id => state'[k] = "complete"
                          /\ cancelled'[k] = IF state[k] \in {"pending", "tasked"} THEN TRUE ELSE cancelled[k]
  BY DEF Restart
<1>2. \A c \in CommandId : command'[c] = IF c <= last_command /\ ~command[c].complete
                                         THEN [complete |-> TRUE, errored |-> TRUE, cancelled |-> TRUE]
                                         ELSE command[c]
  BY DEF Restart
<1>3. \A c \in CommandId : \A k \in command_to_jobs[c] : k \in JobId /\ k <= last_id /\ state[k] # "none"
  BY SMTT(30), <1>0, Bounds DEF CommandsInv, TypeOK, RowsAgree, JobId
<1>4. ASSUME NEW c \in CommandId, c <= last_command, ~command[c].complete
      PROVE  /\ command'[c].complete /\ command'[c].errored /\ command'[c].cancelled
             /\ \E k \in command_to_jobs[c] : cancelled'[k]
  <2>1. command'[c] = [complete |-> TRUE, errored |-> TRUE, cancelled |-> TRUE]
    BY <1>2, <1>4
  <2>2. \E k \in command_to_jobs[c] : cancelled'[k]
    <3>1. c \in 1..last_command
      BY SMTT(30), <1>0, <1>4, Bounds DEF CommandId, TypeOK
    <3>2. CASE Done(c)
      BY <1>1, <1>3, <1>4, <3>1, <3>2 DEF CommandsInv, HooksInv
    <3>3. CASE ~Done(c)
      <4>1. PICK k \in command_to_jobs[c] : state[k] # "complete"
        BY <3>3 DEF Done
      <4>2. state[k] \in {"pending", "tasked"}
        BY <1>0, <1>3, <4>1 DEF TypeOK
      <4> QED  BY <1>1, <1>3, <4>1, <4>2
    <3> QED  BY <3>2, <3>3
  <2> QED  BY SMTT(30), <2>1, <2>2
<1>5. ASSUME NEW c \in CommandId
      PROVE  /\ command_to_jobs'[c] \subseteq 1..last_id'
             /\ c > last_command' => command_to_jobs'[c] = {} /\ ~command'[c].complete
             /\ command'[c].complete => Truthful(c)'
  <2>1. /\ command_to_jobs'[c] \subseteq 1..last_id'
        /\ c > last_command' => command_to_jobs'[c] = {} /\ ~command'[c].complete
    <3>1. c > last_command => ~(c <= last_command)
      BY SMTT(30), <1>0, Bounds DEF TypeOK, CommandId
    <3> QED  BY <1>1, <1>2, <3>1 DEF CommandsInv
  <2>2. CASE c <= last_command /\ ~command[c].complete
    <3>1. \A k \in command_to_jobs'[c] : state'[k] = "complete"
      BY <1>1, <1>3
    <3>2. Truthful(c)'
      BY <1>1, <1>4, <2>2, <3>1 DEF Truthful
    <3> QED  BY <2>1, <3>2
  <2>3. CASE ~(c <= last_command /\ ~command[c].complete)
    <3>1. command'[c] = command[c] /\ command_to_jobs'[c] = command_to_jobs[c]
      BY <1>1, <1>2, <2>3
    <3> QED  BY <2>1, <3>1, TruthStays
  <2> QED  BY <2>2, <2>3
<1>6. ASSUME NEW c \in 1..last_command' PROVE command_to_jobs'[c] # {} /\ command'[c].complete
  <2>1. c \in CommandId /\ c \in 1..last_command /\ c <= last_command
    BY SMTT(30), <1>0, <1>1, Bounds DEF TypeOK, CommandId
  <2>2. command'[c].complete
    BY <1>2, <1>4, <2>1
  <2> QED  BY <1>1, <2>1, <2>2 DEF CommandsInv
<1> QED  BY <1>1, <1>5, <1>6 DEF CommandsInv, HooksInv

(* Requests, notifications and replays put their jobs into new commands.   *)
LEMMA CommandsAfterHook ==
  ASSUME IInv, [Next]_vars, CommandsInv, HooksInv, NEW i, NoHook \/ HookInNewCommand(i),
         UNCHANGED command, phase # "hooks", phase' # "hooks"
  PROVE  CommandsInv' /\ HooksInv'
<1>1. CASE NoHook
  <2>1. UNCHANGED cmdVars /\ NoneCompletes
    BY <1>1 DEF NoHook, cmdVars, jobVars, NoneCompletes
  <2> QED  BY <2>1, CommandsKept
<1>2. CASE HookInNewCommand(i)
  <2>1. PICK c \in CommandId : NewCommand(c) /\ AddJobs(HookPlan, c)
    BY <1>2 DEF HookInNewCommand, RunHook
  <2>2. HookPlan.specs # <<>>
    BY DEF HookPlan
  <2> QED  BY <2>1, <2>2, CommandPlanned, HookPlanWellFormed
<1> QED  BY <1>1, <1>2

(* set_state: a new command has open jobs to wait for.                     *)
LEMMA CommandsAfterSubmit ==
  ASSUME IInv, [Next]_vars, CommandsInv, NEW r \in Requests, SubmitCommand(r)
  PROVE  CommandsInv' /\ HooksInv'
<1> DEFINE p == PlanFor(r, item_state, Expected)
<1>0. TypeOK
  BY DEF IInv
<1>1. WellFormed(p)
  BY <1>0, PlanWellFormed
<1>2. ASSUME NEW i \in p.attach PROVE writers[i] # {}
  <2>1. item_state \in [Items -> States] /\ Expected \in [Items -> States]
    BY <1>0, ExpectedType DEF TypeOK
  <2>2. i \in Items /\ item_state[i] # Expected[i]
    BY <1>1, <1>2, <2>1, PlanAssumption DEF WellFormed, Plan
  <2>3. LatestWrite(writers[i]) # 0
    BY <2>2 DEF Expected
  <2>4. LatestWrite(writers[i]) \in writers[i] \cup {0}
    BY <1>0, <2>2, LatestWriteIsLatest DEF TypeOK
  <2> QED  BY <2>3, <2>4
<1>3. /\ UNCHANGED command /\ phase = "free" /\ phase' = "free"
      /\ p.specs # <<>> \/ p.attach # {}
      /\ \E c \in CommandId : NewCommand(c) /\ AddJobs(p, c)
  BY DEF SubmitCommand, ctlVars
<1> HIDE DEF p
<1> QED  BY <1>1, <1>2, <1>3, CommandPlanned

(* Every step of the scheduler keeps the commands truthful.                *)
LEMMA CommandsStep ==
  ASSUME IInv, [Next]_vars, CommandsInv, HooksInv
  PROVE  CommandsInv' /\ HooksInv'
<1>0. TypeOK /\ RowsAgree /\ PassAgrees /\ MessagesAgree
  BY DEF IInv, SchedulingInv
<1>1. ASSUME UNCHANGED <<jobVars, cmdVars>>,
             UNCHANGED <<phase, current, resume>> \/ (phase # "hooks" /\ phase' # "hooks")
      PROVE  CommandsInv' /\ HooksInv'
  <2>1. UNCHANGED cmdVars /\ NoneCompletes
    BY <1>1 DEF jobVars, NoneCompletes
  <2> QED  BY <1>1, <2>1, CommandsKept
<1>2. ASSUME NEW r \in Reports, AgentReport(r) PROVE CommandsInv' /\ HooksInv'
  BY <1>1, <1>2 DEF AgentReport, ctlVars
<1>3. ASSUME NEW j \in JobId, ThreadAction(j) PROVE CommandsInv' /\ HooksInv'
  <2>1. UNCHANGED <<jobVars, cmdVars, ctlVars>>
    BY <1>0, <1>3, ThreadShape
  <2> QED  BY <1>1, <2>1 DEF ctlVars
<1>4. CASE Advance
  BY <1>1, <1>4 DEF Advance
<1>5. CASE FetchJob
  BY <1>1, <1>5 DEF FetchJob, ctlVars
<1>6. CASE CompleteJob
  <2> DEFINE j == Head(progress).job
  <2>1. j \in JobId
    <3>1. progress # <<>> /\ Head(progress).op = "complete_job" /\ progress \in Seq(Message)
      BY <1>0, <1>6 DEF CompleteJob, MessagesAgree, TypeOK
    <3>2. Head(progress) \in Message
      BY SMTT(30), <3>1
    <3> QED  BY SMTT(30), <3>1, <3>2 DEF Message, AdvanceMsg
  <2>2. UNCHANGED cmdVars /\ phase # "hooks"
    BY <1>6 DEF CompleteJob
  <2>3. CASE StillTasked(j)
    <3>1. PICK failed \in BOOLEAN : FinishJob(j, failed, FALSE, "drain")
      BY <1>6, <2>3 DEF CompleteJob
    <3> HIDE DEF j
    <3>2. Incomplete(j)
      BY <2>3 DEF StillTasked, Incomplete
    <3> QED  BY <2>1, <2>2, <3>1, <3>2, CommandsAfterFinish
  <2>4. CASE ~StillTasked(j)
    <3>1. UNCHANGED <<jobVars, phase, current, resume>>
      BY <1>6, <2>4 DEF CompleteJob
    <3> QED  BY <1>1, <2>2, <3>1
  <2> QED  BY <2>3, <2>4
<1>7. CASE CompletionHooks
  BY <1>7, CommandsAfterHooks
<1>8. CASE Notify
  <2>1. phase = "free" /\ phase' = "run_next" /\ UNCHANGED command
    BY <1>8 DEF Notify
  <2>2. \E i : NoHook \/ HookInNewCommand(i)
    BY <1>8 DEF Notify, Apply
  <2> QED  BY <2>1, <2>2, CommandsAfterHook
<1>9. ASSUME NEW i \in Items, DrainItem(i) PROVE CommandsInv' /\ HooksInv'
  <2>1. phase = "drain" /\ phase' = "drain" /\ UNCHANGED command
    BY <1>9 DEF DrainItem, ctlVars
  <2>2. \E x : NoHook \/ HookInNewCommand(x)
    BY <1>9 DEF DrainItem, Apply
  <2> QED  BY <2>1, <2>2, CommandsAfterHook
<1>10. CASE DrainDone
  BY <1>1, <1>10 DEF DrainDone
<1>11. CASE CheckJobs
  <2>1. UNCHANGED <<jobVars, cmdVars>> /\ phase = "run_next" /\ phase' # "hooks"
    BY <1>11 DEF CheckJobs, GoTo
  <2> QED  BY <1>1, <2>1
<1>12. ASSUME NEW j \in JobId, CancelFailed(j) PROVE CommandsInv' /\ HooksInv'
  <2>1. Incomplete(j)
    BY <1>0, <1>12 DEF CancelFailed, PassAgrees, Checked, Incomplete
  <2>2. FinishJob(j, FALSE, TRUE, "cancelling") /\ UNCHANGED cmdVars /\ phase # "hooks"
    BY <1>12 DEF CancelFailed
  <2> QED  BY <2>1, <2>2, CommandsAfterFinish
<1>13. CASE TaskJobs
  <2>1. UNCHANGED cmdVars /\ phase = "cancelling" /\ phase' # "hooks" /\ NoneCompletes
    BY <1>13 DEF TaskJobs, GoTo, AfterSpawning, NoneCompletes
  <2> QED  BY <2>1, CommandsKept
<1>14. ASSUME NEW j \in JobId, SpawnJob(j) PROVE CommandsInv' /\ HooksInv'
  <2>1. UNCHANGED <<jobVars, cmdVars>> /\ phase = "spawning" /\ phase' # "hooks"
    BY <1>14 DEF SpawnJob, GoTo, AfterSpawning
  <2> QED  BY <1>1, <2>1
<1>15. CASE UNCHANGED vars
  BY <1>1, <1>15 DEF vars, ctlVars
<1> QED
  BY <1>2, <1>3, <1>4, <1>5, <1>6, <1>7, <1>8, <1>9, <1>10, <1>11, <1>12, <1>13, <1>14, <1>15,
     CommandsAfterSubmit, CommandsAfterCancel, CommandsAfterRestart
     DEF Next, ProgressAction, LockHolder

(* No step rewrites the row of a complete command.                         *)
LEMMA CommandsFinal ==
  ASSUME IInv, [Next]_vars, CommandsInv, HooksInv, NEW c \in CommandId, command[c].complete
  PROVE  command'[c] = command[c]
<1>0. TypeOK /\ LocksMatchJobs /\ RowsAgree /\ PassAgrees /\ MessagesAgree
  BY DEF IInv, SchedulingInv
<1>1. ASSUME NEW j \in JobId, CancelJob(j) PROVE command'[c] = command[c]
  <2>1. state[j] \in {"pending", "tasked"} /\ UpdateCommands(j) /\ UNCHANGED command_to_jobs
    BY <1>1 DEF CancelJob
  <2>2. j \notin command_to_jobs[c]
    BY <2>1 DEF CommandsInv, Truthful
  <2> QED  BY <2>1, <2>2, UpdatedCommands
<1>2. ASSUME CompletionHooks PROVE command'[c] = command[c]
  <2>1. UpdateCommands(current) /\ phase = "hooks"
    BY <1>2 DEF CompletionHooks
  <2>2. current \notin command_to_jobs[c]
    BY <2>1 DEF HooksInv
  <2>3. ASSUME NEW t \in CommandId, t # c, AddJobs(HookPlan, t)
        PROVE  command_to_jobs'[c] = command_to_jobs[c]
    <3>1. PICK added : command_to_jobs' = [command_to_jobs EXCEPT ![t] = @ \cup added]
      BY <1>0, <2>3, PlanCommands, HookPlanWellFormed
    <3> QED  BY <1>0, <2>3, <3>1 DEF TypeOK
  <2>4. ASSUME NEW t \in CommandId, NewCommand(t) PROVE t # c
    <3>1. t > last_command /\ t = last_command + 1
      BY SMTT(30), <1>0, <2>4, Bounds DEF NewCommand, TypeOK, CommandId
    <3> QED  BY <3>1 DEF CommandsInv
  <2>5. command_to_jobs'[c] = command_to_jobs[c]
    <3>1. CASE NoHook
      BY <3>1 DEF NoHook
    <3>2. CASE ~NoHook
      <4>1. PICK i \in Writes(spec[current]) :
              IF OpenCommands(current) # {}
              THEN \E t \in OpenCommands(current) : RunHook(i, t) /\ UNCHANGED last_command
              ELSE HookInNewCommand(i)
        BY <1>2, <3>2 DEF CompletionHooks
      <4>2. CASE OpenCommands(current) # {}
        <5>1. PICK t \in OpenCommands(current) : RunHook(i, t)
          BY <4>1, <4>2
        <5>2. t \in CommandId /\ t # c
          BY <5>1 DEF OpenCommands
        <5> QED  BY <2>3, <5>1, <5>2 DEF RunHook
      <4>3. CASE OpenCommands(current) = {}
        <5>1. PICK t \in CommandId : NewCommand(t) /\ RunHook(i, t)
          BY <4>1, <4>3 DEF HookInNewCommand
        <5> QED  BY <2>3, <2>4, <5>1 DEF RunHook
      <4> QED  BY <4>2, <4>3
    <3> QED  BY <3>1, <3>2
  <2> QED  BY <2>1, <2>2, <2>5, UpdatedCommands
<1>3. ASSUME Restart PROVE command'[c] = command[c]
  BY <1>3 DEF Restart
<1>4. ASSUME NEW r \in Requests, SubmitCommand(r) PROVE command' = command
  BY <1>4 DEF SubmitCommand
<1>5. ASSUME NEW r \in Reports, AgentReport(r) PROVE command' = command
  BY <1>5 DEF AgentReport, cmdVars
<1>6. ASSUME NEW j \in JobId, ThreadAction(j) PROVE command' = command
  BY <1>0, <1>6, ThreadShape DEF cmdVars
<1>7. ASSUME ProgressAction PROVE command' = command
  BY <1>7 DEF ProgressAction, Advance, FetchJob, CompleteJob, cmdVars
<1>8. ASSUME Notify \/ (\E i \in Items : DrainItem(i)) PROVE command' = command
  BY <1>8 DEF Notify, DrainItem
<1>9. ASSUME DrainDone \/ CheckJobs \/ TaskJobs \/ \E j \in JobId : CancelFailed(j) \/ SpawnJob(j)
      PROVE  command' = command
  BY <1>9 DEF DrainDone, CheckJobs, TaskJobs, CancelFailed, SpawnJob, cmdVars
<1>10. ASSUME UNCHANGED vars PROVE command' = command
  BY <1>10 DEF vars, cmdVars
<1> QED  BY <1>1, <1>2, <1>3, <1>4, <1>5, <1>6, <1>7, <1>8, <1>9, <1>10 DEF Next, LockHolder

(* There are no commands at first.                                         *)
LEMMA InitCommands == Init => CommandsInv /\ HooksInv
<1> SUFFICES ASSUME Init PROVE CommandsInv /\ HooksInv
  OBVIOUS
<1>1. last_command = 0 /\ phase = "free" /\ last_id = 0
  BY DEF Init
<1>2. \A c \in CommandId : command_to_jobs[c] = {} /\ ~command[c].complete
  BY DEF Init, NoCommand
<1>3. 1..last_command = {}
  BY SMTT(30), <1>1
<1> QED  BY <1>1, <1>2, <1>3 DEF CommandsInv, HooksInv

(* The row of a complete command is true of its jobs, and between two      *)
(* holders of the lock no command is left open with nothing to wait for.   *)
THEOREM CommandsTellTheTruth == Spec => []CommandOutcome
<1>1. Init => IInv /\ CommandsInv /\ HooksInv
  BY InitIInv, InitCommands
<1>2. IInv /\ CommandsInv /\ HooksInv /\ [Next]_vars => IInv' /\ CommandsInv' /\ HooksInv'
  BY NextIInv, CommandsStep
<1>3. IInv /\ CommandsInv => CommandOutcome
  <2> SUFFICES ASSUME IInv, CommandsInv PROVE CommandOutcome
    OBVIOUS
  <2>1. ASSUME NEW c \in 1..last_command
        PROVE  /\ command_to_jobs[c] # {}
               /\ command[c].complete => Truthful(c)
               /\ phase = "free" /\ Done(c) => command[c].complete
    <3>1. c \in CommandId
      BY SMTT(30), Bounds DEF IInv, TypeOK, CommandId
    <3> QED  BY <3>1 DEF CommandsInv
  <2> QED  BY <2>1 DEF CommandOutcome, Truthful, Done
<1> QED  BY <1>1, <1>2, <1>3, PTL DEF Spec

(* The outcome of a job and of a command is final: no late completion,     *)
(* second cancellation or restart rewrites a row that is complete.         *)
THEOREM OutcomesAreFinal == Spec => OutcomeIsFinal
<1> DEFINE Final == /\ \A j \in JobId : state[j] = "complete" =>
                         /\ state'[j] = "complete"
                         /\ errored'[j] = errored[j] /\ cancelled'[j] = cancelled[j]
                    /\ \A c \in CommandId : command[c].complete => command'[c] = command[c]
<1>1. Init => IInv /\ CommandsInv /\ HooksInv
  BY InitIInv, InitCommands
<1>2. IInv /\ CommandsInv /\ HooksInv /\ [Next]_vars => IInv' /\ CommandsInv' /\ HooksInv'
  BY NextIInv, CommandsStep
<1>3. IInv /\ CommandsInv /\ HooksInv /\ [Next]_vars => [Final]_vars
  BY RowsStay, CommandsFinal
<1> QED  BY <1>1, <1>2, <1>3, PTL DEF Spec, OutcomeIsFinal
=============================================================================
