----------------------------- MODULE MCServices -----------------------------
(***************************************************************************)
(* Instances of ChangeFeed, TaskRunner and TargetScan for TLC.  The three  *)
(* services share no state, so a behaviour runs one of them while the      *)
(* others rest in their initial states.                                    *)
(***************************************************************************)
EXTENDS ChangeFeed, TaskRunner, TargetScan

VARIABLE service   \* which one runs: "tasks", "scan", or what changes in the feed

serviceVars == <<service, feedVars, taskVars, scanVars>>
OfFeed == service \in {"feed", "rows"}

(* A single_runner task has one action, the other tasks have two.          *)
ActionCount == [t \in Tasks |-> IF t \in SingleRunner THEN 1 ELSE 2]

(* The MGS is on disk d1, the MDT on a pool of d2 and d3, which both hosts *)
(* see, the OST on a pool of d3 and d4, of which host 2 sees one.          *)
SeenBy == [h \in Hosts |-> IF h = 1 THEN Disks ELSE Disks \ {"d4"}]
DisksOfPools == [shared |-> {"d2", "d3"}, local |-> {"d3", "d4"}]
BackingOf == [MGS |-> "d1", MDT |-> "shared", OST |-> "local"]
OneFilesystem == [t \in Targets \ {Mgs} |-> CHOOSE f \in Filesystems : TRUE]

(* At the start all records exist, or none does; host 1 has a client and   *)
(* all targets, or all but the MDT, which is not mounted then.             *)
ServicesInit ==
  /\ service \in {"feed", "rows", "tasks", "scan"}
  /\ FeedInit /\ TaskInit /\ ScanInit
  /\ clientAt = {1} \X Filesystems
  /\ \A r, q \in Records : Shown(db[r]) = Shown(db[q])
  /\ ~OfFeed => \A r \in Records : Shown(db[r]) = Absent
  /\ \A t \in Targets : place[t] = 1 \/ (service = "scan" /\ t \in Mdt0 /\ place[t] = NoServer)

(* MaxChanges changes of rows, or one change less of anything.  A row that *)
(* is created, deleted and created again takes three.                      *)
Changed ==
  IF service = "rows" THEN lock' = lock /\ \A r \in FromApi : db'[r] = db[r]
  ELSE changes' < MaxChanges

ServicesNext ==
  \/ OfFeed /\ FeedNext /\ Changed /\ UNCHANGED <<service, taskVars, scanVars>>
  \/ service = "tasks" /\ TaskNext /\ UNCHANGED <<service, feedVars, scanVars>>
  \/ service = "scan" /\ ScanNext /\ UNCHANGED <<service, feedVars, taskVars>>

(* The fairness of FeedSpec and of TaskSpec, for the service that runs.    *)
ServicesSpec ==
  /\ ServicesInit /\ [][ServicesNext]_serviceVars
  /\ WF_feedVars(OfFeed /\ FeedProgress)
  /\ WF_taskVars(service = "tasks" /\ MainStep)
  /\ WF_taskVars(service = "tasks" /\ \E b \in adding : IncreaseTotal(b))
  /\ \A w \in Workers : WF_taskVars(service = "tasks" /\ WorkerStep(w))

(* The types of all services.                                              *)
ServicesTypeOK == FeedTypeOK /\ RunnerTypeOK /\ ScanTypeOK

(* Recovers, where warp-drive is the service that runs: when changes and   *)
(* failures end, every GUI is connected again and shows the database.      *)
FeedRecovers == <>[](OfFeed => Recovered)
=============================================================================
