---------------------- MODULE JobSchedulerReportProofs ----------------------
(***************************************************************************)
(* What the scheduler makes of what it is told, for any items, plans and   *)
(* bounds.                                                                 *)
(*                                                                         *)
(* Each property has an invariant of its own, inductive relative to IInv   *)
(* of JobSchedulerProofs: StaleInv, BufferInv, SeqInv and LatestInv for the *)
(* reports of agents; ReportsInv for what on_success modifies; DepsInv for *)
(* the checks of tasked jobs; WakeInv for the wake-ups of ready ones.      *)
(*                                                                         *)
(* A section begins with lemmas that say in how many ways a step can treat *)
(* the state its invariant is about (QueueStep, AttrStep, ProgressStep ...), *)
(* so that the invariant is carried through these and not through every    *)
(* action.                                                                 *)
(***************************************************************************)
EXTENDS JobSchedulerProofs

USE ZenonT(20)


-----------------------------------------------------------------------------
(* Reports on the notification queue *)

(* A report that is not stale was made while its holders wrote the item,   *)
(* and they still do, or were cancelled.                                   *)
StaleInv ==
  \A n \in DOMAIN nqueue : ~nqueue[n].stale =>
    \A h \in nqueue[n].holders : h \in writers[nqueue[n].item] \/ cancelled[h]

(* Marking reports as stale changes nothing else about them.               *)
LEMMA MarkStaleFacts ==
  ASSUME NEW q \in Seq(Notification), NEW touched
  PROVE  /\ MarkStale(q, touched) \in Seq(Notification) /\ Len(MarkStale(q, touched)) = Len(q)
         /\ \A n \in 1..Len(q) :
              LET m == MarkStale(q, touched)[n]
              IN  /\ m.item = q[n].item /\ m.to = q[n].to /\ m.seq = q[n].seq /\ m.holders = q[n].holders
                  /\ ~m.stale => ~q[n].stale /\ q[n].item \notin touched
<1> DEFINE Q == MarkStale(q, touched)
<1>1. Q \in Seq(Notification)
  BY MarkStaleType
<1>2. /\ DOMAIN q = 1..Len(q) /\ DOMAIN Q = DOMAIN q /\ Len(q) \in Nat
      /\ \A n \in 1..Len(q) : Q[n] = IF q[n].item \in touched THEN [q[n] EXCEPT !.stale = TRUE] ELSE q[n]
  <2>1. DOMAIN q = 1..Len(q) /\ Len(q) \in Nat
    BY SMT
  <2>2. DOMAIN Q = DOMAIN q
    BY DEF MarkStale
  <2>3. \A n \in DOMAIN q : Q[n] = IF q[n].item \in touched THEN [q[n] EXCEPT !.stale = TRUE] ELSE q[n]
    BY DEF MarkStale
  <2> HIDE DEF Q
  <2> QED  BY <2>1, <2>2, <2>3
<1>3. Len(Q) = Len(q)
  <2> HIDE DEF Q
  <2> QED  BY SMT, <1>1, <1>2
<1>4. ASSUME NEW n \in 1..Len(q)
      PROVE  /\ Q[n].item = q[n].item /\ Q[n].to = q[n].to /\ Q[n].seq = q[n].seq /\ Q[n].holders = q[n].holders
             /\ ~Q[n].stale => ~q[n].stale /\ q[n].item \notin touched
  <2>1. q[n] \in Notification
    BY SMT
  <2>2. CASE q[n].item \in touched
    <3>1. Q[n] = [q[n] EXCEPT !.stale = TRUE]
      BY <1>2, <2>2
    <3> HIDE DEF Q
    <3> QED  BY <2>1, <3>1 DEF Notification
  <2>3. CASE q[n].item \notin touched
    <3>1. Q[n] = q[n]
      BY <1>2, <2>3
    <3> HIDE DEF Q
    <3> QED  BY <2>3, <3>1
  <2> QED  BY <2>2, <2>3
<1> HIDE DEF Q
<1> QED  BY <1>1, <1>3, <1>4 DEF Q

(* Where what is on the queue after a step comes from: report n was report *)
(* n + shift and may have become stale, as the completing job makes those  *)
(* on what it holds.                                                       *)
QueueMoves(shift) ==
  /\ Len(nqueue) = Len(nqueue') + shift /\ nsent' = nsent
  /\ \A n \in 1..Len(nqueue') :
       LET m == nqueue'[n]
           o == nqueue[n + shift]
       IN  /\ m.item = o.item /\ m.to = o.to /\ m.seq = o.seq /\ m.holders = o.holders
           /\ ~m.stale => ~o.stale
           /\ ~m.stale /\ CompleteJob /\ StillTasked(Head(progress).job)
                => Head(progress).job \notin writers[o.item]

(* _notify takes the report at the head of the queue.                      *)
LEMMA NotifyTakes ==
  ASSUME IInv, Notify PROVE QueueMoves(1)
<1>0. nqueue \in Seq(Notification) /\ Len(nqueue) \in Nat
  BY SMT DEF IInv, TypeOK
<1>1. nqueue # <<>> /\ phase = "free" /\ ~CompleteJob
  BY DEF Notify, CompleteJob
<1>a. nsent' = nsent
  BY DEF Notify
<1>2. /\ Tail(nqueue) \in Seq(Notification) /\ Len(nqueue) = Len(Tail(nqueue)) + 1
      /\ \A n \in 1..Len(Tail(nqueue)) : Tail(nqueue)[n] = nqueue[n + 1]
  BY SMT, <1>0, <1>1
<1>3. CASE nqueue' = Tail(nqueue)
  BY <1>a, <1>1, <1>2, <1>3 DEF QueueMoves
<1>4. ASSUME NEW touched, nqueue' = MarkStale(Tail(nqueue), touched) PROVE QueueMoves(1)
  <2> DEFINE q == Tail(nqueue)
  <2> HIDE DEF q
  <2>0. q \in Seq(Notification) /\ nqueue' = MarkStale(q, touched)
    BY <1>2, <1>4 DEF q
  <2>1. /\ Len(nqueue') = Len(q)
        /\ \A n \in 1..Len(q) :
            LET m == nqueue'[n]
            IN  /\ m.item = q[n].item /\ m.to = q[n].to /\ m.seq = q[n].seq
                /\ m.holders = q[n].holders
                /\ ~m.stale => ~q[n].stale
    BY SMTT(30), <2>0, MarkStaleFacts
  <2> QED  BY <1>a, <1>1, <1>2, <2>1 DEF QueueMoves, q
<1>5. nqueue' = Tail(nqueue) \/ \E touched : nqueue' = MarkStale(Tail(nqueue), touched)
  BY DEF Notify
<1> QED  BY <1>3, <1>4, <1>5

(* What a step does to the queue of reports.                               *)
LEMMA QueueStep ==
  ASSUME IInv, [Next]_vars
  PROVE  \/ QueueMoves(0)
         \/ Notify /\ QueueMoves(1)
         \/ \E r \in Reports : AgentReport(r)
         \/ Restart
<1>0. TypeOK /\ nqueue \in Seq(Notification) /\ Len(nqueue) \in Nat
  BY SMTT(30) DEF IInv, TypeOK
<1>1. ASSUME UNCHANGED <<nqueue, nsent>>, ~CompleteJob PROVE QueueMoves(0)
  BY SMTT(30), <1>0, <1>1 DEF QueueMoves
<1>2. ASSUME NEW r \in Requests, SubmitCommand(r) PROVE UNCHANGED <<nqueue, nsent>> /\ ~CompleteJob
  <2>1. UNCHANGED <<nqueue, nsent>> /\ fetched' = fetched /\ progress' = Append(progress, AdvanceMsg)
    BY <1>2 DEF SubmitCommand, noteVars
  <2> QED  BY <2>1 DEF CompleteJob
<1>3. ASSUME NEW j \in JobId, CancelJob(j) PROVE UNCHANGED <<nqueue, nsent>> /\ ~CompleteJob
  BY <1>3 DEF CancelJob, noteVars, CompleteJob
<1>4. ASSUME NEW j \in JobId, ThreadAction(j) PROVE UNCHANGED <<nqueue, nsent>> /\ ~CompleteJob
  BY <1>0, <1>4, ThreadShape DEF noteVars, CompleteJob
<1>5. ASSUME Advance \/ FetchJob PROVE UNCHANGED <<nqueue, nsent>> /\ ~CompleteJob
  <2>1. CompleteJob => fetched /\ ~fetched'
    BY DEF CompleteJob
  <2>2. UNCHANGED <<nqueue, nsent>> /\ (fetched' = fetched \/ ~fetched)
    BY <1>5 DEF Advance, FetchJob, noteVars
  <2> QED  BY <2>1, <2>2
<1>6. ASSUME CompleteJob PROVE QueueMoves(0)
  <2>1. PICK failed \in BOOLEAN : OnSuccess(Head(progress).job, failed)
    BY <1>6 DEF CompleteJob
  <2>2. PICK touched : /\ nqueue' = MarkStale(nqueue, touched) /\ nsent' = nsent
                       /\ Freshened(Head(progress).job) \subseteq touched
    BY <2>1 DEF OnSuccess
  <2>3. /\ nqueue' \in Seq(Notification) /\ Len(nqueue') = Len(nqueue)
        /\ \A n \in 1..Len(nqueue) :
              LET m == nqueue'[n]
              IN  /\ m.item = nqueue[n].item /\ m.to = nqueue[n].to /\ m.seq = nqueue[n].seq
                  /\ m.holders = nqueue[n].holders
                  /\ ~m.stale => ~nqueue[n].stale /\ nqueue[n].item \notin touched
    BY SMTT(30), <1>0, <2>2, MarkStaleFacts
  <2>4. \A n \in 1..Len(nqueue) : nqueue[n].item \in Items /\ n + 0 = n
    <3>1. \A n \in 1..Len(nqueue) : nqueue[n] \in Notification
      BY SMT, <1>0
    <3>2. \A x \in Notification : x.item \in Items
      BY DEF Notification
    <3> QED  BY SMTT(30), <1>0, <3>1, <3>2
  <2> QED  BY SMTT(30), <1>0, <2>2, <2>3, <2>4 DEF QueueMoves, Freshened
<1>7. ASSUME CompletionHooks PROVE UNCHANGED <<nqueue, nsent>> /\ ~CompleteJob
  BY <1>7 DEF CompletionHooks, noteVars, CompleteJob
<1>8. ASSUME Notify PROVE QueueMoves(1)
  BY <1>8, NotifyTakes
<1>9. ASSUME NEW i \in Items, DrainItem(i) PROVE UNCHANGED <<nqueue, nsent>> /\ ~CompleteJob
  BY <1>9 DEF DrainItem, CompleteJob
<1>10. ASSUME DrainDone \/ CheckJobs \/ TaskJobs \/ \E j \in JobId : CancelFailed(j) \/ SpawnJob(j)
       PROVE  UNCHANGED <<nqueue, nsent>> /\ ~CompleteJob
  BY <1>10 DEF DrainDone, CheckJobs, TaskJobs, CancelFailed, SpawnJob, noteVars, CompleteJob
<1>11. ASSUME UNCHANGED vars PROVE UNCHANGED <<nqueue, nsent>> /\ ~CompleteJob
  BY <1>11 DEF vars, noteVars, CompleteJob
<1> QED
  BY <1>1, <1>2, <1>3, <1>4, <1>5, <1>6, <1>7, <1>8, <1>9, <1>10, <1>11 DEF Next, ProgressAction, LockHolder

(* What is on a queue of notifications.                                    *)
LEMMA QueueTypes ==
  ASSUME NEW q \in Seq(Notification)
  PROVE  /\ Len(q) \in Nat /\ DOMAIN q = 1..Len(q)
         /\ \A n \in 1..Len(q) : /\ q[n].item \in Items /\ q[n].holders \subseteq JobId
                                  /\ q[n].seq \in Nat /\ q[n] \in Notification
<1>1. \A n \in 1..Len(q) : q[n] \in Notification
  BY SMT
<1>2. \A x \in Notification : x.item \in Items /\ x.holders \subseteq JobId /\ x.seq \in Nat
  BY SMT, Bounds DEF Notification
<1> QED  BY SMTT(30), <1>1, <1>2

(* What a report that is made finds, and what it leaves on the queue.      *)
LEMMA ReportMade ==
  ASSUME IInv, NEW r \in Reports, AgentReport(r)
  PROVE  /\ Len(nqueue') = Len(nqueue) + 1 /\ DOMAIN nqueue' = 1..Len(nqueue')
         /\ \A n \in 1..Len(nqueue) : nqueue'[n] = nqueue[n]
         /\ nqueue'[Len(nqueue')] = [item |-> r.item, to |-> r.to, from |-> r.from, seq |-> nsent + 1,
                                     stale |-> FALSE, holders |-> writers[r.item]]
         /\ UNCHANGED <<jobVars, lockVars, objVars, buffer, ctlVars>> /\ nsent' = nsent + 1
         /\ r.item \in Items
<1> DEFINE x == [item |-> r.item, to |-> r.to, from |-> r.from, seq |-> nsent + 1,
                 stale |-> FALSE, holders |-> writers[r.item]]
<1>1. /\ nqueue' = Append(nqueue, x) /\ nsent' = nsent + 1
      /\ UNCHANGED <<jobVars, lockVars, objVars, buffer, ctlVars>>
  BY DEF AgentReport
<1>2. nqueue \in Seq(Notification) /\ r.item \in Items
  BY ReportsAssumption DEF Report, IInv, TypeOK
<1> HIDE DEF x
<1>3. /\ Len(nqueue') = Len(nqueue) + 1 /\ DOMAIN nqueue' = 1..Len(nqueue')
      /\ \A n \in 1..Len(nqueue) : nqueue'[n] = nqueue[n]
      /\ nqueue'[Len(nqueue')] = x
  BY SMTT(30), <1>1, <1>2
<1> QED  BY <1>1, <1>2, <1>3 DEF x

(* A report is marked as stale when a writer it saw completes, so only the *)
(* writers that were cancelled are missing.                                *)
LEMMA StaleStep ==
  ASSUME IInv, [Next]_vars, StaleInv PROVE StaleInv'
<1>0. nqueue \in Seq(Notification) /\ nqueue' \in Seq(Notification)
  BY NextIInv DEF IInv, TypeOK
<1>1. ASSUME NEW s \in {0, 1}, QueueMoves(s) PROVE StaleInv'
  <2> SUFFICES ASSUME NEW n \in 1..Len(nqueue'), ~nqueue'[n].stale, NEW h \in nqueue'[n].holders
               PROVE  h \in writers'[nqueue'[n].item] \/ cancelled'[h]
    BY <1>0, QueueTypes DEF StaleInv
  <2>1. n + s \in 1..Len(nqueue)
    BY SMTT(30), <1>0, <1>1, QueueTypes DEF QueueMoves
  <2> DEFINE o == nqueue[n + s]
  <2>2. /\ nqueue'[n].item = o.item /\ h \in o.holders /\ ~o.stale
        /\ CompleteJob /\ StillTasked(Head(progress).job) => Head(progress).job \notin writers[o.item]
    BY <1>1 DEF QueueMoves
  <2>3. h \in JobId /\ o.item \in Items /\ (h \in writers[o.item] \/ cancelled[h])
    BY <1>0, <2>1, <2>2, QueueTypes DEF StaleInv
  <2> HIDE DEF o
  <2> QED  BY <2>2, <2>3, CancelledStays, LocksStay
<1>2. ASSUME NEW r \in Reports, AgentReport(r) PROVE StaleInv'
  <2> SUFFICES ASSUME NEW n \in 1..Len(nqueue'), ~nqueue'[n].stale, NEW h \in nqueue'[n].holders
               PROVE  h \in writers'[nqueue'[n].item] \/ cancelled'[h]
    BY <1>0, QueueTypes DEF StaleInv
  <2>1. UNCHANGED <<writers, cancelled>>
    BY <1>2, ReportMade DEF jobVars, lockVars
  <2>2. CASE n = Len(nqueue')
    <3>1. nqueue'[n] = [item |-> r.item, to |-> r.to, from |-> r.from, seq |-> nsent + 1,
                        stale |-> FALSE, holders |-> writers[r.item]]
      BY <1>2, <2>2, ReportMade
    <3> QED  BY SMTT(30), <2>1, <3>1
  <2>3. CASE n # Len(nqueue')
    <3>1. n \in 1..Len(nqueue)
      <4>1. Len(nqueue') = Len(nqueue) + 1
        BY <1>2, ReportMade
      <4> QED  BY SMTT(30), <1>0, <2>3, <4>1, QueueTypes
    <3>2. nqueue'[n] = nqueue[n]
      BY <1>2, <3>1, ReportMade
    <3> QED  BY <1>0, <2>1, <3>1, <3>2, QueueTypes DEF StaleInv
  <2> QED  BY <2>2, <2>3
<1>3. ASSUME Restart PROVE StaleInv'
  BY SMTT(30), <1>3 DEF Restart, StaleInv
<1> QED  BY <1>1, <1>2, <1>3, QueueStep

(* A reported state is applied only if every job that was writing the      *)
(* object when the report was made has been cancelled.                     *)
THEOREM StaleReportsAreDropped == Spec => StaleReportNeverApplied
<1> DEFINE Dropped == nqueue # <<>> /\ phase = "free" /\ phase' = "run_next" /\ item_state' # item_state
                        => \A h \in Head(nqueue).holders : cancelled[h]
<1>1. Init => IInv /\ StaleInv
  <2>1. DOMAIN <<>> = {}
    BY SMT
  <2> QED  BY <2>1, InitIInv DEF Init, StaleInv
<1>2. IInv /\ StaleInv /\ [Next]_vars => IInv' /\ StaleInv'
  BY NextIInv, StaleStep
<1>3. IInv /\ StaleInv /\ [Next]_vars => [Dropped]_vars
  <2> SUFFICES ASSUME IInv, StaleInv, [Next]_vars, nqueue # <<>>, phase = "free", phase' = "run_next",
                      item_state' # item_state
               PROVE  \A h \in Head(nqueue).holders : cancelled[h]
    OBVIOUS
  <2>0. nqueue \in Seq(Notification)
    BY DEF IInv, TypeOK
  <2>1. Head(nqueue) = nqueue[1] /\ 1 \in DOMAIN nqueue /\ Head(nqueue).item \in Items
    BY SMTT(30), <2>0, QueueTypes
  <2>2. ASSUME Notify PROVE \A h \in Head(nqueue).holders : cancelled[h]
    <3> DEFINE n == Head(nqueue)
    <3>1. ~Locked(n.item) /\ n.to # NoState /\ ~n.stale
      BY <2>2 DEF Notify, Apply, objVars
    <3>2. writers[n.item] = {}
      BY <3>1 DEF Locked
    <3> QED  BY <2>1, <3>1, <3>2 DEF StaleInv
  <2>3. ASSUME NEW r \in Requests, SubmitCommand(r) PROVE FALSE
    BY <2>3 DEF SubmitCommand, objVars
  <2>4. ASSUME NEW r \in Reports, AgentReport(r) PROVE FALSE
    BY <2>4 DEF AgentReport, objVars
  <2>5. ASSUME NEW j \in JobId, CancelJob(j) \/ CancelFailed(j) \/ SpawnJob(j) PROVE FALSE
    BY <2>5 DEF CancelJob, CancelFailed, SpawnJob, objVars
  <2>6. ASSUME NEW j \in JobId, ThreadAction(j) PROVE FALSE
    BY <2>6, ThreadShape DEF IInv, objVars
  <2>7. ASSUME CompleteJob PROVE FALSE
    <3>1. phase' = "hooks" \/ phase' = phase
      BY <2>7 DEF CompleteJob, FinishJob
    <3> QED  BY <3>1
  <2>8. ASSUME NEW i \in Items, DrainItem(i) PROVE FALSE
    BY <2>8 DEF DrainItem
  <2>9. ASSUME Advance \/ FetchJob \/ CompletionHooks \/ DrainDone \/ CheckJobs \/ TaskJobs PROVE FALSE
    BY <2>9 DEF Advance, FetchJob, CompletionHooks, DrainDone, CheckJobs, TaskJobs, objVars
  <2>10. ASSUME Restart \/ UNCHANGED vars PROVE FALSE
    BY <2>10 DEF Restart, vars, objVars
  <2> QED  BY <2>2, <2>3, <2>4, <2>5, <2>6, <2>7, <2>8, <2>9, <2>10 DEF Next, ProgressAction, LockHolder
<1> QED  BY <1>1, <1>2, <1>3, PTL DEF Spec, StaleReportNeverApplied

-----------------------------------------------------------------------------
(* Reports of attributes *)

(* A cancelled job had a lock on the item.                                 *)
GivenUp(i) == \E j \in JobId : cancelled[j] /\ i \in Writes(spec[j]) \cup Reads(spec[j])

(* complete_job is on its way to the buffer.                               *)
Draining == phase = "drain" \/ (phase = "hooks" /\ resume = "drain")

BufferInv == \A i \in Items : buffer[i] # <<>> => Locked(i) \/ GivenUp(i) \/ Draining

(* What a step does to the attribute and the buffer of an item.            *)
AttrStays(i) == attr'[i] = attr[i] /\ (buffer'[i] = buffer[i] \/ buffer'[i] = <<>>)
AttrBuffered(i) == /\ Notify /\ i = Head(nqueue).item /\ Head(nqueue).to = NoState
                   /\ Locked(i) /\ attr'[i] = attr[i]
                   /\ buffer'[i] = Append(buffer[i], Head(nqueue))
AttrSet(i) == /\ Notify /\ i = Head(nqueue).item
              /\ ~Locked(i) /\ attr'[i] = Head(nqueue).seq
              /\ buffer'[i] = buffer[i]
AttrDrained(i) == \E k \in Items : /\ DrainItem(k) /\ buffer[k] # <<>>
                                   /\ i = DrainLatest(buffer[k]).item
                                   /\ attr'[i] = DrainLatest(buffer[k]).seq
                                   /\ buffer'[k] = <<>>
                                   /\ i # k => buffer'[i] = buffer[i]

(* Every step treats the attributes and the buffer of an item in one of    *)
(* these ways.                                                             *)
LEMMA AttrStep ==
  ASSUME IInv, [Next]_vars, NEW i \in Items
  PROVE  AttrStays(i) \/ AttrBuffered(i) \/ AttrSet(i) \/ AttrDrained(i)
<1>0. attr \in [Items -> 0..MaxNotifications] /\ buffer \in [Items -> Seq(Notification)]
  BY DEF IInv, TypeOK
<1>1. ASSUME UNCHANGED <<attr, buffer>> PROVE AttrStays(i)
  BY <1>1 DEF AttrStays
<1>2. ASSUME NEW r \in Requests, SubmitCommand(r) PROVE UNCHANGED <<attr, buffer>>
  BY <1>2 DEF SubmitCommand, objVars, noteVars
<1>3. ASSUME NEW r \in Reports, AgentReport(r) PROVE UNCHANGED <<attr, buffer>>
  BY <1>3 DEF AgentReport, objVars
<1>4. ASSUME NEW j \in JobId, CancelJob(j) \/ CancelFailed(j) \/ SpawnJob(j) PROVE UNCHANGED <<attr, buffer>>
  BY <1>4 DEF CancelJob, CancelFailed, SpawnJob, objVars, noteVars
<1>5. ASSUME NEW j \in JobId, ThreadAction(j) PROVE UNCHANGED <<attr, buffer>>
  BY <1>5, ThreadShape DEF IInv, objVars, noteVars
<1>6. ASSUME Advance \/ FetchJob \/ CompletionHooks \/ DrainDone \/ CheckJobs \/ TaskJobs
      PROVE  UNCHANGED <<attr, buffer>>
  BY <1>6 DEF Advance, FetchJob, CompletionHooks, DrainDone, CheckJobs, TaskJobs, objVars, noteVars
<1>7. ASSUME CompleteJob PROVE UNCHANGED <<attr, buffer>>
  BY <1>7 DEF CompleteJob, OnSuccess
<1>8. ASSUME Restart PROVE AttrStays(i)
  BY <1>8 DEF Restart, objVars, AttrStays
<1>9. ASSUME UNCHANGED vars PROVE UNCHANGED <<attr, buffer>>
  BY <1>9 DEF vars, objVars, noteVars
<1>10. ASSUME Notify PROVE AttrStays(i) \/ AttrBuffered(i) \/ AttrSet(i)
  <2> DEFINE n == Head(nqueue)
  <2>1. \/ UNCHANGED <<attr, buffer>>
        \/ /\ n.to = NoState /\ Locked(n.item) /\ UNCHANGED attr
           /\ buffer' = [buffer EXCEPT ![n.item] = Append(@, n)]
        \/ /\ ~Locked(n.item) /\ UNCHANGED buffer
           /\ attr' = attr \/ attr' = [attr EXCEPT ![n.item] = n.seq]
    BY <1>10 DEF Notify, Apply, objVars
  <2> HIDE DEF n
  <2>2. CASE /\ n.to = NoState /\ Locked(n.item) /\ UNCHANGED attr
             /\ buffer' = [buffer EXCEPT ![n.item] = Append(@, n)]
    <3>1. buffer'[i] = IF i = n.item THEN Append(buffer[i], n) ELSE buffer[i]
      BY <1>0, <2>2
    <3> QED  BY <1>10, <2>2, <3>1 DEF AttrStays, AttrBuffered, n
  <2>3. CASE /\ ~Locked(n.item) /\ UNCHANGED buffer
             /\ attr' = [attr EXCEPT ![n.item] = n.seq]
    <3>1. attr'[i] = IF i = n.item THEN n.seq ELSE attr[i]
      BY <1>0, <2>3
    <3> QED  BY <1>10, <2>3, <3>1 DEF AttrStays, AttrSet, n
  <2> QED  BY <1>1, <2>1, <2>2, <2>3
<1>11. ASSUME NEW k \in Items, DrainItem(k) PROVE AttrStays(i) \/ AttrDrained(i)
  <2> DEFINE n == DrainLatest(buffer[k])
  <2>1. /\ buffer[k] # <<>> /\ buffer' = [buffer EXCEPT ![k] = <<>>]
        /\ attr' = attr \/ attr' = [attr EXCEPT ![n.item] = n.seq]
    BY <1>11 DEF DrainItem, Apply, objVars
  <2>2. buffer'[i] = IF i = k THEN <<>> ELSE buffer[i]
    BY <1>0, <2>1
  <2>3. buffer'[k] = <<>>
    BY <1>0, <2>1
  <2> HIDE DEF n
  <2>4. attr'[i] = attr[i] \/ (i = n.item /\ attr'[i] = n.seq)
    BY <1>0, <2>1
  <2> QED  BY <1>11, <2>1, <2>2, <2>3, <2>4 DEF AttrStays, AttrDrained, n
<1> QED
  BY <1>1, <1>2, <1>3, <1>4, <1>5, <1>6, <1>7, <1>8, <1>9, <1>10, <1>11
     DEF Next, ProgressAction, LockHolder

(* complete_job looks at the whole buffer before it lets go.               *)
LEMMA DrainingStays ==
  ASSUME IInv, [Next]_vars, Draining
  PROVE  Draining' \/ Restart \/ Drained
<1>1. ASSUME UNCHANGED ctlVars PROVE Draining'
  BY <1>1 DEF Draining, ctlVars
<1>2. phase \in {"drain", "hooks"} /\ (phase = "hooks" => resume = "drain")
  BY DEF Draining
<1>3. ASSUME NEW r \in Requests, SubmitCommand(r) PROVE FALSE
  BY <1>2, <1>3 DEF SubmitCommand
<1>4. ASSUME NEW r \in Reports, AgentReport(r) PROVE Draining'
  BY <1>1, <1>4 DEF AgentReport
<1>5. ASSUME NEW j \in JobId, CancelJob(j) \/ CancelFailed(j) \/ SpawnJob(j) PROVE FALSE
  BY <1>2, <1>5 DEF CancelJob, CancelFailed, SpawnJob
<1>6. ASSUME NEW j \in JobId, ThreadAction(j) PROVE Draining'
  BY <1>1, <1>6, ThreadShape DEF IInv
<1>7. ASSUME Advance \/ CompleteJob \/ CheckJobs \/ TaskJobs \/ Notify PROVE FALSE
  BY <1>2, <1>7 DEF Advance, CompleteJob, CheckJobs, TaskJobs, Notify
<1>8. ASSUME FetchJob PROVE Draining'
  BY <1>1, <1>8 DEF FetchJob
<1>9. ASSUME CompletionHooks PROVE Draining'
  BY <1>2, <1>9 DEF CompletionHooks, Draining
<1>10. ASSUME NEW i \in Items, DrainItem(i) PROVE Draining'
  BY <1>1, <1>10 DEF DrainItem
<1>11. ASSUME DrainDone PROVE Drained
  BY <1>11 DEF DrainDone
<1>12. ASSUME UNCHANGED vars PROVE Draining'
  BY <1>1, <1>12 DEF vars
<1> QED
  BY <1>3, <1>4, <1>5, <1>6, <1>7, <1>8, <1>9, <1>10, <1>11, <1>12
     DEF Next, ProgressAction, LockHolder

(* A lock that was given up stays so: rows and cancellations are           *)
(* permanent.                                                              *)
LEMMA GivenUpStays ==
  ASSUME IInv, [Next]_vars, NEW i, GivenUp(i) PROVE GivenUp(i)'
  BY CancelledStays DEF GivenUp

(* No step leaves a notification in the buffer of an item that nobody      *)
(* locks.                                                                  *)
LEMMA BufferStep ==
  ASSUME IInv, [Next]_vars, BufferInv PROVE BufferInv'
<1> SUFFICES ASSUME NEW i \in Items, buffer'[i] # <<>>
             PROVE  Locked(i)' \/ GivenUp(i)' \/ Draining'
  BY DEF BufferInv
<1>1. buffer[i] # <<>> \/ Locked(i)
  <2>1. ASSUME AttrDrained(i) PROVE buffer[i] # <<>>
    BY <2>1 DEF AttrDrained
  <2> QED  BY <2>1, AttrStep DEF AttrStays, AttrBuffered, AttrSet
<1>2. ~Restart
  BY DEF Restart
<1>3. ASSUME Locked(i) PROVE Locked(i)' \/ GivenUp(i)' \/ Draining'
  <2>1. PICK h : h \in writers[i] \cup readers[i]
    BY <1>3 DEF Locked
  <2>2. CASE cancelled'[h]
    BY <2>1, <2>2, LocksStay DEF GivenUp
  <2>3. CASE CompleteJob /\ h = Head(progress).job /\ StillTasked(h)
    <3>1. phase' = "hooks" /\ resume' = "drain"
      BY <2>3 DEF CompleteJob, FinishJob
    <3> QED  BY <3>1 DEF Draining
  <2> QED  BY <2>1, <2>2, <2>3, LocksStay DEF Locked
<1>4. CASE buffer[i] # <<>>
  BY <1>2, <1>3, <1>4, DrainingStays, GivenUpStays DEF BufferInv, Drained
<1> QED  BY <1>1, <1>3, <1>4

(* A buffered notification waits for a lock, unless the lock was given up  *)
(* by a cancellation.                                                      *)
THEOREM BufferedReportsWait == Spec => []BufferedWhileLocked
<1>1. Init => IInv /\ BufferInv
  BY InitIInv DEF Init, BufferInv
<1>2. IInv /\ BufferInv /\ [Next]_vars => IInv' /\ BufferInv'
  BY NextIInv, BufferStep
<1>3. BufferInv => BufferedWhileLocked
  BY DEF BufferInv, BufferedWhileLocked, Draining, GivenUp
<1> QED  BY <1>1, <1>2, <1>3, PTL DEF Spec

(* The report with this number was taken off the queue for the item.       *)
Seen(i, s) == attr[i] = s \/ \E b \in DOMAIN buffer[i] : buffer[i][b].seq = s

(* Reports are queued in the order they were made, and those taken off the *)
(* queue are older than those on it.                                       *)
SeqInv ==
  /\ \A n \in DOMAIN nqueue :
       /\ nqueue[n].seq <= nsent
       /\ \A m \in DOMAIN nqueue : m < n => nqueue[m].seq < nqueue[n].seq
       /\ \A i \in Items : \A s \in 0..MaxNotifications : Seen(i, s) => s < nqueue[n].seq
  /\ \A i \in Items : \A s \in 0..MaxNotifications : Seen(i, s) => s <= nsent

(* What is buffered for an item is about it, and newer than its attribute. *)
LatestInv ==
  \A i \in Items : /\ \A b \in DOMAIN buffer[i] : buffer[i][b].item = i
                   /\ buffer[i] # <<>> => attr[i] < DrainLatest(buffer[i]).seq \/ GivenUp(i)

(* _drain_notification_buffer keeps an element of the buffer.              *)
LEMMA LatestFacts ==
  ASSUME NEW q \in Seq(Notification), q # <<>>
  PROVE  Len(q) \in DOMAIN q /\ DrainLatest(q) = q[Len(q)]
  BY SMT DEF DrainLatest

(* A step makes no report seen but the one at the head of the queue.       *)
LEMMA SeenStep ==
  ASSUME IInv, [Next]_vars, LatestInv, NEW i \in Items, NEW s, Seen(i, s)'
  PROVE  Seen(i, s) \/ (Notify /\ s = Head(nqueue).seq)
<1>0. \A k \in Items : buffer[k] \in Seq(Notification)
  BY DEF IInv, TypeOK
<1>1. CASE AttrStays(i)
  BY SMTT(30), <1>1 DEF AttrStays, Seen
<1>2. CASE AttrBuffered(i)
  <2>1. \A b \in DOMAIN buffer'[i] : \/ buffer'[i][b] = Head(nqueue)
                                     \/ b \in DOMAIN buffer[i] /\ buffer'[i][b] = buffer[i][b]
    <3> DEFINE q == buffer[i]
               x == Head(nqueue)
    <3>1. buffer'[i] = Append(q, x) /\ q \in Seq(Notification)
      BY <1>0, <1>2 DEF AttrBuffered
    <3> HIDE DEF q, x
    <3>2. \A b \in DOMAIN Append(q, x) : Append(q, x)[b] = x \/ (b \in DOMAIN q /\ Append(q, x)[b] = q[b])
      BY SMTT(30), <3>1
    <3> QED  BY <3>1, <3>2 DEF q, x
  <2>2. attr'[i] = attr[i] /\ Notify
    BY <1>2 DEF AttrBuffered
  <2> QED  BY <2>1, <2>2 DEF Seen
<1>3. CASE AttrSet(i)
  BY <1>3 DEF AttrSet, Seen
<1>4. CASE AttrDrained(i)
  <2>1. PICK k \in Items : /\ DrainItem(k) /\ buffer[k] # <<>>
                           /\ i = DrainLatest(buffer[k]).item
                           /\ attr'[i] = DrainLatest(buffer[k]).seq
                           /\ buffer'[k] = <<>>
    BY <1>4 DEF AttrDrained
  <2>2. Len(buffer[k]) \in DOMAIN buffer[k] /\ DrainLatest(buffer[k]) = buffer[k][Len(buffer[k])]
    BY <1>0, <2>1, LatestFacts
  <2>3. i = k
    BY <2>1, <2>2 DEF LatestInv
  <2>4. attr'[i] = s
    BY SMTT(30), <2>1, <2>3 DEF Seen
  <2> QED  BY <2>1, <2>2, <2>3, <2>4 DEF Seen
<1> QED  BY <1>1, <1>2, <1>3, <1>4, AttrStep

(* No step takes a report out of its turn.                                 *)
LEMMA SeqStep ==
  ASSUME IInv, [Next]_vars, LatestInv, SeqInv PROVE SeqInv'
<1>0. /\ nqueue \in Seq(Notification) /\ nqueue' \in Seq(Notification)
      /\ nsent \in Nat /\ nsent' \in Nat /\ 0..MaxNotifications \subseteq Nat
  BY SMTT(30), NextIInv, Bounds DEF IInv, TypeOK
<1>1. ASSUME QueueMoves(0), ~Notify PROVE SeqInv'
  <2>1. nsent' = nsent /\ Len(nqueue) = Len(nqueue') /\ \A n \in 1..Len(nqueue) : nqueue'[n].seq = nqueue[n].seq
    <3>1. \A n \in 1..Len(nqueue') : n + 0 = n
      BY SMTT(30), <1>0, QueueTypes
    <3>2. Len(nqueue') + 0 = Len(nqueue')
      BY SMTT(30), <1>0, QueueTypes
    <3> QED  BY SMTT(30), <1>1, <3>1, <3>2 DEF QueueMoves
  <2>2. \A i \in Items : \A s \in 0..MaxNotifications : Seen(i, s)' => Seen(i, s)
    BY <1>1, SeenStep
  <2>3. DOMAIN nqueue = 1..Len(nqueue) /\ DOMAIN nqueue' = 1..Len(nqueue)
    BY <1>0, <2>1, QueueTypes
  <2> QED  BY <2>1, <2>2, <2>3 DEF SeqInv
<1>2. ASSUME Notify, QueueMoves(1) PROVE SeqInv'
  <2>1. /\ DOMAIN nqueue = 1..Len(nqueue) /\ DOMAIN nqueue' = 1..Len(nqueue')
        /\ Len(nqueue') \in Nat /\ Len(nqueue) = Len(nqueue') + 1 /\ nsent' = nsent
        /\ \A n \in DOMAIN nqueue' : nqueue'[n].seq = nqueue[n + 1].seq
    BY <1>0, <1>2, QueueTypes DEF QueueMoves
  <2>2. /\ 1 \in DOMAIN nqueue /\ Head(nqueue) = nqueue[1]
        /\ \A n \in DOMAIN nqueue' : n + 1 \in DOMAIN nqueue /\ 1 < n + 1
    <3>1. nqueue # <<>>
      BY <1>2 DEF Notify
    <3> QED  BY SMTT(30), <1>0, <2>1, <3>1
  <2>3. \A i \in Items : \A s \in 0..MaxNotifications : Seen(i, s)' => Seen(i, s) \/ s = nqueue[1].seq
    BY <1>2, <2>2, SeenStep
  <2>4. ASSUME NEW n \in DOMAIN nqueue'
        PROVE  /\ nqueue'[n].seq <= nsent
               /\ \A m \in DOMAIN nqueue' : m < n => nqueue'[m].seq < nqueue'[n].seq
               /\ \A i \in Items : \A s \in 0..MaxNotifications : Seen(i, s)' => s < nqueue'[n].seq
    <3>1. n + 1 \in DOMAIN nqueue /\ \A m \in DOMAIN nqueue' : m < n => m + 1 \in DOMAIN nqueue /\ m + 1 < n + 1
      BY SMTT(30), <2>1, <2>2
    <3>2. nqueue[1].seq < nqueue[n + 1].seq
      BY <2>2, <3>1 DEF SeqInv
    <3>3. \A m \in DOMAIN nqueue' : m < n => nqueue'[m].seq < nqueue'[n].seq
      BY <2>1, <3>1 DEF SeqInv
    <3> QED  BY <2>1, <2>3, <3>1, <3>2, <3>3 DEF SeqInv
  <2>5. \A i \in Items : \A s \in 0..MaxNotifications : Seen(i, s)' => s <= nsent
    BY <2>2, <2>3 DEF SeqInv
  <2> QED  BY <2>1, <2>4, <2>5 DEF SeqInv
<1>3. ASSUME NEW r \in Reports, AgentReport(r) PROVE SeqInv'
  <2>1. /\ Len(nqueue') = Len(nqueue) + 1 /\ DOMAIN nqueue' = 1..Len(nqueue')
        /\ \A n \in 1..Len(nqueue) : nqueue'[n] = nqueue[n]
        /\ UNCHANGED <<attr, buffer>> /\ nsent' = nsent + 1
    BY <1>3, ReportMade DEF objVars
  <2>2. nqueue'[Len(nqueue')].seq = nsent + 1
    <3>1. nqueue'[Len(nqueue')] = [item |-> r.item, to |-> r.to, from |-> r.from, seq |-> nsent + 1,
                                   stale |-> FALSE, holders |-> writers[r.item]]
      BY <1>3, ReportMade
    <3> QED  BY SMT, <3>1
  <2>3. DOMAIN nqueue = 1..Len(nqueue) /\ Len(nqueue) \in Nat /\ \A n \in DOMAIN nqueue : nqueue[n].seq \in Nat
    BY <1>0, QueueTypes
  <2>4. \A i \in Items : \A s \in 0..MaxNotifications : Seen(i, s)' => Seen(i, s)
    BY <2>1 DEF Seen
  <2>5. \A n \in DOMAIN nqueue : nqueue[n].seq <= nsent
    BY DEF SeqInv
  <2>6. \A i \in Items : \A s \in 0..MaxNotifications : Seen(i, s)' => s <= nsent
    BY <2>4 DEF SeqInv
  <2>7. ASSUME NEW n \in DOMAIN nqueue'
        PROVE  /\ nqueue'[n].seq <= nsent'
               /\ \A m \in DOMAIN nqueue' : m < n => nqueue'[m].seq < nqueue'[n].seq
               /\ \A i \in Items : \A s \in 0..MaxNotifications : Seen(i, s)' => s < nqueue'[n].seq
    <3>1. \A m \in DOMAIN nqueue' : m < n => m \in DOMAIN nqueue
      BY SMTT(30), <2>1, <2>3
    <3>2. CASE n = Len(nqueue')
      <4>1. \A m \in DOMAIN nqueue' : m < n => nqueue'[m].seq < nqueue'[n].seq
        BY SMTT(30), <1>0, <2>1, <2>2, <2>3, <2>5, <3>1, <3>2
      <4>2. \A i \in Items : \A s \in 0..MaxNotifications : Seen(i, s)' => s < nqueue'[n].seq
        BY SMTT(30), <1>0, <2>2, <2>6, <3>2
      <4> QED  BY SMTT(30), <1>0, <2>1, <2>2, <3>2, <4>1, <4>2
    <3>3. CASE n # Len(nqueue')
      <4>1. n \in DOMAIN nqueue
        BY SMTT(30), <2>1, <2>3, <3>3
      <4>2. nqueue'[n].seq = nqueue[n].seq /\ \A m \in DOMAIN nqueue' : m < n => nqueue'[m].seq = nqueue[m].seq
        BY <2>1, <2>3, <3>1, <4>1
      <4>3. nqueue'[n].seq <= nsent'
        BY SMTT(30), <1>0, <2>1, <2>3, <2>5, <4>1, <4>2
      <4> QED  BY <2>4, <3>1, <4>1, <4>2, <4>3 DEF SeqInv
    <3> QED  BY <3>2, <3>3
  <2>8. \A i \in Items : \A s \in 0..MaxNotifications : Seen(i, s)' => s <= nsent'
    BY SMTT(30), <1>0, <2>1, <2>6
  <2> QED  BY <2>7, <2>8 DEF SeqInv
<1>4. ASSUME Restart PROVE SeqInv'
  <2>1. nqueue' = <<>> /\ nsent' = nsent /\ attr' = attr /\ \A i \in Items : buffer'[i] = <<>>
    BY <1>4 DEF Restart, objVars
  <2>2. \A i \in Items : \A s \in 0..MaxNotifications : Seen(i, s)' => Seen(i, s)
    BY SMTT(30), <2>1 DEF Seen
  <2> QED  BY SMTT(30), <2>1, <2>2 DEF SeqInv
<1> QED  BY <1>1, <1>2, <1>3, <1>4, NotifyTakes, QueueStep

(* The latest of the notifications buffered for an item stays newer than   *)
(* its attribute.                                                          *)
LEMMA LatestStep ==
  ASSUME IInv, [Next]_vars, BufferInv, LatestInv, SeqInv PROVE LatestInv'
<1>0. /\ \A k \in Items : buffer[k] \in Seq(Notification) /\ attr[k] \in 0..MaxNotifications
      /\ nqueue \in Seq(Notification)
  BY DEF IInv, TypeOK
<1> SUFFICES ASSUME NEW i \in Items
             PROVE  /\ \A b \in DOMAIN buffer'[i] : buffer'[i][b].item = i
                    /\ buffer'[i] # <<>> => attr'[i] < DrainLatest(buffer'[i]).seq \/ GivenUp(i)'
  BY DEF LatestInv, DrainLatest
<1>1. ASSUME buffer'[i] = <<>>
      PROVE  /\ \A b \in DOMAIN buffer'[i] : buffer'[i][b].item = i
             /\ buffer'[i] # <<>> => attr'[i] < DrainLatest(buffer'[i]).seq \/ GivenUp(i)'
  BY SMT, <1>1
<1>2. CASE AttrStays(i)
  BY <1>1, <1>2, GivenUpStays DEF AttrStays, LatestInv
<1>3. CASE AttrBuffered(i)
  <2> DEFINE q == buffer[i]
             x == Head(nqueue)
  <2>1. /\ buffer'[i] = Append(q, x) /\ q \in Seq(Notification) /\ attr'[i] = attr[i]
        /\ x.item = i /\ nqueue # <<>>
    BY <1>0, <1>3 DEF AttrBuffered, Notify
  <2>2. x = nqueue[1] /\ 1 \in DOMAIN nqueue
    BY SMTT(30), <1>0, <2>1
  <2>3. attr[i] < x.seq
    BY <1>0, <2>2 DEF SeqInv, Seen
  <2>4. \A b \in DOMAIN q : q[b].item = i
    BY DEF LatestInv
  <2> HIDE DEF q, x
  <2>5. \A b \in DOMAIN Append(q, x) : Append(q, x)[b] = x \/ (b \in DOMAIN q /\ Append(q, x)[b] = q[b])
    BY SMTT(30), <2>1
  <2>6. DrainLatest(Append(q, x)) = x
    BY SMTT(30), <2>1 DEF DrainLatest
  <2> QED  BY <2>1, <2>3, <2>4, <2>5, <2>6
<1>4. CASE AttrSet(i)
  <2>1. ~Locked(i) /\ phase = "free" /\ buffer'[i] = buffer[i]
    BY <1>4 DEF AttrSet, Notify
  <2>2. buffer[i] # <<>> => GivenUp(i)
    BY <2>1 DEF BufferInv, Draining
  <2> QED  BY <2>1, <2>2, GivenUpStays DEF LatestInv
<1>5. CASE AttrDrained(i)
  <2>1. PICK k \in Items : buffer[k] # <<>> /\ i = DrainLatest(buffer[k]).item /\ buffer'[k] = <<>>
    BY <1>5 DEF AttrDrained
  <2>2. i = k
    BY SMTT(30), <1>0, <2>1, LatestFacts DEF LatestInv
  <2> QED  BY <1>1, <2>1, <2>2
<1> QED  BY <1>2, <1>3, <1>4, <1>5, AttrStep

(* Nothing was reported at first.                                          *)
LEMMA InitSeq == Init => BufferInv /\ LatestInv /\ SeqInv
<1> SUFFICES ASSUME Init PROVE BufferInv /\ LatestInv /\ SeqInv
  OBVIOUS
<1>1. nqueue = <<>> /\ nsent = 0 /\ \A i \in Items : buffer[i] = <<>> /\ attr[i] = 0
  BY DEF Init
<1>2. \A i \in Items : \A s \in 0..MaxNotifications : Seen(i, s) => s <= nsent
  BY SMTT(30), <1>1, Bounds DEF Seen
<1> QED  BY SMTT(30), <1>1, <1>2 DEF BufferInv, LatestInv, SeqInv

(* Attributes reported by an agent never go back to an older report,       *)
(* unless the lock they were buffered behind was given up.                 *)
THEOREM AttributesMoveForward == Spec => ReportsInOrder
<1> DEFINE Inv == IInv /\ BufferInv /\ LatestInv /\ SeqInv
           Forward == \A i \in Items :
                        attr'[i] < attr[i]
                          => \E j \in JobId : /\ cancelled[j]
                                              /\ i \in Writes(spec[j]) \cup Reads(spec[j])
<1>1. Init => Inv
  BY InitIInv, InitSeq
<1>2. Inv /\ [Next]_vars => Inv'
  BY NextIInv, BufferStep, LatestStep, SeqStep
<1>3. Inv /\ [Next]_vars => [Forward]_vars
  <2> SUFFICES ASSUME Inv, [Next]_vars, NEW i \in Items, attr'[i] < attr[i] PROVE GivenUp(i)
    BY DEF GivenUp
  <2>0. /\ \A k \in Items : buffer[k] \in Seq(Notification) /\ attr[k] \in 0..MaxNotifications
        /\ nqueue \in Seq(Notification) /\ 0..MaxNotifications \subseteq Nat
    BY SMTT(30), Bounds DEF IInv, TypeOK
  <2>1. CASE attr'[i] = attr[i]
    BY SMTT(30), <2>0, <2>1
  <2>2. CASE AttrSet(i)
    <3>1. nqueue # <<>> /\ attr'[i] = Head(nqueue).seq
      BY <2>2 DEF AttrSet, Notify
    <3>2. Head(nqueue) = nqueue[1] /\ 1 \in DOMAIN nqueue /\ nqueue[1].seq \in Nat
      BY SMTT(30), <2>0, <3>1, QueueTypes
    <3>3. attr[i] < nqueue[1].seq
      BY <2>0, <3>2 DEF SeqInv, Seen
    <3> QED  BY SMTT(30), <2>0, <3>1, <3>2, <3>3
  <2>3. CASE AttrDrained(i)
    <3>1. PICK k \in Items : /\ buffer[k] # <<>> /\ i = DrainLatest(buffer[k]).item
                             /\ attr'[i] = DrainLatest(buffer[k]).seq
      BY <2>3 DEF AttrDrained
    <3>2. i = k
      BY SMTT(30), <2>0, <3>1, LatestFacts DEF LatestInv
    <3>3. attr[i] < attr'[i] \/ GivenUp(i)
      BY <3>1, <3>2 DEF LatestInv
    <3>4. attr'[i] \in Nat
      BY SMTT(30), <2>0, <3>1, LatestFacts, QueueTypes
    <3> QED  BY SMTT(30), <2>0, <3>3, <3>4
  <2> QED  BY <2>1, <2>2, <2>3, AttrStep DEF AttrStays, AttrBuffered
<1> QED  BY <1>1, <1>2, <1>3, PTL DEF Spec, ReportsInOrder

-----------------------------------------------------------------------------
(* Reports of the end of a job *)

Ends(n) == progress[n].op = "complete_job"

(* A job is reported once; if it is complete by then it was cancelled, and *)
(* if it has no thread, an advance is queued behind the report.            *)
ReportsInv ==
  \A n \in DOMAIN progress : Ends(n) =>
    /\ state[progress[n].job] = "complete" => cancelled[progress[n].job]
    /\ \A m \in DOMAIN progress : Ends(m) /\ progress[m].job = progress[n].job => m = n
    /\ cancelled[progress[n].job] /\ thread[progress[n].job] = "none"
         => \E m \in DOMAIN progress : n < m /\ progress[m].op = "advance"

(* What a step does to the queue.                                          *)
Reported(j) == /\ \E e \in BOOLEAN : progress' = Append(progress, CompleteMsg(j, e))
               /\ \A n \in DOMAIN progress : Ends(n) => progress[n].job # j
               /\ state'[j] = "complete" => cancelled'[j]
               /\ ~cancelled'[j] \/ thread'[j] # "none"

(* What a step does to the queue of JobProgress.                           *)
LEMMA ProgressStep ==
  ASSUME IInv, [Next]_vars
  PROVE  \/ progress' = progress
         \/ progress' = Append(progress, AdvanceMsg)
         \/ \E j \in JobId : Reported(j)
         \/ progress # <<>> /\ progress' = Tail(progress)
         \/ progress' = <<>>
<1>0. TypeOK /\ RowsAgree /\ PassAgrees /\ MessagesAgree
  BY DEF IInv, SchedulingInv
<1>1. ASSUME NEW j \in JobId, ThreadAction(j) PROVE progress' = progress \/ Reported(j)
  <2>1. /\ thread[j] \in {"running", "finished"} /\ UNCHANGED <<state, cancelled>>
        /\ \/ progress' = progress
           \/ /\ thread' = [thread EXCEPT ![j] = "ended"]
              /\ \E e \in BOOLEAN : progress' = Append(progress, CompleteMsg(j, e))
    BY <1>0, <1>1, ThreadShape DEF jobVars
  <2>2. \A n \in DOMAIN progress : Ends(n) => progress[n].job # j
    BY <1>0, <2>1 DEF MessagesAgree, EndReported, Ends
  <2>3. state[j] = "complete" => cancelled[j]
    BY <1>0, <2>1 DEF RowsAgree
  <2>4. thread' = [thread EXCEPT ![j] = "ended"] => thread'[j] # "none"
    BY <1>0 DEF TypeOK
  <2> QED  BY <2>1, <2>2, <2>3, <2>4 DEF Reported
<1>2. ASSUME NEW j \in JobId, SpawnJob(j) PROVE progress' = progress \/ Reported(j)
  <2>1. /\ phase = "spawning" /\ j \in ok_jobs /\ UNCHANGED <<state, cancelled>>
        /\ progress' = progress \/ progress' = Append(progress, CompleteMsg(j, FALSE))
    BY <1>2 DEF SpawnJob, jobVars
  <2>2. state[j] = "tasked" /\ ~cancelled[j]
    BY <1>0, <2>1 DEF PassAgrees, RowsAgree
  <2>3. \A n \in DOMAIN progress : Ends(n) => progress[n].job # j
    BY <1>0, <2>1 DEF MessagesAgree, EndReported, Ends
  <2> QED  BY <2>1, <2>2, <2>3 DEF Reported
<1>3. ASSUME NEW r \in Requests, SubmitCommand(r) PROVE progress' = Append(progress, AdvanceMsg)
  BY <1>3 DEF SubmitCommand
<1>4. ASSUME NEW j \in JobId, CancelJob(j) PROVE progress' = progress \/ progress' = Append(progress, AdvanceMsg)
  BY <1>4 DEF CancelJob, StopOrAdvance
<1>5. ASSUME NEW r \in Reports, AgentReport(r) PROVE progress' = progress
  BY <1>5 DEF AgentReport
<1>6. ASSUME Advance PROVE progress # <<>> /\ progress' = Tail(progress)
  BY <1>6 DEF Advance, NextMsg
<1>7. ASSUME CompleteJob PROVE progress # <<>> /\ progress' = Tail(progress)
  BY <1>0, <1>7 DEF CompleteJob, MessagesAgree
<1>8. ASSUME FetchJob \/ CompletionHooks \/ Notify \/ DrainDone \/ CheckJobs \/ TaskJobs PROVE progress' = progress
  BY <1>8 DEF FetchJob, CompletionHooks, Notify, DrainDone, CheckJobs, TaskJobs
<1>9. ASSUME NEW i \in Items, DrainItem(i) PROVE progress' = progress
  BY <1>9 DEF DrainItem
<1>10. ASSUME NEW j \in JobId, CancelFailed(j) PROVE progress' = progress
  BY <1>10 DEF CancelFailed
<1>11. ASSUME Restart PROVE progress' = <<>>
  BY <1>11 DEF Restart
<1>12. ASSUME UNCHANGED vars PROVE progress' = progress
  BY <1>12 DEF vars
<1> QED
  BY <1>1, <1>2, <1>3, <1>4, <1>5, <1>6, <1>7, <1>8, <1>9, <1>10, <1>11, <1>12
     DEF Next, ProgressAction, LockHolder

(* A thread that was started has been started for good.                    *)
LEMMA ThreadsStay ==
  ASSUME IInv, [Next]_vars, NEW j \in JobId, thread[j] # "none" PROVE thread'[j] # "none"
<1>0. TypeOK /\ RowsAgree /\ PassAgrees /\ MessagesAgree
  BY DEF IInv, SchedulingInv
<1>1. CASE ThreadMove
  BY <1>0, <1>1 DEF ThreadMove, TypeOK
<1>2. CASE PlanStep \/ EndStep \/ TaskJobs
  BY <1>2 DEF PlanStep, EndStep, EndJob, TaskJobs, runVars
<1>3. CASE Restart
  BY <1>3 DEF Restart
<1> QED  BY <1>0, <1>1, <1>2, <1>3, StepShape

(* What a step does to a job whose end is on the queue.                    *)
LEMMA ReportKept ==
  ASSUME IInv, [Next]_vars, ReportsInv, NEW n \in DOMAIN progress, Ends(n), progress' # <<>>,
         NEW j, j = progress[n].job
  PROVE  /\ j \in JobId
         /\ state'[j] = "complete" => cancelled'[j] \/ (CompleteJob /\ j = Head(progress).job)
         /\ cancelled'[j] /\ thread'[j] = "none"
              => (cancelled[j] /\ thread[j] = "none") \/ progress' = Append(progress, AdvanceMsg)
<1>0. TypeOK /\ RowsAgree /\ PassAgrees /\ MessagesAgree /\ RowsAgree'
  BY NextIInv DEF IInv, SchedulingInv
<1>1. j \in JobId
  <2>1. progress[n] \in Message
    BY SMTT(30), <1>0 DEF TypeOK
  <2> QED  BY SMTT(30), <2>1 DEF Message, AdvanceMsg, Ends
<1>2. state[j] \in {"tasked", "complete"} /\ (state[j] = "complete" => cancelled[j])
  BY <1>0 DEF MessagesAgree, EndReported, Ends, ReportsInv
<1>3. CASE cancelled[j]
  BY <1>1, <1>3, CancelledStays, ThreadsStay
<1>4. CASE ~cancelled[j]
  <2>1. Incomplete(j) /\ state[j] = "tasked"
    BY <1>2, <1>4 DEF Incomplete
  <2>2. CASE Incomplete(j)'
    BY <1>0, <1>1, <2>2 DEF Incomplete, RowsAgree
  <2>3. CASE CompleteJob /\ j = Head(progress).job
    <3>1. cancelled'[j] = FALSE
      <4>1. PICK failed \in BOOLEAN : FinishJob(j, failed, FALSE, "drain")
        BY <2>1, <2>3 DEF CompleteJob, StillTasked
      <4> QED  BY <1>0, <1>1, <4>1 DEF FinishJob, TypeOK
    <3> QED  BY <1>1, <2>3, <3>1
  <2>4. CASE cancelled'[j] /\ (CancelJob(j) \/ CancelFailed(j) \/ Restart)
    <3>1. ~Restart /\ ~CancelFailed(j)
      BY <1>0, <2>1 DEF Restart, CancelFailed, PassAgrees, Checked
    <3>2. CancelJob(j)
      BY <2>4, <3>1
    <3>3. thread[j] = "none" => progress' = Append(progress, AdvanceMsg)
      BY <3>2 DEF CancelJob, StopOrAdvance
    <3> QED  BY <1>1, <2>4, <3>3, ThreadsStay
  <2> QED  BY <1>1, <2>1, <2>2, <2>3, <2>4, EndsHow
<1> QED  BY <1>3, <1>4

(* No step reports the end of a job twice.                                 *)
LEMMA ReportsStep ==
  ASSUME IInv, [Next]_vars, ReportsInv PROVE ReportsInv'
<1>0. /\ progress \in Seq(Message) /\ DOMAIN progress = 1..Len(progress) /\ Len(progress) \in Nat
  BY SMTT(30) DEF IInv, TypeOK
<1>a. /\ AdvanceMsg \in Message /\ AdvanceMsg.op = "advance"
      /\ \A j \in JobId, e \in BOOLEAN : CompleteMsg(j, e) \in Message /\ CompleteMsg(j, e).job = j
  BY DEF Message, AdvanceMsg, CompleteMsg
<1>1. CASE progress' = <<>>
  BY SMTT(30), <1>1 DEF ReportsInv
<1>2. ASSUME NEW n \in DOMAIN progress, Ends(n), progress' # <<>>, ~CompleteJob
      PROVE  /\ state'[progress[n].job] = "complete" => cancelled'[progress[n].job]
             /\ cancelled'[progress[n].job] /\ thread'[progress[n].job] = "none"
                  => \/ progress' = Append(progress, AdvanceMsg)
                     \/ \E m \in DOMAIN progress : n < m /\ progress[m].op = "advance"
  <2>1. /\ state'[progress[n].job] = "complete" => cancelled'[progress[n].job]
        /\ cancelled'[progress[n].job] /\ thread'[progress[n].job] = "none"
             => \/ progress' = Append(progress, AdvanceMsg)
                \/ cancelled[progress[n].job] /\ thread[progress[n].job] = "none"
    BY <1>2, ReportKept
  <2> QED  BY <1>2, <2>1 DEF ReportsInv
<1>3. CASE progress' = progress /\ progress # <<>>
  <2>1. ~CompleteJob /\ progress' # Append(progress, AdvanceMsg)
    <3>1. Len(Append(progress, AdvanceMsg)) = Len(progress) + 1 /\ Len(Tail(progress)) = Len(progress) - 1
      BY SMTT(30), <1>0, <1>a, <1>3
    <3>2. CompleteJob => progress' = Tail(progress)
      BY DEF CompleteJob
    <3>3. progress # Tail(progress) /\ progress # Append(progress, AdvanceMsg)
      <4>0. Len(progress) \in Nat
        BY <1>0
      <4>1. Len(Tail(progress)) # Len(progress) /\ Len(Append(progress, AdvanceMsg)) # Len(progress)
        BY SMTT(30), <3>1, <4>0
      <4> QED  BY <4>1
    <3> QED  BY <1>3, <3>2, <3>3
  <2>2. \A n \in DOMAIN progress : Ends(n)' <=> Ends(n)
    BY <1>3 DEF Ends
  <2> QED  BY <1>2, <1>3, <2>1, <2>2 DEF ReportsInv
<1>4. ASSUME NEW x \in Message, progress' = Append(progress, x)
      PROVE  /\ progress' # <<>> /\ ~CompleteJob /\ DOMAIN progress' = 1..(Len(progress) + 1)
             /\ progress'[Len(progress) + 1] = x /\ \A n \in DOMAIN progress : progress'[n] = progress[n]
             /\ \A n \in DOMAIN progress' : n \in DOMAIN progress \/ n = Len(progress) + 1
             /\ \A n \in DOMAIN progress : n < Len(progress) + 1 /\ n \in DOMAIN progress'
  <2>1. /\ Len(progress') = Len(progress) + 1 /\ DOMAIN progress' = 1..(Len(progress) + 1)
        /\ progress'[Len(progress) + 1] = x /\ \A n \in DOMAIN progress : progress'[n] = progress[n]
    BY SMTT(30), <1>0, <1>4
  <2>2. CompleteJob => progress # <<>> /\ progress' = Tail(progress)
    BY DEF CompleteJob, IInv, SchedulingInv, MessagesAgree
  <2>3. progress # <<>> => Len(Tail(progress)) = Len(progress) - 1
    BY SMTT(30), <1>0
  <2>4. progress' # <<>>
    BY SMTT(30), <1>0, <2>1
  <2>5. ~CompleteJob
    <3>1. progress # <<>> => progress' # Tail(progress)
      <4>1. progress # <<>> => Len(Tail(progress)) # Len(progress')
        <5>1. Len(progress) \in Nat /\ Len(progress') = Len(progress) + 1
          BY <1>0, <2>1
        <5> QED  BY SMTT(30), <2>3, <5>1
      <4> QED  BY <4>1
    <3> QED  BY <2>2, <3>1
  <2>6. /\ \A n \in DOMAIN progress' : n \in DOMAIN progress \/ n = Len(progress) + 1
        /\ \A n \in DOMAIN progress : n < Len(progress) + 1 /\ n \in DOMAIN progress'
    BY SMTT(30), <1>0, <2>1
  <2> QED  BY <2>1, <2>4, <2>5, <2>6
<1>5. CASE progress' = Append(progress, AdvanceMsg)
  <2> DEFINE new == Len(progress) + 1
  <2>1. /\ progress' # <<>> /\ ~CompleteJob /\ new \in DOMAIN progress'
        /\ progress'[new] = AdvanceMsg /\ \A n \in DOMAIN progress : progress'[n] = progress[n]
        /\ \A n \in DOMAIN progress' : n \in DOMAIN progress \/ n = new
        /\ \A n \in DOMAIN progress : n < new /\ n \in DOMAIN progress'
    BY SMTT(30), <1>0, <1>a, <1>4, <1>5
  <2> HIDE DEF new
  <2>2. \A n \in DOMAIN progress' : Ends(n)' => n \in DOMAIN progress /\ Ends(n) /\ progress'[n] = progress[n]
    BY <1>0, <1>a, <2>1 DEF Ends
  <2>3. progress'[new].op = "advance"
    BY <1>0, <1>a, <2>1
  <2> QED  BY SMTT(30), <1>2, <2>1, <2>2, <2>3 DEF ReportsInv
<1>6. ASSUME NEW j \in JobId, Reported(j) PROVE ReportsInv'
  <2> DEFINE new == Len(progress) + 1
  <2>1. PICK e \in BOOLEAN : progress' = Append(progress, CompleteMsg(j, e))
    BY <1>6 DEF Reported
  <2>2. /\ progress' # <<>> /\ ~CompleteJob /\ new \in DOMAIN progress'
        /\ progress'[new].job = j /\ \A n \in DOMAIN progress : progress'[n] = progress[n]
        /\ \A n \in DOMAIN progress' : n \in DOMAIN progress \/ n = new
        /\ \A n \in DOMAIN progress : n < new /\ n \in DOMAIN progress'
    BY SMTT(30), <1>0, <1>a, <1>4, <2>1
  <2>3. progress' # Append(progress, AdvanceMsg)
    <3>1. Append(progress, AdvanceMsg)[new] = AdvanceMsg /\ progress'[new] = CompleteMsg(j, e)
      BY SMTT(30), <1>0, <1>a, <2>1
    <3> QED  BY SMTT(30), <3>1 DEF AdvanceMsg, CompleteMsg
  <2> HIDE DEF new
  <2>4. \A n \in DOMAIN progress : Ends(n)' <=> Ends(n)
    BY <2>2 DEF Ends
  <2>5. /\ \A n \in DOMAIN progress : Ends(n) => progress[n].job # j
        /\ state'[j] = "complete" => cancelled'[j]
        /\ ~cancelled'[j] \/ thread'[j] # "none"
    BY <1>6 DEF Reported
  <2>6. ASSUME NEW n \in DOMAIN progress', Ends(n)'
        PROVE  /\ state'[progress'[n].job] = "complete" => cancelled'[progress'[n].job]
               /\ \A m \in DOMAIN progress' : Ends(m)' /\ progress'[m].job = progress'[n].job => m = n
               /\ cancelled'[progress'[n].job] /\ thread'[progress'[n].job] = "none"
                    => \E m \in DOMAIN progress' : n < m /\ progress'[m].op = "advance"
    <3>1. CASE n = new
      BY <2>2, <2>4, <2>5, <3>1
    <3>2. CASE n \in DOMAIN progress
      <4>1. \A m \in DOMAIN progress' : Ends(m)' /\ progress'[m].job = progress'[n].job => m = n
        BY SMTT(30), <2>2, <2>4, <2>5, <2>6, <3>2 DEF ReportsInv
      <4> QED  BY SMTT(30), <1>2, <2>2, <2>3, <2>4, <2>6, <3>2, <4>1
    <3> QED  BY <2>2, <3>1, <3>2
  <2> QED  BY <2>6 DEF ReportsInv
<1>7. CASE progress # <<>> /\ progress' = Tail(progress) /\ progress' # <<>>
  <2>1. /\ DOMAIN progress' = 1..(Len(progress) - 1) /\ \A n \in DOMAIN progress' : progress'[n] = progress[n + 1]
        /\ \A n \in DOMAIN progress' : n + 1 \in DOMAIN progress /\ n + 1 # 1
        /\ Head(progress) = progress[1] /\ 1 \in DOMAIN progress
    BY SMTT(30), <1>0, <1>7
  <2>2. progress' # Append(progress, AdvanceMsg)
    <3>1. Len(progress') = Len(progress) - 1 /\ Len(Append(progress, AdvanceMsg)) = Len(progress) + 1
      BY SMTT(30), <1>0, <1>a, <1>7
    <3> QED  BY SMTT(30), <1>0, <3>1
  <2>3. ASSUME NEW n \in DOMAIN progress', Ends(n)'
        PROVE  /\ state'[progress'[n].job] = "complete" => cancelled'[progress'[n].job]
               /\ \A m \in DOMAIN progress' : Ends(m)' /\ progress'[m].job = progress'[n].job => m = n
               /\ cancelled'[progress'[n].job] /\ thread'[progress'[n].job] = "none"
                    => \E m \in DOMAIN progress' : n < m /\ progress'[m].op = "advance"
    <3>1. n + 1 \in DOMAIN progress /\ Ends(n + 1) /\ progress'[n].job = progress[n + 1].job
      BY <2>1, <2>3 DEF Ends
    <3>2. CompleteJob => progress'[n].job # Head(progress).job
      <4>1. CompleteJob => Ends(1)
        BY <2>1 DEF CompleteJob, Ends, IInv, SchedulingInv, MessagesAgree
      <4> QED  BY <2>1, <3>1, <4>1 DEF ReportsInv
    <3>3. /\ state'[progress'[n].job] = "complete" => cancelled'[progress'[n].job]
          /\ cancelled'[progress'[n].job] /\ thread'[progress'[n].job] = "none"
               => cancelled[progress'[n].job] /\ thread[progress'[n].job] = "none"
      BY <1>7, <2>2, <3>1, <3>2, ReportKept
    <3>4. ASSUME NEW m \in DOMAIN progress', Ends(m)', progress'[m].job = progress'[n].job PROVE m = n
      <4>1. m + 1 \in DOMAIN progress /\ Ends(m + 1) /\ progress'[m].job = progress[m + 1].job
        BY <2>1, <3>4 DEF Ends
      <4>2. m + 1 = n + 1
        BY <3>1, <3>4, <4>1 DEF ReportsInv
      <4> QED  BY SMTT(30), <1>0, <2>1, <4>2
    <3>5. ASSUME cancelled[progress'[n].job], thread[progress'[n].job] = "none"
          PROVE  \E m \in DOMAIN progress' : n < m /\ progress'[m].op = "advance"
      <4>1. PICK m \in DOMAIN progress : n + 1 < m /\ progress[m].op = "advance"
        BY <3>1, <3>5 DEF ReportsInv
      <4>2. m - 1 \in DOMAIN progress' /\ n < m - 1 /\ (m - 1) + 1 = m
        BY SMTT(30), <1>0, <2>1, <4>1
      <4> QED  BY <2>1, <4>1, <4>2
    <3> QED  BY <3>3, <3>4, <3>5
  <2> QED  BY <2>3 DEF ReportsInv
<1>8. CASE progress' = progress /\ progress = <<>>
  BY <1>1, <1>8
<1> QED  BY <1>1, <1>3, <1>5, <1>6, <1>7, <1>8, ProgressStep

(* What complete_job changes belongs to a job that is tasked or cancelled. *)
LEMMA CompletedWrites ==
  ASSUME IInv, ReportsInv, CompleteJob, NEW i \in Items, item_state'[i] # item_state[i],
         NEW j, j = Head(progress).job
  PROVE  j \in JobId /\ i \in Writes(spec[j]) /\ (state[j] = "tasked" \/ cancelled[j])
<1>0. TypeOK /\ MessagesAgree /\ fetched
  BY DEF IInv, SchedulingInv, CompleteJob
<1>1. PICK failed \in BOOLEAN : OnSuccess(j, failed)
  BY DEF CompleteJob
<1>2. /\ progress # <<>> /\ Head(progress) = progress[1] /\ 1 \in DOMAIN progress
      /\ Ends(1) /\ progress[1] \in Message
  BY SMTT(30), <1>0 DEF MessagesAgree, TypeOK, Ends
<1>3. j \in JobId
  BY SMTT(30), <1>2 DEF Message, AdvanceMsg, Ends
<1>4. state[j] = "tasked" \/ cancelled[j]
  BY <1>0, <1>2 DEF MessagesAgree, EndReported, Ends, ReportsInv
<1>5. IsStateChange(spec[j]) /\ i = spec[j].obj
  BY <1>0, <1>1 DEF OnSuccess, TypeOK
<1> QED  BY <1>3, <1>4, <1>5 DEF Writes

(* "jobs may only modify objects that they have taken out a writelock on", *)
(* or were cancelled after their thread had finished.                      *)
THEOREM JobsModifyUnderLock == Spec => ModifiedUnderLock
<1> DEFINE Locks == up /\ fetched /\ ~fetched' =>
                      \A i \in Items : item_state'[i] # item_state[i]
                        => Head(progress).job \in writers[i] \/ cancelled[Head(progress).job]
<1>1. Init => IInv /\ ReportsInv
  <2>1. DOMAIN <<>> = {}
    BY SMT
  <2> QED  BY <2>1, InitIInv DEF Init, ReportsInv
<1>2. IInv /\ ReportsInv /\ [Next]_vars => IInv' /\ ReportsInv'
  BY NextIInv, ReportsStep
<1>3. IInv /\ ReportsInv /\ [Next]_vars => [Locks]_vars
  <2> SUFFICES ASSUME IInv, ReportsInv, [Next]_vars, fetched, ~fetched', NEW i \in Items,
                      item_state'[i] # item_state[i]
               PROVE  Head(progress).job \in writers[i] \/ cancelled[Head(progress).job]
    OBVIOUS
  <2>0. TypeOK /\ LocksMatchJobs /\ MessagesAgree
    BY DEF IInv, SchedulingInv
  <2>1. ASSUME CompleteJob PROVE Head(progress).job \in writers[i] \/ cancelled[Head(progress).job]
    BY SMTT(30), <2>0, <2>1, CompletedWrites DEF LocksMatchJobs, Incomplete
  <2>2. CompleteJob
    <3>1. ~UNCHANGED fetched /\ ~UNCHANGED item_state
      OBVIOUS
    <3>2. ASSUME NEW r \in Requests, SubmitCommand(r) PROVE FALSE
      BY <3>1, <3>2 DEF SubmitCommand
    <3>3. ASSUME NEW r \in Reports, AgentReport(r) PROVE FALSE
      BY <3>1, <3>3 DEF AgentReport
    <3>4. ASSUME NEW j \in JobId, CancelJob(j) \/ CancelFailed(j) \/ SpawnJob(j) PROVE FALSE
      BY <3>1, <3>4 DEF CancelJob, CancelFailed, SpawnJob
    <3>5. ASSUME NEW j \in JobId, ThreadAction(j) PROVE FALSE
      BY <2>0, <3>1, <3>5, ThreadShape
    <3>6. ASSUME FetchJob \/ Restart PROVE FALSE
      BY <3>1, <3>6 DEF FetchJob, Restart, objVars
    <3>7. ASSUME Advance \/ CompletionHooks \/ Notify \/ DrainDone \/ CheckJobs \/ TaskJobs PROVE FALSE
      BY <3>1, <3>7 DEF Advance, CompletionHooks, Notify, DrainDone, CheckJobs, TaskJobs
    <3>8. ASSUME NEW k \in Items, DrainItem(k) PROVE FALSE
      BY <3>1, <3>8 DEF DrainItem
    <3>9. ~UNCHANGED vars
      BY <3>1 DEF vars
    <3> QED  BY <3>2, <3>3, <3>4, <3>5, <3>6, <3>7, <3>8, <3>9 DEF Next, ProgressAction, LockHolder
  <2> QED  BY <2>1, <2>2
<1> QED  BY <1>1, <1>2, <1>3, PTL DEF Spec, ModifiedUnderLock

-----------------------------------------------------------------------------
(* What _check_jobs verified *)

(* What a job relies on, with the items in these states.                   *)
MetIn(sp, st) == /\ \A d \in sp.deps : st[d.on] \in d.accept
                 /\ IsStateChange(sp) => /\ st[sp.obj] = sp.old
                                         /\ \A d \in StaticDeps[sp.obj][sp.new] : st[d.on] \in d.accept

(* No cancelled job wrote what the job locks.                              *)
Undisturbed(j) == \A m \in JobId : cancelled[m] => Writes(spec[m]) \cap (Writes(spec[j]) \cup Reads(spec[j])) = {}

DepsInv ==
  /\ \A j \in JobId : state[j] = "tasked" /\ Undisturbed(j) => MetIn(spec[j], item_state)
  /\ Checked => \A j \in ok_jobs : MetIn(spec[j], item_state)

(* A job locks whatever it relies on.                                      *)
LEMMA MetStays ==
  ASSUME NEW sp \in JobSpecs, NEW a, NEW b, MetIn(sp, a),
         \A i \in Writes(sp) \cup Reads(sp) : i \in Items => b[i] = a[i]
  PROVE  MetIn(sp, b)
<1>1. sp \in JobSpec
  BY SpecsAssumption
<1>2. \A d \in sp.deps : d.on \in Reads(sp) /\ d.on \in Items
  BY <1>1 DEF JobSpec, Dependency, Reads
<1>3. ASSUME IsStateChange(sp)
      PROVE  /\ sp.obj \in Writes(sp) /\ sp.obj \in Items
             /\ \A d \in StaticDeps[sp.obj][sp.new] : d.on \in Reads(sp) /\ d.on \in Items
  <2>1. sp.obj \in Items /\ sp.obj \in Writes(sp)
    BY <1>1, <1>3 DEF JobSpec, IsStateChange, Writes
  <2>2. \A d \in StaticDeps[sp.obj][sp.new] : d.on \in Reads(sp)
    BY <1>3 DEF Reads
  <2> QED  BY <2>1, <2>2, LocksAreOnItems
<1> QED  BY <1>2, <1>3 DEF MetIn

(* Who changes the state of an item.                                       *)
LEMMA ItemsChange ==
  ASSUME IInv, [Next]_vars, ReportsInv, LatestInv, NEW i \in Items, item_state'[i] # item_state[i]
  PROVE  ~Checked /\ (~Locked(i) \/ CompleteJob)
<1>0. TypeOK
  BY DEF IInv
<1>1. item_state' # item_state
  OBVIOUS
<1>2. ASSUME NEW r \in Requests, SubmitCommand(r) PROVE FALSE
  BY <1>1, <1>2 DEF SubmitCommand, objVars
<1>3. ASSUME NEW r \in Reports, AgentReport(r) PROVE FALSE
  BY <1>1, <1>3 DEF AgentReport, objVars
<1>4. ASSUME NEW j \in JobId, CancelJob(j) \/ CancelFailed(j) \/ SpawnJob(j) PROVE FALSE
  BY <1>1, <1>4 DEF CancelJob, CancelFailed, SpawnJob, objVars
<1>5. ASSUME NEW j \in JobId, ThreadAction(j) PROVE FALSE
  BY <1>0, <1>1, <1>5, ThreadShape DEF objVars
<1>6. ASSUME Advance \/ FetchJob \/ CompletionHooks \/ DrainDone \/ CheckJobs \/ TaskJobs PROVE FALSE
  BY <1>1, <1>6 DEF Advance, FetchJob, CompletionHooks, DrainDone, CheckJobs, TaskJobs, objVars
<1>7. ASSUME Restart \/ UNCHANGED vars PROVE FALSE
  BY <1>1, <1>7 DEF Restart, vars, objVars
<1>8. ASSUME CompleteJob PROVE ~Checked
  BY <1>8 DEF CompleteJob, Checked
<1>9. ASSUME Notify PROVE ~Checked /\ ~Locked(i)
  <2> DEFINE n == Head(nqueue)
  <2>1. phase = "free" /\ ~Locked(n.item) /\ item_state' = [item_state EXCEPT ![n.item] = n.to]
    BY <1>1, <1>9 DEF Notify, Apply, objVars
  <2> HIDE DEF n
  <2>2. i = n.item
    BY <1>0, <2>1 DEF TypeOK
  <2> QED  BY <2>1, <2>2 DEF Checked
<1>10. ASSUME NEW k \in Items, DrainItem(k) PROVE ~Checked /\ ~Locked(i)
  <2> DEFINE n == DrainLatest(buffer[k])
  <2>1. /\ phase = "drain" /\ ~Locked(k) /\ buffer[k] # <<>>
        /\ item_state' = [item_state EXCEPT ![n.item] = n.to]
    BY <1>1, <1>10 DEF DrainItem, Apply, objVars
  <2>2. n.item = k
    <3>1. buffer[k] \in Seq(Notification)
      BY <1>0 DEF TypeOK
    <3> QED  BY SMTT(30), <2>1, <3>1, LatestFacts DEF LatestInv
  <2> HIDE DEF n
  <2>3. i = n.item
    BY <1>0, <2>1 DEF TypeOK
  <2> QED  BY <2>1, <2>2, <2>3 DEF Checked
<1> QED
  BY <1>2, <1>3, <1>4, <1>5, <1>6, <1>7, <1>8, <1>9, <1>10 DEF Next, ProgressAction, LockHolder

(* A job becomes tasked after its checks.                                  *)
LEMMA TaskedHow ==
  ASSUME IInv, [Next]_vars, NEW j \in JobId, state'[j] = "tasked"
  PROVE  state[j] = "tasked" \/ (TaskJobs /\ j \in ok_jobs)
<1>0. TypeOK /\ LocksMatchJobs /\ RowsAgree /\ PassAgrees /\ MessagesAgree
  BY DEF IInv, SchedulingInv
<1>1. CASE ThreadMove
  BY <1>1 DEF ThreadMove, RowVars
<1>2. CASE PlanStep
  <2>1. PICK p : \E c \in CommandId : WellFormed(p) /\ AddJobs(p, c)
    BY <1>2 DEF PlanStep
  <2>2. state' = [k \in JobId |-> IF k \in last_id + 1 .. last_id + Len(p.specs) THEN "pending" ELSE state[k]]
    BY <2>1 DEF AddJobs
  <2> QED  BY <2>2
<1>3. CASE EndStep
  BY <1>0, <1>3 DEF EndStep, EndJob, TypeOK
<1>4. CASE TaskJobs
  BY <1>4 DEF TaskJobs
<1>5. CASE Restart
  BY <1>5 DEF Restart
<1> QED  BY <1>0, <1>1, <1>2, <1>3, <1>4, <1>5, StepShape

(* The lists of a pass are made by its checks.                             *)
LEMMA CheckedHow ==
  ASSUME IInv, [Next]_vars, Checked'
  PROVE  CheckJobs \/ (Checked /\ ok_jobs' = ok_jobs)
<1>1. ASSUME UNCHANGED ctlVars PROVE Checked /\ ok_jobs' = ok_jobs
  BY <1>1 DEF Checked, ctlVars
<1>2. ASSUME NEW r \in Requests, SubmitCommand(r) PROVE UNCHANGED ctlVars
  BY <1>2 DEF SubmitCommand
<1>3. ASSUME NEW r \in Reports, AgentReport(r) PROVE UNCHANGED ctlVars
  BY <1>3 DEF AgentReport
<1>4. ASSUME NEW j \in JobId, CancelJob(j) PROVE UNCHANGED ctlVars
  BY <1>4 DEF CancelJob
<1>5. ASSUME NEW j \in JobId, ThreadAction(j) PROVE UNCHANGED ctlVars
  BY <1>5, ThreadShape DEF IInv
<1>6. ASSUME Advance \/ Notify \/ DrainDone \/ Restart PROVE FALSE
  BY <1>6 DEF Advance, Notify, DrainDone, Restart, Checked
<1>7. ASSUME FetchJob \/ UNCHANGED vars PROVE UNCHANGED ctlVars
  BY <1>7 DEF FetchJob, vars
<1>8. ASSUME CompleteJob PROVE FALSE
  <2>1. (phase = "free" /\ phase' = phase) \/ (phase' = "hooks" /\ resume' = "drain")
    BY <1>8 DEF CompleteJob, FinishJob
  <2> QED  BY <2>1 DEF Checked
<1>9. ASSUME CompletionHooks PROVE Checked /\ ok_jobs' = ok_jobs
  BY <1>9 DEF CompletionHooks, Checked
<1>10. ASSUME NEW i \in Items, DrainItem(i) PROVE UNCHANGED ctlVars
  BY <1>10 DEF DrainItem
<1>11. ASSUME NEW j \in JobId, CancelFailed(j) PROVE Checked /\ ok_jobs' = ok_jobs
  BY <1>11 DEF CancelFailed, Checked
<1>12. ASSUME TaskJobs PROVE FALSE
  BY <1>12 DEF TaskJobs, GoTo, AfterSpawning, Checked
<1>13. ASSUME NEW j \in JobId, SpawnJob(j) PROVE FALSE
  BY <1>13 DEF SpawnJob, GoTo, AfterSpawning, Checked
<1> QED
  BY <1>1, <1>2, <1>3, <1>4, <1>5, <1>6, <1>7, <1>8, <1>9, <1>10, <1>11, <1>12, <1>13
     DEF Next, ProgressAction, LockHolder

(* No step takes away what a tasked job relies on.                         *)
LEMMA DepsStep ==
  ASSUME IInv, [Next]_vars, ReportsInv, LatestInv, DepsInv PROVE DepsInv'
<1>0. TypeOK /\ LocksMatchJobs /\ RowsAgree /\ PassAgrees /\ OvertakesAfterCancel /\ RowsAgree'
  BY NextIInv DEF IInv, SchedulingInv
<1>1. ASSUME NEW j \in JobId, state'[j] = "tasked", Undisturbed(j)' PROVE MetIn(spec'[j], item_state')
  <2>1. CASE TaskJobs /\ j \in ok_jobs
    <3>1. phase = "cancelling" /\ UNCHANGED <<spec, item_state>>
      BY <2>1 DEF TaskJobs, objVars
    <3> QED  BY <2>1, <3>1 DEF DepsInv, Checked
  <2>2. CASE state[j] = "tasked"
    <3>1. spec'[j] = spec[j] /\ Incomplete(j) /\ ~cancelled[j]
      BY <1>0, <2>2, RowsStay DEF Incomplete, RowsAgree
    <3>2. Undisturbed(j)
      BY <1>1, <3>1, CancelledStays DEF Undisturbed
    <3>3. ASSUME NEW i \in Items, i \in Writes(spec[j]) \cup Reads(spec[j]), item_state'[i] # item_state[i]
          PROVE  FALSE
      <4>1. Locked(i)
        BY <1>0, <3>1, <3>3 DEF Locked, LocksMatchJobs
      <4>2. CompleteJob
        BY <3>3, <4>1, ItemsChange
      <4>3. PICK k : k = Head(progress).job
        OBVIOUS
      <4>4. k \in JobId /\ i \in Writes(spec[k]) /\ (state[k] = "tasked" \/ cancelled[k])
        BY <3>3, <4>2, <4>3, CompletedWrites
      <4>5. CASE cancelled[k]
        BY <3>2, <3>3, <4>4, <4>5 DEF Undisturbed
      <4>6. CASE state[k] = "tasked" /\ k = j
        <5>1. PICK failed \in BOOLEAN : FinishJob(j, failed, FALSE, "drain")
          BY <4>2, <4>3, <4>6 DEF CompleteJob, StillTasked
        <5> QED  BY <1>0, <1>1, <5>1 DEF FinishJob, TypeOK
      <4>7. CASE state[k] = "tasked" /\ k # j
        <5>1. ~cancelled[k] /\ Incomplete(k)
          BY <1>0, <4>4, <4>7 DEF RowsAgree, Incomplete
        <5>2. Conflict(i, spec[j], spec[k]) /\ Conflict(i, spec[k], spec[j])
          BY <3>3, <4>4 DEF Conflict
        <5>3. j < k \/ k < j
          BY SMTT(30), <4>4, <4>7, Bounds DEF JobId
        <5>4. \E m \in JobId : cancelled[m] /\ i \in Writes(spec[m])
          BY <1>0, <2>2, <3>1, <4>4, <4>7, <5>1, <5>2, <5>3 DEF OvertakesAfterCancel
        <5> QED  BY <3>2, <3>3, <5>4 DEF Undisturbed
      <4> QED  BY <4>4, <4>5, <4>6, <4>7
    <3>4. spec[j] \in JobSpecs /\ MetIn(spec[j], item_state)
      BY <1>0, <2>2, <3>2 DEF TypeOK, DepsInv
    <3> QED  BY <3>1, <3>3, <3>4, MetStays
  <2> QED  BY <1>1, <2>1, <2>2, TaskedHow
<1>2. ASSUME Checked', NEW j \in ok_jobs' PROVE MetIn(spec'[j], item_state')
  <2>1. CASE CheckJobs
    <3>1. /\ ok_jobs' \subseteq Ready /\ \A k \in ok_jobs' : DepsSatisfied(spec[k])
          /\ UNCHANGED <<spec, item_state>>
      <4>1. phase' # "free"
        BY <1>2 DEF Checked
      <4> QED  BY <2>1, <4>1 DEF CheckJobs, GoTo, jobVars, objVars
    <3> QED  BY <1>2, <3>1 DEF DepsSatisfied, MetIn, Satisfied
  <2>2. CASE Checked /\ ok_jobs' = ok_jobs
    <3>1. j \in JobId /\ state[j] = "pending" /\ MetIn(spec[j], item_state) /\ spec[j] \in JobSpecs
      BY <1>0, <1>2, <2>2 DEF PassAgrees, DepsInv, TypeOK
    <3>2. spec'[j] = spec[j]
      BY <3>1, RowsStay
    <3>3. \A i \in Items : item_state'[i] = item_state[i]
      BY <2>2, ItemsChange
    <3> QED  BY <3>1, <3>2, <3>3, MetStays
  <2> QED  BY <1>2, <2>1, <2>2, CheckedHow
<1> QED  BY <1>1, <1>2 DEF DepsInv

(* What _check_jobs verified of a job stays true while it runs, unless a   *)
(* cancelled job wrote one of the items.                                   *)
THEOREM ChecksStayTrue == Spec => []DepsHoldWhileTasked
<1> DEFINE Inv == IInv /\ BufferInv /\ LatestInv /\ SeqInv /\ ReportsInv /\ DepsInv
<1>1. Init => Inv
  <2> SUFFICES ASSUME Init PROVE Inv
    OBVIOUS
  <2>0. DOMAIN <<>> = {}
    BY SMT
  <2>1. ReportsInv
    BY <2>0 DEF Init, ReportsInv
  <2>2. DepsInv
    BY DEF Init, DepsInv, Checked
  <2> QED  BY <2>1, <2>2, InitIInv, InitSeq
<1>2. Inv /\ [Next]_vars => Inv'
  BY NextIInv, BufferStep, LatestStep, SeqStep, ReportsStep, DepsStep
<1>3. DepsInv => DepsHoldWhileTasked
  <2> SUFFICES ASSUME DepsInv, NEW j \in JobId, state[j] = "tasked",
                      ~\E m \in JobId : /\ cancelled[m]
                                        /\ Writes(spec[m]) \cap (Writes(spec[j]) \cup Reads(spec[j])) # {}
               PROVE  MetIn(spec[j], item_state)
    BY DEF DepsHoldWhileTasked, MetIn, Satisfied
  <2>1. Undisturbed(j)
    BY DEF Undisturbed
  <2> QED  BY <2>1 DEF DepsInv
<1> QED  BY <1>1, <1>2, <1>3, PTL DEF Spec

-----------------------------------------------------------------------------
(* Who wakes a job that is ready *)

Wakeup == progress # <<>> \/ \E j \in JobId : cancelled[j] /\ thread[j] # "none"

(* A pass of _run_next leaves no ready job behind, or goes round again, or *)
(* something that starts the next pass is on its way.                      *)
WakeInv ==
  /\ phase = "free" => Ready = {} \/ Wakeup
  /\ Checked => again \/ (cancel_jobs = {} /\ (Ready \subseteq ok_jobs \/ Wakeup))
  /\ phase = "hooks" /\ resume = "cancelling" => again
  /\ phase = "spawning" => again \/ Ready = {} \/ Wakeup

(* A wakeup goes away only with the last message.                          *)
LEMMA WakeupStays ==
  ASSUME IInv, [Next]_vars, Wakeup, progress # <<>> => progress' # <<>> PROVE Wakeup'
  BY CancelledStays, ThreadsStay DEF Wakeup

(* Who is ready is a matter of the rows.                                   *)
LEMMA ReadyStays == ASSUME UNCHANGED <<jobs, state, wait_for>> PROVE Ready' = Ready
  BY DEF Ready, InState

(* A step that leaves the rows and the pass alone.                         *)
LEMMA QuietWake ==
  ASSUME IInv, [Next]_vars, WakeInv, UNCHANGED <<jobs, jobVars, ctlVars>>, progress # <<>> => progress' # <<>>
  PROVE  WakeInv'
<1>1. Ready' = Ready
  BY ReadyStays DEF jobVars
<1>2. Wakeup => Wakeup'
  BY WakeupStays
<1>3. (Checked' <=> Checked) /\ UNCHANGED <<phase, resume, again, ok_jobs, cancel_jobs>>
  BY DEF Checked, ctlVars
<1> QED  BY <1>1, <1>2, <1>3 DEF WakeInv

(* No step leaves a ready job without a wakeup.                            *)
LEMMA WakeStep ==
  ASSUME IInv, [Next]_vars, ReportsInv, WakeInv PROVE WakeInv'
<1>0. TypeOK /\ PassAgrees /\ MessagesAgree
  BY DEF IInv, SchedulingInv
<1>a. progress \in Seq(Message)
  BY <1>0 DEF TypeOK
<1>b. \A m \in Message : Append(progress, m) # <<>>
  BY <1>a, QueueFacts
<1>c. AdvanceMsg \in Message /\ \A j \in JobId, e \in BOOLEAN : CompleteMsg(j, e) \in Message
  BY DEF Message, AdvanceMsg, CompleteMsg
<1>1. ASSUME NEW r \in Requests, SubmitCommand(r) PROVE WakeInv'
  <2>1. progress' # <<>> /\ phase' = "free"
    BY <1>1, <1>b, <1>c DEF SubmitCommand, ctlVars
  <2> QED  BY <2>1 DEF WakeInv, Wakeup, Checked
<1>2. ASSUME NEW r \in Reports, AgentReport(r) PROVE WakeInv'
  <2>1. UNCHANGED <<jobs, jobVars, ctlVars, progress>>
    BY <1>2 DEF AgentReport
  <2> QED  BY <2>1, QuietWake
<1>3. ASSUME NEW j \in JobId, CancelJob(j) PROVE WakeInv'
  <2>1. phase' = "free" /\ cancelled'[j] /\ thread' = thread
    BY <1>0, <1>3 DEF CancelJob, ctlVars, TypeOK
  <2>2. thread[j] = "none" => progress' # <<>>
    BY <1>3, <1>b, <1>c DEF CancelJob, StopOrAdvance
  <2> QED  BY <2>1, <2>2 DEF WakeInv, Wakeup, Checked
<1>4. ASSUME NEW j \in JobId, ThreadAction(j) PROVE WakeInv'
  <2>1. /\ UNCHANGED <<jobs, jobVars, ctlVars>>
        /\ progress' = progress \/ \E e \in BOOLEAN : progress' = Append(progress, CompleteMsg(j, e))
    BY <1>0, <1>4, ThreadShape
  <2> QED  BY <2>1, <1>b, <1>c, QuietWake
<1>5. ASSUME FetchJob PROVE WakeInv'
  <2>1. UNCHANGED <<jobs, jobVars, ctlVars, progress>>
    BY <1>5 DEF FetchJob
  <2> QED  BY <2>1, QuietWake
<1>6. ASSUME UNCHANGED vars PROVE WakeInv'
  <2>1. UNCHANGED <<jobs, jobVars, ctlVars, progress>>
    BY <1>6 DEF vars
  <2> QED  BY <2>1, QuietWake
<1>7. ASSUME phase' \in {"drain", "run_next"} PROVE WakeInv'
  BY <1>7 DEF WakeInv, Checked
<1>8. ASSUME Advance \/ DrainDone PROVE WakeInv'
  BY <1>7, <1>8 DEF Advance, DrainDone
<1>9. ASSUME NEW i \in Items, DrainItem(i) PROVE WakeInv'
  BY <1>7, <1>9 DEF DrainItem, ctlVars
<1>10. ASSUME CompleteJob PROVE WakeInv'
  <2>1. PICK j : j = Head(progress).job
    OBVIOUS
  <2>2. CASE StillTasked(j)
    <3>1. phase' = "hooks" /\ resume' = "drain"
      BY <1>10, <2>1, <2>2 DEF CompleteJob, FinishJob
    <3> QED  BY <3>1 DEF WakeInv, Checked
  <2>3. CASE ~StillTasked(j)
    <3>1. phase' = "free" /\ progress' = Tail(progress) /\ UNCHANGED <<cancelled, thread>>
      BY <1>10, <2>1, <2>3 DEF CompleteJob, jobVars, runVars
    <3>2. /\ progress # <<>> /\ Head(progress) = progress[1] /\ 1 \in DOMAIN progress
          /\ Head(progress).op = "complete_job" /\ j \in JobId
      <4>1. progress # <<>> /\ Head(progress).op = "complete_job"
        BY <1>0, <1>10 DEF CompleteJob, MessagesAgree
      <4>2. Head(progress) = progress[1] /\ 1 \in DOMAIN progress /\ Head(progress) \in Message
        BY SMTT(30), <1>a, <4>1
      <4> QED  BY SMTT(30), <2>1, <4>1, <4>2 DEF Message, AdvanceMsg
    <3>3. cancelled[j]
      <4>1. state[j] = "complete"
        BY <1>0, <2>1, <2>3, <3>2 DEF MessagesAgree, EndReported, StillTasked
      <4> QED  BY <2>1, <3>2, <4>1 DEF ReportsInv, Ends
    <3>4. CASE thread[j] # "none"
      BY <3>1, <3>2, <3>3, <3>4 DEF WakeInv, Wakeup, Checked
    <3>5. CASE thread[j] = "none"
      <4>1. \E m \in DOMAIN progress : 1 < m
        BY <2>1, <3>2, <3>3, <3>5 DEF ReportsInv, Ends
      <4>2. Tail(progress) # <<>>
        <5>1. Len(progress) \in Nat /\ DOMAIN progress = 1..Len(progress)
          BY SMTT(30), <1>a
        <5>2. Len(progress) > 1
          BY SMTT(30), <4>1, <5>1
        <5>3. Len(Tail(progress)) = Len(progress) - 1
          BY SMTT(30), <1>a, <3>2
        <5> QED  BY SMTT(30), <5>1, <5>2, <5>3
      <4> QED  BY <3>1, <4>2 DEF WakeInv, Wakeup, Checked
    <3> QED  BY <3>4, <3>5
  <2> QED  BY <2>2, <2>3
<1>11. ASSUME CompletionHooks PROVE WakeInv'
  <2>1. phase = "hooks" /\ phase' = resume /\ UNCHANGED <<resume, again>> /\ resume \in {"drain", "cancelling"}
    BY <1>0, <1>11 DEF CompletionHooks, TypeOK
  <2>2. CASE resume = "cancelling"
    <3>1. again'
      BY <2>1, <2>2 DEF WakeInv
    <3> QED  BY <2>1, <2>2, <3>1 DEF WakeInv
  <2> QED  BY <1>7, <2>1, <2>2
<1>12. ASSUME Notify PROVE WakeInv'
  BY <1>7, <1>12 DEF Notify
<1>13. ASSUME CheckJobs PROVE WakeInv'
  <2>1. CASE jobs' = {} /\ phase' = "free"
    BY <2>1 DEF WakeInv, Checked, Ready, InState
  <2>2. CASE \E bad \in SUBSET Ready : /\ cancel_jobs' = bad /\ ok_jobs' = Ready \ bad /\ again' = (bad # {})
                                       /\ phase' = "cancelling" /\ UNCHANGED <<jobs, jobVars>>
    <3>1. PICK bad \in SUBSET Ready : /\ cancel_jobs' = bad /\ ok_jobs' = Ready \ bad /\ again' = (bad # {})
                                      /\ phase' = "cancelling" /\ UNCHANGED <<jobs, jobVars>>
      BY <2>2
    <3>2. Ready' = Ready
      BY <3>1, ReadyStays DEF jobVars
    <3>3. bad # {} => again'
      BY <3>1
    <3>4. again' \/ (cancel_jobs' = {} /\ Ready' \subseteq ok_jobs')
      BY <3>1, <3>2, <3>3
    <3> QED  BY <3>1, <3>4 DEF WakeInv
  <2> QED  BY <1>13, <2>1, <2>2 DEF CheckJobs, GoTo
<1>14. ASSUME NEW j \in JobId, CancelFailed(j) PROVE WakeInv'
  <2>1. phase = "cancelling" /\ cancel_jobs # {} /\ again' = again /\ phase' = "hooks"
    BY <1>14 DEF CancelFailed, FinishJob
  <2>2. again'
    BY <2>1 DEF WakeInv, Checked
  <2> QED  BY <2>1, <2>2 DEF WakeInv
<1>15. ASSUME TaskJobs PROVE WakeInv'
  <2>1. /\ phase = "cancelling" /\ phase' \in {"run_next", "free", "spawning"}
        /\ phase' # "run_next" => phase' = "spawning" \/ ~again
        /\ UNCHANGED <<jobs, wait_for, progress, again>>
        /\ \A k \in JobId : state'[k] = IF k \in ok_jobs THEN "tasked" ELSE state[k]
    BY <1>15 DEF TaskJobs, GoTo, AfterSpawning
  <2>2. Ready' \subseteq Ready \ ok_jobs
    BY <1>0, <2>1 DEF Ready, InState, TypeOK
  <2>3. Wakeup => Wakeup'
    BY <2>1, WakeupStays
  <2>4. again \/ Ready' = {} \/ Wakeup'
    BY <2>1, <2>2, <2>3 DEF WakeInv, Checked
  <2> QED  BY <2>1, <2>4 DEF WakeInv, Checked
<1>16. ASSUME NEW j \in JobId, SpawnJob(j) PROVE WakeInv'
  <2>1. /\ phase = "spawning" /\ phase' \in {"run_next", "free", "spawning"}
        /\ phase' # "run_next" => phase' = "spawning" \/ ~again
        /\ UNCHANGED <<jobs, state, wait_for, again>>
        /\ progress' = progress \/ progress' = Append(progress, CompleteMsg(j, FALSE))
    BY <1>16 DEF SpawnJob, GoTo, AfterSpawning, jobVars
  <2>2. Ready' = Ready
    BY <2>1, ReadyStays
  <2>3. Wakeup => Wakeup'
    BY <1>b, <1>c, <2>1, WakeupStays
  <2>4. again \/ Ready' = {} \/ Wakeup'
    BY <2>1, <2>2, <2>3 DEF WakeInv
  <2> QED  BY <2>1, <2>4 DEF WakeInv, Checked
<1>17. ASSUME Restart PROVE WakeInv'
  BY <1>17 DEF Restart, WakeInv, Checked, Ready, InState
<1> QED
  BY <1>1, <1>2, <1>3, <1>4, <1>5, <1>6, <1>8, <1>9, <1>10, <1>11, <1>12, <1>13, <1>14, <1>15, <1>16, <1>17
     DEF Next, ProgressAction, LockHolder

(* Whenever the lock is free, a job that is ready has a wakeup on its way, *)
(* a message for JobProgress or the thread of a cancelled job.             *)
THEOREM ReadyJobsAreWoken == Spec => []ReadyJobHasWakeup
<1> DEFINE Inv == IInv /\ ReportsInv /\ WakeInv
<1>1. Init => Inv
  <2> SUFFICES ASSUME Init PROVE Inv
    OBVIOUS
  <2>0. DOMAIN <<>> = {}
    BY SMT
  <2>1. ReportsInv
    BY <2>0 DEF Init, ReportsInv
  <2>2. Ready = {}
    BY DEF Init, Ready, InState
  <2>3. WakeInv
    BY <2>2 DEF Init, WakeInv, Checked
  <2> QED  BY <2>1, <2>3, InitIInv
<1>2. Inv /\ [Next]_vars => Inv'
  BY NextIInv, ReportsStep, WakeStep
<1>3. WakeInv => ReadyJobHasWakeup
  BY DEF WakeInv, ReadyJobHasWakeup, Wakeup
<1> QED  BY <1>1, <1>2, <1>3, PTL DEF Spec
=============================================================================
