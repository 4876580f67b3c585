--------------------------- MODULE ServicesProofs ---------------------------
(***************************************************************************)
(* What warp-drive (ChangeFeed) and the task runner (TaskRunner) promise,  *)
(* for every value of the constants.  The two share no state; a part of    *)
(* this module is about one of them.                                       *)
(***************************************************************************)
EXTENDS ChangeFeed, TaskRunner, FiniteSetTheorems, TLAPS

USE ZenonT(20)

-----------------------------------------------------------------------------
(***************************************************************************)
(* ViewFollowsCache, CacheSettles and LocksSettle for every set of         *)
(* records, locks and GUIs, and for any number of changes and failures.    *)
(*                                                                         *)
(* ViewFollowsCache is not inductive.  That a GUI's snapshot is still the  *)
(* cache when it is registered needs the two mutexes the route holds       *)
(* (Snapshots); that a late deletion does not hide a record needs what the *)
(* cache holds while the deletion is being sent (Deleting).                *)
(*                                                                         *)
(* CacheSettles speaks of moments when nothing is on its way.  The         *)
(* invariant CacheInv says where the value of the database is otherwise:   *)
(* in the last announcement of the record, in the handler's hand if none   *)
(* follows, and in the cache if main has read the record and neither of    *)
(* the two has it.                                                         *)
(*                                                                         *)
(* LocksSettle is of the same kind.  LockStateInv says that the last       *)
(* queued message about a lock, or lock_state when there is none, tells    *)
(* whether the lock is held, from the publication of the reply to          *)
(* get_locks on and up to the change that is being published.              *)
(***************************************************************************)

(* Functions and records are what their construction makes them.           *)
IsView(w) ==
  /\ w = [records |-> w.records, locks |-> w.locks]
  /\ w.records = [r \in Records |-> w.records[r]]

FeedShape ==
  /\ cache = [r \in Records |-> cache[r]]
  /\ conn = [u \in Users |-> conn[u]]
  /\ view = [u \in Users |-> view[u]] /\ \A u \in Users : IsView(view[u])
  /\ handler.at = "apply" =>
       handler = [at |-> "apply", record |-> handler.record, value |-> handler.value]

(* The handler has nothing in hand until main has issued LISTEN, and the   *)
(* record whose deletion it sends is gone, or was read back.               *)
Deleting ==
  /\ phase = "api" => handler.at \notin {"apply", "send"}
  /\ handler.at = "send" /\ handler.record \in Records
       => cache[handler.record] = Absent \/ handler.record \in revived

(* Users exist only while the process serves, and one that is joining has  *)
(* an exact snapshot.                                                      *)
Snapshots ==
  /\ \A u \in Users : conn[u] \in {"on", "joining"} => phase = "serving"
  /\ \A u \in Users : conn[u] = "joining" => view[u].records = cache /\ view[u].locks = shown

FeedInv == FeedShape /\ Deleting /\ Snapshots /\ ViewFollowsCache

-----------------------------------------------------------------------------
(* The initial state satisfies the invariant: nobody is connected.         *)
LEMMA InitFeedInv == FeedInit => FeedInv
<1> SUFFICES ASSUME FeedInit PROVE FeedInv
  OBVIOUS
<1>1. FeedShape
  BY DEF FeedInit, FeedShape, IsView, NoRecords, NoView, Idle
<1>2. Deleting
  BY DEF FeedInit, Deleting, Idle
<1>3. Snapshots /\ ViewFollowsCache
  BY DEF FeedInit, Snapshots, ViewFollowsCache, On
<1> QED
  BY <1>1, <1>2, <1>3 DEF FeedInv

(* A step that touches none of the state the invariant is about.           *)
LEMMA QuietStep ==
  ASSUME FeedInv,
         UNCHANGED <<cache, conn, view, handler, shown, lockSend, phase, revived>>
  PROVE  FeedInv'
BY SMT DEF FeedInv, FeedShape, Deleting, Snapshots, ViewFollowsCache, On

(* What a message about one record changes: that record, for the users     *)
(* who are registered.                                                     *)
LEMMA SentView ==
  ASSUME FeedShape, NEW r, NEW v, view' = Sent(r, v)
  PROVE  /\ view' = [u \in Users |-> view'[u]] /\ \A u \in Users : IsView(view'[u])
         /\ \A u \in Users :
              /\ view'[u].locks = view[u].locks
              /\ u \notin On => view'[u] = view[u]
              /\ \A q \in Records : view'[u].records[q] =
                   IF u \in On /\ q = r THEN v ELSE view[u].records[q]
<1>1. \A u \in Users : IsView(view[u])
  BY DEF FeedShape
<1>2. ASSUME NEW u \in Users
      PROVE  /\ view'[u].locks = view[u].locks
             /\ u \notin On => view'[u] = view[u]
             /\ \A q \in Records : view'[u].records[q] =
                  IF u \in On /\ q = r THEN v ELSE view[u].records[q]
             /\ IsView(view'[u])
  <2>1. CASE u \notin On
    BY <1>1, <2>1 DEF Sent
  <2>2. CASE u \in On
    <3> DEFINE old == view[u].records
    <3>1. view[u] = [records |-> old, locks |-> view[u].locks] /\ old = [q \in Records |-> old[q]]
      BY <1>1 DEF IsView
    <3>2. view'[u] = [view[u] EXCEPT !.records[r] = v]
      BY <2>2 DEF Sent
    <3>3. view'[u] = [records |-> [old EXCEPT ![r] = v], locks |-> view[u].locks]
      BY <3>1, <3>2
    <3> DEFINE new == [old EXCEPT ![r] = v]
    <3>4. view'[u].records = new /\ view'[u].locks = view[u].locks
      BY SMT, <3>3
    <3>5. /\ new = [q \in Records |-> new[q]]
          /\ \A q \in Records : new[q] = IF q = r THEN v ELSE old[q]
      BY <3>1
    <3>6. view'[u] = [records |-> new, locks |-> view'[u].locks]
      BY <3>3, <3>4
    <3> HIDE DEF new
    <3> QED
      BY <2>2, <3>4, <3>5, <3>6 DEF IsView
  <2> QED
    BY <2>1, <2>2
<1> QED
  BY <1>2 DEF Sent

(* What a broadcast of the locks changes: the locks, for the users who are *)
(* registered.                                                             *)
LEMMA BroadcastView ==
  ASSUME FeedShape, NEW ls, view' = Broadcast(ls)
  PROVE  /\ view' = [u \in Users |-> view'[u]] /\ \A u \in Users : IsView(view'[u])
         /\ \A u \in Users :
              /\ view'[u].records = view[u].records
              /\ view'[u].locks = IF u \in On THEN ls ELSE view[u].locks
<1>1. \A u \in Users : IsView(view[u])
  BY DEF FeedShape
<1>2. ASSUME NEW u \in Users
      PROVE  /\ view'[u].records = view[u].records
             /\ view'[u].locks = IF u \in On THEN ls ELSE view[u].locks
             /\ IsView(view'[u])
  <2>1. CASE u \notin On
    BY <1>1, <2>1 DEF Broadcast
  <2>2. CASE u \in On
    <3>1. view'[u] = [view[u] EXCEPT !.locks = ls]
      BY <2>2 DEF Broadcast
    <3>2. view'[u] = [records |-> view[u].records, locks |-> ls]
      BY <1>1, <3>1 DEF IsView
    <3>3. view'[u].records = view[u].records /\ view'[u].locks = ls
      BY SMT, <3>2
    <3>4. view'[u] = [records |-> view'[u].records, locks |-> view'[u].locks]
      BY <3>2, <3>3
    <3> QED
      BY <1>1, <2>2, <3>3, <3>4 DEF IsView
  <2> QED
    BY <2>1, <2>2
<1>3. view' = [u \in Users |-> view'[u]]
  BY DEF Broadcast
<1> QED
  BY <1>2, <1>3

-----------------------------------------------------------------------------
(* main fills the cache while nobody is connected and the handler, for the *)
(* records of the API, has nothing in hand.                                *)
LEMMA StartupInv == ASSUME FeedInv, Startup PROVE FeedInv'
<1>1. phase # "serving"
  BY DEF Startup, PopulateFromApi, Listen, PopulateFromDb, Populated, CreateLocksConsumer, ReadTable
<1>2. UNCHANGED <<conn, view, handler>>
  BY DEF Startup, PopulateFromApi, Listen, PopulateFromDb, Populated, CreateLocksConsumer, ReadTable,
         userVars, processVars
<1>3. \A u \in Users : conn[u] \notin {"on", "joining"}
  BY <1>1 DEF FeedInv, Snapshots
<1>4. Snapshots' /\ ViewFollowsCache'
  BY <1>2, <1>3 DEF Snapshots, ViewFollowsCache, On
<1>5. FeedShape' /\ Deleting'
  <2>1. ASSUME NEW r \in FromApi, PopulateFromApi(r) PROVE FeedShape' /\ Deleting'
    BY <1>2, <2>1 DEF PopulateFromApi, FeedInv, FeedShape, Deleting
  <2>2. CASE Listen \/ PopulateFromDb \/ Populated \/ CreateLocksConsumer
    BY <1>2, <2>2 DEF Listen, PopulateFromDb, Populated, CreateLocksConsumer, FeedInv, FeedShape,
       Deleting, dbVars
  <2>3. ASSUME NEW r \in Rows, ReadTable(r) PROVE FeedShape' /\ Deleting'
    BY <1>2, <2>3 DEF ReadTable, FeedInv, FeedShape, Deleting
  <2> QED
    BY <2>1, <2>2, <2>3 DEF Startup
<1> QED
  BY <1>4, <1>5 DEF FeedInv

-----------------------------------------------------------------------------
(* The handler changes the cache only while no route holds it, and tells   *)
(* the users before it goes on to another record.                          *)
LEMMA HandlerInv ==
  ASSUME FeedInv, Convert \/ ConvertFails \/ ApplyUpdate \/ ApplyDelete \/ SendDelete
  PROVE  FeedInv'
<1>1. CASE Convert \/ ConvertFails
  <2>1. /\ UNCHANGED <<cache, conn, view, shown, lockSend, phase, revived>>
        /\ phase # "api" /\ handler.at = "idle" /\ handler'.at \in {"apply", "ended"}
    BY SMT, <1>1 DEF Convert, ConvertFails, Receiving, Listening, Ended, userVars
  <2>2. FeedShape'
    <3>1. handler'.at = "apply" => handler' =
            [at |-> "apply", record |-> handler'.record, value |-> handler'.value]
      BY SMT, <1>1 DEF Convert, ConvertFails, Ended
    <3> QED
      BY <2>1, <3>1 DEF FeedInv, FeedShape
  <2> QED
    BY <2>1, <2>2 DEF FeedInv, Deleting, Snapshots, ViewFollowsCache, On
<1>2. CASE ApplyUpdate
  <2> DEFINE r == handler.record
             v == handler.value
  <2>1. /\ handler.at = "apply" /\ handler'.at = "idle" /\ handler' = Idle
        /\ cache' = [cache EXCEPT ![r] = v]
        /\ UNCHANGED <<conn, shown, lockSend, phase>>
        /\ \A u \in Users : conn[u] # "joining"
    BY <1>2 DEF ApplyUpdate, Idle, CacheFree, Joining
  <2>2. CASE cache[r] = v
    <3>1. view' = view /\ revived' = revived
      BY <1>2, <2>2 DEF ApplyUpdate
    <3>2. cache' = cache
      BY <2>1, <2>2 DEF FeedInv, FeedShape
    <3> QED
      BY SMT, <2>1, <3>1, <3>2 DEF FeedInv, FeedShape, Deleting, Snapshots, ViewFollowsCache, On
  <2>3. CASE cache[r] # v
    <3>1. view' = Sent(r, v) /\ revived' = revived \ {r}
      BY <1>2, <2>3 DEF ApplyUpdate
    <3>2. /\ view' = [u \in Users |-> view'[u]] /\ \A u \in Users : IsView(view'[u])
          /\ \A u \in Users :
               /\ view'[u].locks = view[u].locks
               /\ \A q \in Records : view'[u].records[q] =
                    IF u \in On /\ q = r THEN v ELSE view[u].records[q]
      BY SMT, <3>1, SentView DEF FeedInv
    <3>3. /\ cache' = [q \in Records |-> cache'[q]]
          /\ \A q \in Records : cache'[q] = IF q = r THEN v ELSE cache[q]
      BY <2>1 DEF FeedInv, FeedShape
    <3>4. FeedShape'
      BY <2>1, <3>2, <3>3 DEF FeedInv, FeedShape, IsView
    <3>5. Deleting' /\ Snapshots'
      BY <2>1 DEF FeedInv, Deleting, Snapshots
    <3>6. ViewFollowsCache'
      <4> SUFFICES ASSUME NEW u \in On'
                   PROVE  /\ \A q \in Records \ revived' : view'[u].records[q] = cache'[q]
                          /\ view'[u].locks = shown \/ lockSend
        BY <2>1 DEF ViewFollowsCache
      <4>1. u \in On /\ u \in Users
        BY <2>1 DEF On
      <4> QED
        BY SMT, <2>1, <3>1, <3>2, <3>3, <4>1 DEF FeedInv, ViewFollowsCache
    <3> QED
      BY <3>4, <3>5, <3>6 DEF FeedInv
  <2> QED
    BY <2>2, <2>3
<1>3. CASE ApplyDelete
  <2> DEFINE r == handler.record
  <2>1. /\ handler.at = "apply"
        /\ cache' = [cache EXCEPT ![r] = Absent]
        /\ UNCHANGED <<conn, view, shown, lockSend, phase>>
        /\ \A u \in Users : conn[u] # "joining"
    BY <1>3 DEF ApplyDelete, CacheFree, Joining, userVars
  <2>2. CASE cache[r] = Absent
    <3>1. handler' = Idle /\ revived' = revived
      BY <1>3, <2>2 DEF ApplyDelete
    <3>2. cache' = cache
      BY <2>1, <2>2 DEF FeedInv, FeedShape
    <3> QED
      BY SMT, <2>1, <3>1, <3>2 DEF FeedInv, FeedShape, IsView, Deleting, Snapshots, ViewFollowsCache, On,
         Idle
  <2>3. CASE cache[r] # Absent
    <3>1. handler' = [handler EXCEPT !.at = "send"] /\ revived' = revived \ {r}
      BY <1>3, <2>3 DEF ApplyDelete
    <3>2. handler'.at = "send" /\ handler'.record = r
      BY <2>1, <3>1 DEF FeedInv, FeedShape
    <3>3. /\ cache' = [q \in Records |-> cache'[q]]
          /\ \A q \in Records : cache'[q] = IF q = r THEN Absent ELSE cache[q]
          /\ r \notin Records => cache' = cache
      BY <2>1 DEF FeedInv, FeedShape
    <3>4. FeedShape' /\ Snapshots'
      BY <2>1, <3>2, <3>3 DEF FeedInv, FeedShape, IsView, Snapshots
    <3>5. ViewFollowsCache'
      BY SMT, <2>1, <3>1, <3>2, <3>3 DEF FeedInv, ViewFollowsCache, On
    <3>6. Deleting'
      BY <2>1, <3>2, <3>3 DEF FeedInv, Deleting
    <3> QED
      BY <3>4, <3>5, <3>6 DEF FeedInv
  <2> QED
    BY <2>2, <2>3
<1>4. CASE SendDelete
  <2> DEFINE r == handler.record
  <2>1. /\ handler.at = "send" /\ handler' = Idle /\ handler'.at = "idle"
        /\ view' = Sent(r, Absent)
        /\ UNCHANGED <<cache, conn, shown, lockSend, phase, revived>>
    BY <1>4 DEF SendDelete, Idle, dbVars
  <2>2. /\ view' = [u \in Users |-> view'[u]] /\ \A u \in Users : IsView(view'[u])
        /\ \A u \in Users :
             /\ view'[u].locks = view[u].locks
             /\ u \notin On => view'[u] = view[u]
             /\ \A q \in Records : view'[u].records[q] =
                  IF u \in On /\ q = r THEN Absent ELSE view[u].records[q]
    BY SMT, <2>1, SentView DEF FeedInv
  <2>3. FeedShape'
    BY <2>1, <2>2 DEF FeedInv, FeedShape, IsView
  <2>4. Deleting' /\ Snapshots'
    BY <2>1, <2>2 DEF FeedInv, Deleting, Snapshots, On
  <2>5. ViewFollowsCache'
    BY SMT, <2>1, <2>2 DEF FeedInv, Deleting, ViewFollowsCache, On
  <2> QED
    BY <2>3, <2>4, <2>5 DEF FeedInv
<1> QED
  BY <1>1, <1>2, <1>3, <1>4

(* The lock consumer changes lock_state while no route holds it; between   *)
(* the change and its broadcast lockSend is set.                           *)
LEMMA LocksInv ==
  ASSUME FeedInv, ConsumeLocks \/ BroadcastLocks
  PROVE  FeedInv'
<1>1. /\ UNCHANGED <<cache, conn, handler, phase, revived>>
      /\ \A u \in Users : conn[u] # "joining"
  BY DEF ConsumeLocks, BroadcastLocks, Joining, dbVars
<1>2. CASE UNCHANGED view
  <2>1. (shown' = shown /\ lockSend' = lockSend) \/ lockSend' \/ (\A u \in On : view[u].locks = shown')
    <3>1. CASE ConsumeLocks
      <4>1. (shown' = shown /\ lockSend' = lockSend) \/ lockSend' \/ view' = Broadcast(shown')
        BY <3>1 DEF ConsumeLocks
      <4> QED
        BY <1>2, <4>1, BroadcastView DEF FeedInv, On
    <3>2. CASE BroadcastLocks
      <4>1. view' = Broadcast(shown')
        BY <3>2 DEF BroadcastLocks
      <4> QED
        BY <1>2, <4>1, BroadcastView DEF FeedInv, On
    <3> QED
      BY <3>1, <3>2
  <2> QED
    BY SMT, <1>1, <1>2, <2>1 DEF FeedInv, FeedShape, Deleting, Snapshots, ViewFollowsCache, On
<1>3. CASE view' = Broadcast(shown')
  <2>1. /\ view' = [u \in Users |-> view'[u]] /\ \A u \in Users : IsView(view'[u])
        /\ \A u \in Users :
             /\ view'[u].records = view[u].records
             /\ view'[u].locks = IF u \in On THEN shown' ELSE view[u].locks
    BY <1>3, BroadcastView DEF FeedInv
  <2>2. FeedShape'
    BY <1>1, <2>1 DEF FeedInv, FeedShape, IsView
  <2>3. Deleting' /\ Snapshots'
    BY <1>1 DEF FeedInv, Deleting, Snapshots
  <2>4. ViewFollowsCache'
    BY SMT, <1>1, <2>1 DEF FeedInv, ViewFollowsCache, On
  <2> QED
    BY <2>2, <2>3, <2>4 DEF FeedInv
<1>4. view' = view \/ view' = Broadcast(shown')
  BY DEF ConsumeLocks, BroadcastLocks
<1> QED
  BY <1>2, <1>3, <1>4

(* A route copies both states and registers its user before it lets the    *)
(* mutexes go, so the copy is still exact when the user is registered.     *)
LEMMA UsersInv ==
  ASSUME FeedInv, NEW u \in Users, Connect(u) \/ UserConnected(u)
  PROVE  FeedInv'
<1>1. UNCHANGED <<cache, handler, shown, lockSend, phase, revived>>
  BY DEF Connect, UserConnected, processVars, dbVars
<1>2. CASE Connect(u)
  <2>1. /\ phase = "serving"
        /\ conn' = [conn EXCEPT ![u] = "joining"]
        /\ view' = [view EXCEPT ![u] = [records |-> cache, locks |-> shown]]
    BY <1>2 DEF Connect
  <2>2. /\ \A x \in Users : x # u => conn'[x] = conn[x] /\ view'[x] = view[x]
        /\ conn'[u] = "joining" /\ view'[u] = [records |-> cache, locks |-> shown]
        /\ conn' = [x \in Users |-> conn'[x]] /\ view' = [x \in Users |-> view'[x]]
    BY <2>1 DEF FeedInv, FeedShape
  <2>3. view'[u].records = cache /\ view'[u].locks = shown
    BY SMT, <2>2
  <2>4. IsView(view'[u])
    BY <2>2, <2>3 DEF FeedInv, FeedShape, IsView
  <2>5. FeedShape'
    BY SMT, <1>1, <2>2, <2>4 DEF FeedInv, FeedShape, IsView
  <2>6. Deleting' /\ Snapshots'
    BY <1>1, <2>1, <2>2, <2>3 DEF FeedInv, Deleting, Snapshots
  <2>7. ViewFollowsCache'
    BY SMT, <1>1, <2>2 DEF FeedInv, ViewFollowsCache, On
  <2> QED
    BY <2>5, <2>6, <2>7 DEF FeedInv
<1>3. CASE UserConnected(u)
  <2>1. /\ conn[u] = "joining" /\ view' = view
        /\ conn' = [conn EXCEPT ![u] = "on"]
    BY <1>3 DEF UserConnected
  <2> QED
    BY SMT, <1>1, <2>1 DEF FeedInv, FeedShape, IsView, Deleting, Snapshots, ViewFollowsCache, On
<1> QED
  BY <1>2, <1>3

(* Connections end: the users that stay are as they were.                  *)
LEMMA GoneInv ==
  ASSUME FeedInv, NEW us, Gone(us),
         UNCHANGED <<cache, handler, shown, lockSend, phase, revived>>
  PROVE  FeedInv'
<1>1. \A u \in Users : (conn'[u] = "off" \/ (conn'[u] = conn[u] /\ view'[u] = view[u]))
  BY DEF Gone
<1>2. FeedShape'
  BY DEF Gone, FeedInv, FeedShape, IsView, NoView, NoRecords
<1> QED
  BY SMT, <1>1, <1>2 DEF FeedInv, Deleting, Snapshots, ViewFollowsCache, On

(* After a restart nobody is connected and the handler is idle.            *)
LEMMA RestartedInv == ASSUME FeedInv, Restarted PROVE FeedInv'
<1>1. \A u \in Users : conn'[u] = "off" /\ view'[u] = NoView
  BY DEF Restarted, Gone
<1>2. FeedShape'
  BY DEF Restarted, Gone, FeedInv, FeedShape, IsView, NoView, NoRecords, Idle
<1>3. Deleting'
  BY DEF Restarted, Deleting, Idle
<1>4. Snapshots' /\ ViewFollowsCache'
  BY <1>1 DEF Snapshots, ViewFollowsCache, On
<1> QED
  BY <1>2, <1>3, <1>4 DEF FeedInv

(* Every step of the service and of its surroundings keeps the invariant.  *)
LEMMA NextFeedInv == ASSUME FeedInv, [FeedNext]_feedVars PROVE FeedInv'
<1>1. CASE Startup
  BY <1>1, StartupInv
<1>2. CASE PublishLock \/ GetLocks \/ \E x \in replies : PublishReply(x) \/ PublishError(x)
  BY <1>2, QuietStep DEF PublishLock, GetLocks, PublishReply, PublishError, dbVars, processVars,
     userVars
<1>3. CASE Convert \/ ConvertFails \/ ApplyUpdate \/ ApplyDelete \/ SendDelete
  BY <1>3, HandlerInv
<1>4. CASE ConsumeLocks \/ BroadcastLocks
  BY <1>4, LocksInv
<1>5. CASE \E u \in Users : Connect(u) \/ UserConnected(u)
  BY <1>5, UsersInv
<1>6. CASE \E u \in Users : Hangup(u)
  BY <1>6, GoneInv DEF Hangup, dbVars, processVars
<1>7. CASE DisconnectAllUsers
  BY <1>7, GoneInv DEF DisconnectAllUsers, dbVars
<1>8. CASE Shutdown \/ FeedCrash
  BY <1>8, RestartedInv DEF Shutdown, FeedCrash
<1>9. CASE FeedChange
  BY <1>9, QuietStep DEF FeedChange, Commit, ChangeLock, dbVars, processVars, userVars
<1>10. CASE UNCHANGED feedVars
  BY <1>10, QuietStep DEF feedVars
<1> QED
  BY <1>1, <1>2, <1>3, <1>4, <1>5, <1>6, <1>7, <1>8, <1>9, <1>10
     DEF FeedNext, FeedProgress, FeedFault

(* However the changes, the announcements, the connections and the         *)
(* restarts interleave, a registered GUI shows the cache and the locks of  *)
(* the process, up to the message being sent and up to the rows that       *)
(* startup brought back (ViewFollowsCache).                                *)
THEOREM GuiFollowsCache == FeedSpec => []ViewFollowsCache
<1>1. FeedInit => FeedInv
  BY InitFeedInv
<1>2. FeedInv /\ [FeedNext]_feedVars => FeedInv'
  BY NextFeedInv
<1>3. FeedInv => ViewFollowsCache
  BY DEF FeedInv
<1> QED
  BY <1>1, <1>2, <1>3, PTL DEF FeedSpec
-----------------------------------------------------------------------------
(* The cache and the database.                                             *)

(* An announcement of r is on its way.                                     *)
Pending(r) == \E i \in DOMAIN notes : notes[i].record = r

(* main has read r, as far as it has come.                                 *)
Loaded(r) ==
  \/ r \in FromApi /\ (phase # "api" \/ r \in read)
  \/ r \in Rows /\ (phase \in {"locks", "serving"} \/ (phase = "populating" /\ r \in read))

Note == [record : Records, value : Versions \cup {Absent, Inactive}]

(* What is announced are committed values, and only to a connection that   *)
(* has issued LISTEN.                                                      *)
Announcements ==
  /\ db \in [Records -> Versions \cup {Absent, Inactive}]
  /\ \A r \in Records : db[r] \in Values(r)
  /\ notes \in Seq(Note)
  /\ phase \in {"api", "listening", "populating", "locks", "serving"}
  /\ phase = "api" => notes = <<>>
  /\ phase = "listening" => read = {}
  /\ handler.at \in {"apply", "send"} => handler.record \in Records

(* The last announcement of a record carries what the database holds.      *)
LastIsCurrent ==
  \A i \in DOMAIN notes :
    (\A k \in DOMAIN notes : notes[k].record = notes[i].record => k <= i)
      => notes[i].value = db[notes[i].record]

(* So does the change in the handler's hand, unless an announcement of the *)
(* same record follows it.                                                 *)
InHandIsCurrent ==
  handler.at = "apply" /\ ~Pending(handler.record) => handler.value = Shown(db[handler.record])

(* And the cache, for the records that were read and have no change on     *)
(* their way.                                                              *)
CacheIsCurrent ==
  \A r \in Records \ missed :
    (/\ Loaded(r) /\ ~Pending(r) /\ handler.at # "ended"
     /\ ~(handler.at = "apply" /\ handler.record = r))
      => cache[r] = Shown(db[r])

CacheInv == Announcements /\ LastIsCurrent /\ InHandIsCurrent /\ CacheIsCurrent

(* Before LISTEN nothing is announced and nothing was read.                *)
LEMMA FreshCache ==
  ASSUME db \in [Records -> Versions \cup {Absent, Inactive}],
         \A r \in Records : db[r] \in Values(r),
         notes = <<>>, phase = "api", read = {}, handler = Idle
  PROVE  CacheInv
<1>1. handler.at = "idle" /\ DOMAIN notes = {} /\ notes \in Seq(Note)
  BY SMT DEF Idle
<1>2. Announcements /\ LastIsCurrent /\ InHandIsCurrent
  BY <1>1 DEF Announcements, LastIsCurrent, InHandIsCurrent
<1>3. CacheIsCurrent
  BY DEF CacheIsCurrent, Loaded
<1> QED
  BY <1>2, <1>3 DEF CacheInv

(* A step that touches none of the state the invariant is about.           *)
LEMMA QuietCache ==
  ASSUME CacheInv, UNCHANGED <<db, notes, phase, read, cache, handler, missed>>
  PROVE  CacheInv'
BY DEF CacheInv, Announcements, LastIsCurrent, InHandIsCurrent, CacheIsCurrent, Pending, Loaded

(* The values of a record are values.                                      *)
LEMMA ValuesType == ASSUME NEW r, NEW v \in Values(r) PROVE v \in Versions \cup {Absent, Inactive}
BY DEF Values, Versions

(* A commit while somebody listens is announced after all others; before   *)
(* that it is missed if the record was read already.                       *)
LEMMA CommitCache ==
  ASSUME FeedInv, CacheInv, NEW r \in Records, NEW v \in Values(r), Commit(r, v)
  PROVE  CacheInv'
<1>0. UNCHANGED <<phase, read, cache, handler>> /\ db' = [db EXCEPT ![r] = v]
  BY DEF Commit, processVars
<1> DEFINE V == Versions \cup {Absent, Inactive}
<1>1. v \in V
  BY ValuesType
<1>2. db \in [Records -> V] /\ \A q \in Records : db[q] \in Values(q)
  BY DEF CacheInv, Announcements
<1> HIDE DEF V
<1>3. db' \in [Records -> V] /\ db'[r] = v /\ \A q \in Records : q # r => db'[q] = db[q]
  BY <1>0, <1>1, <1>2
<1>4. \A q \in Records : db'[q] \in Values(q)
  BY <1>2, <1>3
<1>5. CASE Listening
  <2> DEFINE n == [record |-> r, value |-> v]
  <2>1. notes' = Append(notes, n) /\ missed' = missed \ {r}
    BY <1>5 DEF Commit
  <2>2. n \in Note /\ n.record = r /\ n.value = v
    BY <1>1 DEF Note, V
  <2> HIDE DEF n
  <2>3. notes \in Seq(Note)
    BY DEF CacheInv, Announcements
  <2>4. /\ notes' \in Seq(Note)
        /\ DOMAIN notes = 1..Len(notes) /\ Len(notes) \in Nat
        /\ DOMAIN notes' = 1..(Len(notes) + 1)
        /\ notes'[Len(notes) + 1] = n
        /\ \A i \in DOMAIN notes : notes'[i] = notes[i]
    BY SMT, <2>1, <2>2, <2>3
  <2>5. DOMAIN notes' = DOMAIN notes \cup {Len(notes) + 1}
    BY SMT, <2>4
  <2>6. \A q : Pending(q)' <=> Pending(q) \/ q = r
    BY <2>2, <2>4, <2>5 DEF Pending
  <2>7. Announcements'
    BY <1>0, <1>3, <1>4, <1>5, <2>4 DEF CacheInv, Announcements, Listening, V
  <2>8. LastIsCurrent'
    <3> SUFFICES ASSUME NEW i \in DOMAIN notes',
                        \A k \in DOMAIN notes' : notes'[k].record = notes'[i].record => k <= i
                 PROVE  notes'[i].value = db'[notes'[i].record]
      BY DEF LastIsCurrent
    <3>1. CASE i = Len(notes) + 1
      BY <1>3, <2>2, <2>4, <3>1
    <3>2. CASE i \in DOMAIN notes
      <4>1. notes'[i] = notes[i] /\ notes[i] \in Note /\ i < Len(notes) + 1
        BY SMT, <2>3, <2>4, <3>2
      <4>2. notes[i].record # r
        <5>1. Len(notes) + 1 \in DOMAIN notes' /\ notes'[Len(notes) + 1].record = r
          BY <2>2, <2>4, <2>5
        <5>2. ~(Len(notes) + 1 <= i)
          BY SMT, <2>4, <3>2
        <5> QED
          BY <4>1, <5>1, <5>2
      <4>3. \A k \in DOMAIN notes : notes[k].record = notes[i].record => k <= i
        BY <2>4, <2>5, <4>1
      <4>4. notes[i].value = db[notes[i].record]
        BY <3>2, <4>3 DEF CacheInv, LastIsCurrent
      <4> QED
        BY <1>3, <4>1, <4>2, <4>4 DEF Note
    <3> QED
      BY <2>5, <3>1, <3>2
  <2>9. InHandIsCurrent'
    <3> SUFFICES ASSUME handler.at = "apply", ~Pending(handler.record)'
                 PROVE  handler.value = Shown(db'[handler.record])
      BY <1>0 DEF InHandIsCurrent
    <3>1. ~Pending(handler.record) /\ handler.record # r
      BY <1>0, <2>6
    <3> QED
      BY <1>3, <3>1 DEF CacheInv, Announcements, InHandIsCurrent
  <2>10. CacheIsCurrent'
    <3> SUFFICES ASSUME NEW q \in Records \ missed', Loaded(q)', ~Pending(q)', handler.at # "ended",
                        ~(handler.at = "apply" /\ handler.record = q)
                 PROVE  cache[q] = Shown(db'[q])
      BY <1>0 DEF CacheIsCurrent
    <3>1. q # r /\ ~Pending(q) /\ q \in Records \ missed
      BY <2>1, <2>6
    <3>2. Loaded(q)
      BY <1>0 DEF Loaded
    <3> QED
      BY <1>3, <3>1, <3>2 DEF CacheInv, CacheIsCurrent
  <2> QED
    BY <2>7, <2>8, <2>9, <2>10 DEF CacheInv
<1>6. CASE ~Listening
  <2>1. notes' = notes /\ missed' = IF r \in read THEN missed \cup {r} ELSE missed
    BY <1>6 DEF Commit
  <2>2. phase = "api" /\ notes = <<>> /\ handler.at \notin {"apply", "send"}
    BY <1>6 DEF CacheInv, Announcements, Listening, FeedInv, Deleting
  <2>3. Announcements'
    BY <1>0, <1>3, <1>4, <2>1 DEF CacheInv, Announcements, V
  <2>4. LastIsCurrent' /\ InHandIsCurrent'
    BY SMT, <1>0, <2>1, <2>2 DEF LastIsCurrent, InHandIsCurrent
  <2>5. CacheIsCurrent'
    <3> SUFFICES ASSUME NEW q \in Records \ missed', Loaded(q)', ~Pending(q)', handler.at # "ended"
                 PROVE  cache[q] = Shown(db'[q])
      BY <1>0 DEF CacheIsCurrent
    <3>1. Loaded(q) /\ q \in read /\ ~Pending(q)
      BY <1>0, <2>1, <2>2 DEF Loaded, Pending
    <3>2. q # r /\ q \in Records \ missed
      BY <2>1, <3>1
    <3> QED
      BY <1>3, <2>2, <3>1, <3>2 DEF CacheInv, CacheIsCurrent
  <2> QED
    BY <2>3, <2>4, <2>5 DEF CacheInv
<1> QED
  BY <1>5, <1>6

(* What main reads into the cache is what the database holds.              *)
LEMMA LoadCache ==
  ASSUME FeedInv, CacheInv, NEW r \in Records, cache' = [cache EXCEPT ![r] = Shown(db[r])],
         UNCHANGED <<db, notes, handler, missed, phase>>, read' = read \cup {r}, phase # "listening",
         \A q \in Records : Loaded(q)' => Loaded(q) \/ q = r
  PROVE  CacheInv'
<1>1. cache'[r] = Shown(db[r]) /\ \A q \in Records : q # r => cache'[q] = cache[q]
  BY DEF FeedInv, FeedShape
<1>2. Announcements' /\ LastIsCurrent' /\ InHandIsCurrent'
  BY DEF CacheInv, Announcements, LastIsCurrent, InHandIsCurrent, Pending
<1>3. CacheIsCurrent'
  <2> SUFFICES ASSUME NEW q \in Records \ missed, Loaded(q)', ~Pending(q)', handler.at # "ended",
                      ~(handler.at = "apply" /\ handler.record = q)
               PROVE  cache'[q] = Shown(db[q])
    BY DEF CacheIsCurrent
  <2>1. ~Pending(q)
    BY DEF Pending
  <2> QED
    BY <1>1, <2>1 DEF CacheInv, CacheIsCurrent
<1> QED
  BY <1>2, <1>3 DEF CacheInv

(* main goes on to its next phase, in which no more records count as read. *)
LEMMA PhaseCache ==
  ASSUME CacheInv, UNCHANGED <<db, notes, handler, missed, cache>>,
         phase' \in {"listening", "populating", "locks", "serving"},
         phase' = "listening" => read' = {},
         \A q \in Records : Loaded(q)' => Loaded(q)
  PROVE  CacheInv'
<1>1. Announcements' /\ LastIsCurrent' /\ InHandIsCurrent'
  BY DEF CacheInv, Announcements, LastIsCurrent, InHandIsCurrent, Pending
<1>2. CacheIsCurrent'
  <2> SUFFICES ASSUME NEW q \in Records \ missed, Loaded(q)', ~Pending(q)', handler.at # "ended",
                      ~(handler.at = "apply" /\ handler.record = q)
               PROVE  cache[q] = Shown(db[q])
    BY DEF CacheIsCurrent
  <2>1. ~Pending(q)
    BY DEF Pending
  <2> QED
    BY <2>1 DEF CacheInv, CacheIsCurrent
<1> QED
  BY <1>1, <1>2 DEF CacheInv

(* The steps of main up to serving.                                        *)
LEMMA StartupCache == ASSUME FeedInv, CacheInv, Startup PROVE CacheInv'
<1>1. ASSUME NEW r \in FromApi, PopulateFromApi(r) PROVE CacheInv'
  <2>1. /\ phase = "api" /\ cache' = [cache EXCEPT ![r] = Shown(db[r])] /\ read' = read \cup {r}
        /\ UNCHANGED <<db, notes, handler, missed, phase>>
    BY <1>1 DEF PopulateFromApi, dbVars
  <2>2. r \in Records /\ \A q \in Records : Loaded(q)' => Loaded(q) \/ q = r
    BY <2>1 DEF Records, Loaded
  <2> QED
    BY <2>1, <2>2, LoadCache
<1>2. CASE Listen
  <2>1. /\ phase = "api" /\ read = FromApi /\ phase' = "listening" /\ read' = {}
        /\ UNCHANGED <<db, notes, handler, missed, cache>>
    BY <1>2 DEF Listen, dbVars
  <2>2. \A q \in Records : Loaded(q)' => Loaded(q)
    BY <2>1 DEF Loaded
  <2> QED
    BY <2>1, <2>2, PhaseCache
<1>3. CASE PopulateFromDb
  <2>1. /\ phase = "listening" /\ phase' = "populating" /\ read' = read
        /\ UNCHANGED <<db, notes, handler, missed, cache>>
    BY <1>3 DEF PopulateFromDb, dbVars
  <2>2. read = {}
    BY <2>1 DEF CacheInv, Announcements
  <2>3. \A q \in Records : Loaded(q)' => Loaded(q)
    BY <2>1, <2>2 DEF Loaded
  <2> QED
    BY <2>1, <2>3, PhaseCache
<1>4. CASE Populated
  <2>1. /\ phase = "populating" /\ phase' = "locks" /\ read = Rows
        /\ UNCHANGED <<db, notes, handler, missed, cache>>
    BY <1>4 DEF Populated, dbVars
  <2>2. \A q \in Records : Loaded(q)' => Loaded(q)
    BY <2>1 DEF Loaded
  <2> QED
    BY <2>1, <2>2, PhaseCache
<1>5. CASE CreateLocksConsumer
  <2>1. /\ phase = "locks" /\ phase' = "serving"
        /\ UNCHANGED <<db, notes, handler, missed, cache>>
    BY <1>5 DEF CreateLocksConsumer, dbVars
  <2>2. \A q \in Records : Loaded(q)' => Loaded(q)
    BY <2>1 DEF Loaded
  <2> QED
    BY <2>1, <2>2, PhaseCache
<1>6. ASSUME NEW r \in Rows, ReadTable(r) PROVE CacheInv'
  <2>1. /\ phase = "populating" /\ cache' = [cache EXCEPT ![r] = db[r]] /\ read' = read \cup {r}
        /\ UNCHANGED <<db, notes, handler, missed, phase>>
    BY <1>6 DEF ReadTable
  <2>2. r \in Records /\ \A q \in Records : Loaded(q)' => Loaded(q) \/ q = r
    BY <2>1 DEF Records, Loaded
  <2>3. db[r] # Inactive
    BY <2>2, FeedAssumption DEF CacheInv, Announcements, Values, Versions, Absent, Inactive
  <2>4. Shown(db[r]) = db[r]
    BY <2>3 DEF Shown
  <2> QED
    BY <2>1, <2>2, <2>4, LoadCache
<1> QED
  BY <1>1, <1>2, <1>3, <1>4, <1>5, <1>6 DEF Startup

(* The announcement that is taken is the first; the others keep their      *)
(* order.                                                                  *)
LEMMA TailNotes ==
  ASSUME CacheInv, notes # <<>>, notes' = Tail(notes)
  PROVE  /\ notes' \in Seq(Note) /\ Head(notes) = notes[1] /\ 1 \in DOMAIN notes
         /\ notes[1] \in Note
         /\ \A i \in DOMAIN notes' : i + 1 \in DOMAIN notes /\ notes'[i] = notes[i + 1]
         /\ \A k \in DOMAIN notes : k = 1 \/ (k - 1 \in DOMAIN notes' /\ notes[k] = notes'[k - 1])
         /\ DOMAIN notes \subseteq Nat /\ DOMAIN notes' \subseteq Nat
<1>1. notes \in Seq(Note)
  BY DEF CacheInv, Announcements
<1> HIDE DEF Note
<1>2. /\ Len(notes) \in Nat /\ Len(notes) > 0 /\ DOMAIN notes = 1..Len(notes)
      /\ notes' \in Seq(Note) /\ Len(notes') = Len(notes) - 1 /\ DOMAIN notes' = 1..Len(notes')
      /\ \A i \in 1..Len(notes') : notes'[i] = notes[i + 1]
      /\ Head(notes) = notes[1]
  BY SMT, <1>1
<1>3. 1 \in DOMAIN notes /\ notes[1] \in Note
  BY SMT, <1>1, <1>2
<1>4. \A i \in DOMAIN notes' : i + 1 \in DOMAIN notes /\ notes'[i] = notes[i + 1]
  BY SMT, <1>2
<1>5. ASSUME NEW k \in DOMAIN notes, k # 1
      PROVE  k - 1 \in DOMAIN notes' /\ notes[k] = notes'[k - 1]
  <2>1. k \in Nat /\ k - 1 \in 1..Len(notes') /\ (k - 1) + 1 = k
    BY SMT, <1>2, <1>5
  <2> QED
    BY <1>2, <2>1
<1> QED
  BY SMT, <1>2, <1>3, <1>4, <1>5

(* When an announcement has been taken, the last of every record is still  *)
(* the last, and a record has one waiting only if it had one.              *)
LEMMA TakenNotes ==
  ASSUME CacheInv, notes # <<>>, notes' = Tail(notes), db' = db, NEW n, n = Head(notes)
  PROVE  /\ LastIsCurrent'
         /\ \A q : Pending(q) => Pending(q)' \/ q = n.record
         /\ ~Pending(n.record)' => n.value = db[n.record]
<1>1. /\ n = notes[1] /\ 1 \in DOMAIN notes
      /\ \A i \in DOMAIN notes' : i + 1 \in DOMAIN notes /\ notes'[i] = notes[i + 1]
      /\ \A k \in DOMAIN notes : k = 1 \/ (k - 1 \in DOMAIN notes' /\ notes[k] = notes'[k - 1])
      /\ DOMAIN notes \subseteq Nat /\ DOMAIN notes' \subseteq Nat
  BY TailNotes
<1>2. LastIsCurrent'
  <2> SUFFICES ASSUME NEW i \in DOMAIN notes',
                      \A k \in DOMAIN notes' : notes'[k].record = notes'[i].record => k <= i
               PROVE  notes'[i].value = db[notes'[i].record]
    BY DEF LastIsCurrent
  <2>1. i + 1 \in DOMAIN notes /\ notes'[i] = notes[i + 1]
    BY <1>1
  <2>2. ASSUME NEW k \in DOMAIN notes, notes[k].record = notes[i + 1].record PROVE k <= i + 1
    <3>1. CASE k = 1
      BY SMT, <1>1, <3>1
    <3>2. CASE k # 1
      <4>1. k - 1 \in DOMAIN notes' /\ notes'[k - 1].record = notes'[i].record
        BY <1>1, <2>1, <2>2, <3>2
      <4>2. k - 1 <= i
        BY <4>1
      <4>3. k \in Nat /\ i \in Nat
        BY <1>1
      <4> QED
        BY SMT, <4>2, <4>3
    <3> QED
      BY <3>1, <3>2
  <2> QED
    BY <2>1, <2>2 DEF CacheInv, LastIsCurrent
<1>3. ASSUME NEW q, Pending(q) PROVE Pending(q)' \/ q = n.record
  <2>1. PICK k \in DOMAIN notes : notes[k].record = q
    BY <1>3 DEF Pending
  <2> QED
    BY <1>1, <2>1 DEF Pending
<1>4. ASSUME ~Pending(n.record)' PROVE n.value = db[n.record]
  <2>1. ASSUME NEW k \in DOMAIN notes, notes[k].record = notes[1].record PROVE k = 1
    <3>1. \A i \in DOMAIN notes' : notes'[i].record # n.record
      BY <1>4 DEF Pending
    <3>2. n.record = notes[1].record
      BY <1>1
    <3> QED
      BY <1>1, <2>1, <3>1, <3>2
  <2>2. \A k \in DOMAIN notes : notes[k].record = notes[1].record => k <= 1
    BY SMT, <2>1
  <2> QED
    BY <1>1, <2>2 DEF CacheInv, LastIsCurrent
<1> QED
  BY <1>2, <1>3, <1>4

(* An announcement that is the last of its record becomes what a GUI is to *)
(* be shown of it: the announced row, or the one that is fetched now.      *)
LEMMA ChangeIsCurrent ==
  ASSUME NEW n, n.value = db[n.record] PROVE Change(n) = Shown(db[n.record])
BY DEF Change, Shown, Absent, Inactive

(* The handler leaves the cache of a record behind the database only while *)
(* another announcement of the record follows.                             *)
LEMMA HandlerCache ==
  ASSUME FeedInv, CacheInv, Convert \/ ConvertFails \/ ApplyUpdate \/ ApplyDelete \/ SendDelete
  PROVE  CacheInv'
<1>0. UNCHANGED <<db, missed, phase, read>>
  BY DEF Convert, ConvertFails, ApplyUpdate, ApplyDelete, SendDelete, dbVars
<1>1. CASE Convert \/ ConvertFails
  <2> PICK n : n = Head(notes)
    OBVIOUS
  <2>1. notes # <<>> /\ notes' = Tail(notes) /\ handler.at = "idle" /\ cache' = cache /\ phase # "api"
    BY <1>1 DEF Convert, ConvertFails, Receiving, Listening
  <2>2. notes' \in Seq(Note) /\ n \in Note
    BY <2>1, TailNotes
  <2>3. /\ LastIsCurrent'
        /\ \A q : Pending(q) => Pending(q)' \/ q = n.record
        /\ ~Pending(n.record)' => n.value = db[n.record]
    BY <1>0, <2>1, TakenNotes
  <2>4. n.record \in Records
    BY <2>2 DEF Note
  <2>5. CASE Convert
    <3>1. handler' = [at |-> "apply", record |-> n.record, value |-> Change(n)]
      BY <2>5 DEF Convert
    <3>2. handler'.at = "apply" /\ handler'.record = n.record /\ handler'.value = Change(n)
      BY <3>1
    <3>3. Announcements'
      BY <1>0, <2>1, <2>2, <2>4, <3>2 DEF CacheInv, Announcements
    <3>4. InHandIsCurrent'
      BY <1>0, <2>3, <3>2, ChangeIsCurrent DEF InHandIsCurrent
    <3>5. CacheIsCurrent'
      <4> SUFFICES ASSUME NEW q \in Records \ missed, Loaded(q)', ~Pending(q)', n.record # q
                   PROVE  cache[q] = Shown(db[q])
        BY <1>0, <2>1, <3>2 DEF CacheIsCurrent
      <4>1. Loaded(q) /\ ~Pending(q)
        BY <1>0, <2>3 DEF Loaded
      <4> QED
        BY <2>1, <4>1 DEF CacheInv, CacheIsCurrent
    <3> QED
      BY <2>3, <3>3, <3>4, <3>5 DEF CacheInv
  <2>6. CASE ConvertFails
    <3>1. handler'.at = "ended"
      BY <2>6 DEF ConvertFails, Ended
    <3>2. Announcements'
      BY <1>0, <2>1, <2>2, <3>1 DEF CacheInv, Announcements
    <3> QED
      BY <2>3, <3>1, <3>2 DEF CacheInv, InHandIsCurrent, CacheIsCurrent
  <2> QED
    BY <1>1, <2>5, <2>6
<1>2. CASE ApplyUpdate \/ ApplyDelete
  <2> DEFINE r == handler.record
  <2>1. handler.at = "apply" /\ notes' = notes /\ cache' = [cache EXCEPT ![r] = handler.value]
    BY <1>2 DEF ApplyUpdate, ApplyDelete
  <2>2. handler'.at = "idle" \/ (handler'.at = "send" /\ handler'.record = r)
    <3>1. CASE ApplyUpdate
      BY <3>1 DEF ApplyUpdate, Idle
    <3>2. CASE ApplyDelete
      <4>1. handler' = Idle \/ handler' = [handler EXCEPT !.at = "send"]
        BY <3>2 DEF ApplyDelete
      <4> QED
        BY SMT, <2>1, <4>1 DEF Idle, FeedInv, FeedShape
    <3> QED
      BY <1>2, <3>1, <3>2
  <2>3. r \in Records
    BY <2>1 DEF CacheInv, Announcements
  <2>4. cache'[r] = handler.value /\ \A q \in Records : q # r => cache'[q] = cache[q]
    BY <2>1, <2>3 DEF FeedInv, FeedShape
  <2>5. Announcements' /\ LastIsCurrent' /\ InHandIsCurrent'
    BY <1>0, <2>1, <2>2, <2>3 DEF CacheInv, Announcements, LastIsCurrent, InHandIsCurrent
  <2>6. CacheIsCurrent'
    <3> SUFFICES ASSUME NEW q \in Records \ missed, Loaded(q)', ~Pending(q)'
                 PROVE  cache'[q] = Shown(db[q])
      BY <1>0 DEF CacheIsCurrent
    <3>1. Loaded(q) /\ ~Pending(q)
      BY <1>0, <2>1 DEF Loaded, Pending
    <3>2. CASE q = r
      BY <2>1, <2>4, <3>1, <3>2 DEF CacheInv, InHandIsCurrent
    <3>3. CASE q # r
      BY <2>1, <2>4, <3>1, <3>3 DEF CacheInv, CacheIsCurrent
    <3> QED
      BY <3>2, <3>3
  <2> QED
    BY <2>5, <2>6 DEF CacheInv
<1>3. CASE SendDelete
  <2>1. handler.at = "send" /\ handler'.at = "idle" /\ UNCHANGED <<notes, cache>>
    BY <1>3 DEF SendDelete, Idle, dbVars
  <2>2. Announcements' /\ LastIsCurrent' /\ InHandIsCurrent'
    BY <1>0, <2>1 DEF CacheInv, Announcements, LastIsCurrent, InHandIsCurrent
  <2>3. CacheIsCurrent'
    BY <1>0, <2>1 DEF CacheInv, CacheIsCurrent, Loaded, Pending
  <2> QED
    BY <2>2, <2>3 DEF CacheInv
<1> QED
  BY <1>1, <1>2, <1>3

(* Every step of the service and of its surroundings keeps the invariant.  *)
LEMMA NextCacheInv == ASSUME FeedInv, CacheInv, [FeedNext]_feedVars PROVE CacheInv'
<1>1. CASE Startup
  BY <1>1, StartupCache
<1>2. CASE PublishLock \/ GetLocks \/ \E x \in replies : PublishReply(x) \/ PublishError(x)
  BY <1>2, QuietCache DEF PublishLock, GetLocks, PublishReply, PublishError, dbVars, processVars
<1>3. CASE Convert \/ ConvertFails \/ ApplyUpdate \/ ApplyDelete \/ SendDelete
  BY <1>3, HandlerCache
<1>4. CASE ConsumeLocks \/ BroadcastLocks \/ DisconnectAllUsers
  BY <1>4, QuietCache DEF ConsumeLocks, BroadcastLocks, DisconnectAllUsers, dbVars
<1>5. CASE \E u \in Users : Connect(u) \/ UserConnected(u) \/ Hangup(u)
  BY <1>5, QuietCache DEF Connect, UserConnected, Hangup, dbVars, processVars
<1>6. CASE Shutdown \/ FeedCrash
  <2>1. Restarted
    BY <1>6 DEF Shutdown, FeedCrash
  <2>2. notes' = <<>> /\ phase' = "api" /\ read' = {} /\ handler' = Idle /\ db' = db
    BY <2>1 DEF Restarted
  <2>3. handler'.at = "idle"
    BY <2>2 DEF Idle
  <2>4. notes' \in Seq(Note) /\ DOMAIN notes' = {}
    BY SMT, <2>2
  <2>5. Announcements' /\ LastIsCurrent' /\ InHandIsCurrent'
    BY <2>2, <2>3, <2>4 DEF CacheInv, Announcements, LastIsCurrent, InHandIsCurrent
  <2>6. CacheIsCurrent'
    BY <2>2 DEF CacheIsCurrent, Loaded
  <2> QED
    BY <2>5, <2>6 DEF CacheInv
<1>7. ASSUME NEW r \in Records, NEW v \in Values(r), Commit(r, v) PROVE CacheInv'
  BY <1>7, CommitCache
<1>8. CASE \E l \in Locks : ChangeLock(l)
  BY <1>8, QuietCache DEF ChangeLock, dbVars, processVars
<1>9. CASE UNCHANGED feedVars
  BY <1>9, QuietCache DEF feedVars
<1> QED
  BY <1>1, <1>2, <1>3, <1>4, <1>5, <1>6, <1>7, <1>8, <1>9
     DEF FeedNext, FeedProgress, FeedFault, FeedChange

(* However the commits and their announcements race with populate_from_api,*)
(* LISTEN and populate_from_db, with the fetches of the handler and with   *)
(* restarts: once the announcements of a record are handled, the cache     *)
(* holds what the database holds, unless the record changed between the    *)
(* API's answer and LISTEN (CacheSettles).                                 *)
THEOREM CacheCatchesUp == FeedSpec => []CacheSettles
<1>1. FeedInit => FeedInv /\ CacheInv
  <2> SUFFICES ASSUME FeedInit PROVE CacheInv
    BY InitFeedInv
  <2>1. /\ db \in [Records -> Versions \cup {Absent, Inactive}]
        /\ \A r \in Records : db[r] \in Values(r)
    BY DEF FeedInit
  <2> QED
    BY <2>1, FreshCache DEF FeedInit
<1>2. FeedInv /\ CacheInv /\ [FeedNext]_feedVars => FeedInv' /\ CacheInv'
  BY NextFeedInv, NextCacheInv
<1>3. CacheInv => CacheSettles
  BY DEF CacheInv, CacheIsCurrent, CacheSettles, Pending, Loaded, Records
<1> QED
  BY <1>1, <1>2, <1>3, PTL DEF FeedSpec

-----------------------------------------------------------------------------
(* lock_state and the locks of the job scheduler.                          *)

LockChange == [kind : {"add", "remove"}, lock : Locks]
Message == LockChange \cup [kind : {"locks"}, locks : SUBSET Locks] \cup [kind : {"error"}]

(* Whether a message says anything of lock l, and whether it says that l   *)
(* is held.                                                                *)
About(m, l) == m.kind = "locks" \/ (m.kind \in {"add", "remove"} /\ m.lock = l)
Says(m, l) == IF m.kind = "locks" THEN l \in m.locks ELSE m.kind = "add"

(* The last message about l says whether the job scheduler holds it; when  *)
(* none is queued, lock_state says it.                                     *)
QueueAgrees(l) ==
  /\ \A i \in DOMAIN lockQueue :
       (About(lockQueue[i], l) /\ \A k \in DOMAIN lockQueue : About(lockQueue[k], l) => k <= i)
         => (Says(lockQueue[i], l) <=> lock[l] = "held")
  /\ (\A i \in DOMAIN lockQueue : ~About(lockQueue[i], l)) => (l \in shown <=> lock[l] = "held")

LockTypes ==
  /\ lock \in [Locks -> {"new", "held", "released"}]
  /\ lockQueue \in Seq(Message) /\ asked \in Nat
  /\ put = <<>> \/ \E m \in LockChange : put = <<m>> /\ (m.kind = "add" <=> lock[m.lock] = "held")
  /\ \A x \in replies : x.locks \subseteq Locks

(* The queue and lock_state stand for the locks from the publication of    *)
(* the reply to get_locks on.                                              *)
Subscribed ==
  /\ phase = "serving" /\ closing = "no" /\ asked = 0 /\ replies = {}
  /\ \A i \in DOMAIN lockQueue : lockQueue[i].kind # "error"

LocksAgree ==
  Subscribed => \A l \in Locks \ overtaken : (\E i \in DOMAIN put : put[i].lock = l) \/ QueueAgrees(l)

LockStateInv == LockTypes /\ LocksAgree

(* A step that touches none of the state the invariant is about.           *)
LEMMA QuietLocks ==
  ASSUME LockStateInv,
         UNCHANGED <<lock, put, lockQueue, asked, replies, overtaken, phase, closing, shown>>
  PROVE  LockStateInv'
BY DEF LockStateInv, LockTypes, LocksAgree, Subscribed, QueueAgrees

(* A message that is published goes behind all others.                     *)
LEMMA AppendAgrees ==
  ASSUME lockQueue \in Seq(Message), NEW m \in Message, lockQueue' = Append(lockQueue, m), NEW l,
         lock'[l] = lock[l], shown' = shown,
         About(m, l) => (Says(m, l) <=> lock[l] = "held"),
         ~About(m, l) => QueueAgrees(l)
  PROVE  QueueAgrees(l)'
<1> DEFINE n == Len(lockQueue) + 1
<1>1. /\ DOMAIN lockQueue = 1..Len(lockQueue) /\ Len(lockQueue) \in Nat
      /\ DOMAIN lockQueue' = 1..n /\ lockQueue'[n] = m
      /\ \A i \in DOMAIN lockQueue : lockQueue'[i] = lockQueue[i]
  BY SMT
<1>2. DOMAIN lockQueue' = DOMAIN lockQueue \cup {n} /\ \A i \in DOMAIN lockQueue : ~(n <= i)
  BY SMT, <1>1
<1> HIDE DEF n
<1>3. ASSUME NEW i \in DOMAIN lockQueue', About(lockQueue'[i], l),
             \A k \in DOMAIN lockQueue' : About(lockQueue'[k], l) => k <= i
      PROVE  Says(lockQueue'[i], l) <=> lock'[l] = "held"
  <2>1. CASE i = n
    BY <1>1, <1>3, <2>1
  <2>2. CASE i \in DOMAIN lockQueue
    <3>1. ~About(m, l)
      BY <1>1, <1>2, <1>3, <2>2
    <3>2. \A k \in DOMAIN lockQueue : About(lockQueue[k], l) => k <= i
      BY <1>1, <1>2, <1>3
    <3> QED
      BY <1>1, <1>3, <2>2, <3>1, <3>2 DEF QueueAgrees
  <2> QED
    BY <1>2, <2>1, <2>2
<1>4. ASSUME \A i \in DOMAIN lockQueue' : ~About(lockQueue'[i], l)
      PROVE  l \in shown' <=> lock'[l] = "held"
  <2>1. ~About(m, l) /\ \A i \in DOMAIN lockQueue : ~About(lockQueue[i], l)
    BY <1>1, <1>2, <1>4
  <2> QED
    BY <2>1 DEF QueueAgrees
<1> QED
  BY <1>3, <1>4 DEF QueueAgrees

(* A message that is consumed is the first, and lock_state now says of its *)
(* lock what it said.                                                      *)
LEMMA TailAgrees ==
  ASSUME lockQueue \in Seq(Message), lockQueue # <<>>, lockQueue' = Tail(lockQueue),
         NEW m, m = Head(lockQueue), NEW l, lock' = lock, QueueAgrees(l),
         About(m, l) => (l \in shown' <=> Says(m, l)),
         ~About(m, l) => (l \in shown' <=> l \in shown)
  PROVE  QueueAgrees(l)'
<1>1. /\ Len(lockQueue) \in Nat /\ Len(lockQueue) > 0 /\ DOMAIN lockQueue = 1..Len(lockQueue)
      /\ Len(lockQueue') = Len(lockQueue) - 1 /\ DOMAIN lockQueue' = 1..Len(lockQueue')
      /\ \A i \in 1..Len(lockQueue') : lockQueue'[i] = lockQueue[i + 1]
      /\ m = lockQueue[1]
  BY SMT
<1>2. 1 \in DOMAIN lockQueue /\ DOMAIN lockQueue \subseteq Nat /\ DOMAIN lockQueue' \subseteq Nat
  BY SMT, <1>1
<1>3. \A i \in DOMAIN lockQueue' : i + 1 \in DOMAIN lockQueue /\ lockQueue'[i] = lockQueue[i + 1]
  BY SMT, <1>1
<1>4. ASSUME NEW k \in DOMAIN lockQueue, k # 1
      PROVE  k - 1 \in DOMAIN lockQueue' /\ lockQueue[k] = lockQueue'[k - 1]
  <2>1. k \in Nat /\ k - 1 \in 1..Len(lockQueue') /\ (k - 1) + 1 = k
    BY SMT, <1>1, <1>4
  <2> QED
    BY <1>1, <2>1
<1>5. ASSUME NEW i \in DOMAIN lockQueue', About(lockQueue'[i], l),
             \A k \in DOMAIN lockQueue' : About(lockQueue'[k], l) => k <= i
      PROVE  Says(lockQueue'[i], l) <=> lock'[l] = "held"
  <2>1. i + 1 \in DOMAIN lockQueue /\ lockQueue'[i] = lockQueue[i + 1]
    BY <1>3
  <2>2. ASSUME NEW k \in DOMAIN lockQueue, About(lockQueue[k], l) PROVE k <= i + 1
    <3>1. CASE k = 1
      BY SMT, <1>2, <3>1
    <3>2. CASE k # 1
      <4>1. k - 1 <= i
        BY <1>4, <1>5, <2>2, <3>2
      <4>2. k \in Nat /\ i \in Nat
        BY <1>2
      <4> QED
        BY SMT, <4>1, <4>2
    <3> QED
      BY <3>1, <3>2
  <2> QED
    BY <1>5, <2>1, <2>2 DEF QueueAgrees
<1>6. ASSUME \A i \in DOMAIN lockQueue' : ~About(lockQueue'[i], l)
      PROVE  l \in shown' <=> lock'[l] = "held"
  <2>1. \A k \in DOMAIN lockQueue : About(lockQueue[k], l) => k = 1
    BY <1>4, <1>6
  <2>2. \A k \in DOMAIN lockQueue : About(lockQueue[k], l) => k <= 1
    BY SMT, <2>1
  <2>3. CASE About(m, l)
    BY <1>1, <1>2, <2>2, <2>3 DEF QueueAgrees
  <2>4. CASE ~About(m, l)
    <3>1. \A i \in DOMAIN lockQueue : ~About(lockQueue[i], l)
      BY <1>1, <2>1, <2>4
    <3> QED
      BY <2>4, <3>1 DEF QueueAgrees
  <2> QED
    BY <2>3, <2>4
<1> QED
  BY <1>5, <1>6 DEF QueueAgrees

(* The job scheduler takes or releases a lock, and has yet to publish it.  *)
LEMMA ChangeAgrees ==
  ASSUME LockStateInv, NEW l \in Locks, ChangeLock(l)
  PROVE  LockStateInv'
<1> PICK kind : kind = IF lock[l] = "new" THEN "add" ELSE "remove"
  OBVIOUS
<1>1. /\ put = <<>> /\ lock[l] # "released"
      /\ lock' = [lock EXCEPT ![l] = IF kind = "add" THEN "held" ELSE "released"]
      /\ put' = <<[kind |-> kind, lock |-> l]>>
      /\ UNCHANGED <<lockQueue, asked, replies, overtaken, phase, closing, shown>>
  BY DEF ChangeLock, processVars
<1>2. lock \in [Locks -> {"new", "held", "released"}]
  BY DEF LockStateInv, LockTypes
<1>3. /\ lock' \in [Locks -> {"new", "held", "released"}]
      /\ lock'[l] = (IF kind = "add" THEN "held" ELSE "released")
      /\ \A k \in Locks : k # l => lock'[k] = lock[k]
  BY <1>1, <1>2
<1> DEFINE m == [kind |-> kind, lock |-> l]
<1>4. m \in LockChange /\ m.lock = l /\ m.kind = kind
  BY DEF LockChange
<1>5. put' = <<m>> /\ 1 \in DOMAIN put' /\ put'[1] = m
  BY SMT, <1>1
<1> HIDE DEF m
<1>6. m.kind = "add" <=> lock'[m.lock] = "held"
  BY <1>3, <1>4
<1>7. LockTypes'
  BY <1>1, <1>3, <1>4, <1>5, <1>6 DEF LockStateInv, LockTypes
<1>8. LocksAgree'
  <2> SUFFICES ASSUME Subscribed', NEW k \in Locks \ overtaken'
               PROVE  (\E i \in DOMAIN put' : put'[i].lock = k) \/ QueueAgrees(k)'
    BY DEF LocksAgree
  <2>1. CASE k = l
    BY <1>4, <1>5, <2>1
  <2>2. CASE k # l
    <3>1. Subscribed /\ k \in Locks \ overtaken /\ ~\E i \in DOMAIN put : put[i].lock = k
      BY SMT, <1>1 DEF Subscribed
    <3>2. QueueAgrees(k)
      BY <3>1 DEF LockStateInv, LocksAgree
    <3>3. lock'[k] = lock[k]
      BY <1>3, <2>2
    <3> QED
      BY <1>1, <3>2, <3>3 DEF QueueAgrees
  <2> QED
    BY <2>1, <2>2
<1> QED
  BY <1>7, <1>8 DEF LockStateInv

(* A change goes behind the messages about the same lock, and the queue    *)
(* then says what the job scheduler holds.                                 *)
LEMMA PublishAgrees == ASSUME LockStateInv, PublishLock PROVE LockStateInv'
<1>1. /\ put # <<>> /\ lockQueue' = lockQueue \o put /\ put' = <<>>
      /\ UNCHANGED <<lock, asked, replies, overtaken, phase, closing, shown>>
  BY DEF PublishLock, processVars
<1>2. PICK m \in LockChange : put = <<m>> /\ (m.kind = "add" <=> lock[m.lock] = "held")
  BY <1>1 DEF LockStateInv, LockTypes
<1>3. lockQueue \in Seq(Message) /\ m \in Message
  BY <1>2 DEF LockStateInv, LockTypes, Message
<1>4. lockQueue' = Append(lockQueue, m)
  BY SMT, <1>1, <1>2, <1>3
<1>5. /\ lockQueue' \in Seq(Message)
      /\ \A i \in DOMAIN lockQueue : i \in DOMAIN lockQueue' /\ lockQueue'[i] = lockQueue[i]
  BY SMT, <1>3, <1>4
<1>6. LockTypes'
  BY <1>1, <1>5 DEF LockStateInv, LockTypes
<1>7. LocksAgree'
  <2> SUFFICES ASSUME Subscribed', NEW l \in Locks \ overtaken'
               PROVE  QueueAgrees(l)'
    BY DEF LocksAgree
  <2>1. Subscribed
    BY <1>1, <1>5 DEF Subscribed
  <2>2. m.kind \in {"add", "remove"}
    BY DEF LockChange
  <2>3. CASE m.lock = l
    <3>1. About(m, l) /\ (Says(m, l) <=> lock[l] = "held")
      BY <1>2, <2>2, <2>3 DEF About, Says
    <3> QED
      BY <1>1, <1>3, <1>4, <3>1, AppendAgrees
  <2>4. CASE m.lock # l
    <3>1. ~About(m, l) /\ ~\E i \in DOMAIN put : put[i].lock = l
      BY SMT, <1>2, <2>2, <2>4 DEF About
    <3>2. QueueAgrees(l)
      BY <1>1, <2>1, <3>1 DEF LockStateInv, LocksAgree
    <3> QED
      BY <1>1, <1>3, <1>4, <3>1, <3>2, AppendAgrees
  <2> QED
    BY <2>3, <2>4
<1> QED
  BY <1>6, <1>7 DEF LockStateInv

(* A reply decides about all locks: the ones it is wrong about have their  *)
(* change still to be published, or were overtaken.                        *)
LEMMA ReplyAgrees ==
  ASSUME LockStateInv, NEW x \in replies, PublishReply(x) \/ PublishError(x)
  PROVE  LockStateInv'
<1>1. PICK m \in Message : lockQueue' = Append(lockQueue, m)
  <2>1. CASE PublishReply(x)
    <3>1. [kind |-> "locks", locks |-> x.locks] \in Message
      BY DEF LockStateInv, LockTypes, Message
    <3> QED
      BY <2>1, <3>1 DEF PublishReply
  <2>2. CASE PublishError(x)
    BY <2>2 DEF PublishError, Message
  <2> QED
    BY <2>1, <2>2
<1>2. /\ replies' = replies \ {x}
      /\ UNCHANGED <<lock, put, asked, phase, closing, shown>>
  BY DEF PublishReply, PublishError, processVars
<1>3. lockQueue \in Seq(Message)
  BY DEF LockStateInv, LockTypes
<1>4. lockQueue' \in Seq(Message)
  BY SMT, <1>1, <1>3
<1>5. LockTypes'
  BY <1>2, <1>4 DEF LockStateInv, LockTypes
<1>6. CASE PublishReply(x)
  <2> PICK r : r = [kind |-> "locks", locks |-> x.locks]
    OBVIOUS
  <2>1. r \in Message /\ r.kind = "locks" /\ r.locks = x.locks
    BY DEF LockStateInv, LockTypes, Message
  <2>2. lockQueue' = Append(lockQueue, r)
    BY <1>6 DEF PublishReply
  <2>3. overtaken' = {l \in Locks : /\ (l \in x.locks) # (l \in Held)
                                    /\ \A i \in DOMAIN put : put[i].lock # l}
    BY <1>6 DEF PublishReply
  <2>4. ASSUME NEW l \in Locks \ overtaken', ~\E i \in DOMAIN put' : put'[i].lock = l
        PROVE  QueueAgrees(l)'
    <3>1. ~((l \in x.locks) # (l \in Held))
      BY <1>2, <2>3, <2>4
    <3>2. l \in x.locks <=> l \in Held
      BY <3>1
    <3>3. l \in Held <=> lock[l] = "held"
      BY DEF Held
    <3>4. About(r, l) /\ (Says(r, l) <=> lock[l] = "held")
      BY <2>1, <3>2, <3>3 DEF About, Says
    <3> QED
      BY <1>2, <1>3, <2>1, <2>2, <3>4, AppendAgrees
  <2>5. LocksAgree'
    BY <2>4 DEF LocksAgree
  <2> QED
    BY <1>5, <2>5 DEF LockStateInv
<1>7. CASE PublishError(x)
  <2>1. lockQueue' = Append(lockQueue, [kind |-> "error"])
    BY <1>7 DEF PublishError
  <2>2. Len(lockQueue) + 1 \in DOMAIN lockQueue' /\ lockQueue'[Len(lockQueue) + 1].kind = "error"
    BY SMT, <1>3, <2>1
  <2>3. ~Subscribed'
    BY <2>2 DEF Subscribed
  <2> QED
    BY <1>5, <2>3 DEF LockStateInv, LocksAgree
<1> QED
  BY <1>6, <1>7

(* The consumer applies the first message, or stops for good.              *)
LEMMA ConsumeAgrees == ASSUME LockStateInv, ConsumeLocks PROVE LockStateInv'
<1> PICK m : m = Head(lockQueue)
  OBVIOUS
<1>1. /\ lockQueue # <<>> /\ lockQueue' = Tail(lockQueue) /\ phase = "serving" /\ closing = "no"
      /\ UNCHANGED <<lock, put, asked, replies, overtaken, phase>>
  BY DEF ConsumeLocks
<1>2. \/ m.kind = "locks" /\ shown' = m.locks /\ closing' = closing
      \/ m.kind \in {"add", "remove"} /\ shown' = LockChanges(m) /\ closing' = closing
      \/ m.kind = "error" /\ closing' = "triggered"
  BY DEF ConsumeLocks, ReplaceLocks
<1>3. lockQueue \in Seq(Message)
  BY DEF LockStateInv, LockTypes
<1>4. /\ lockQueue' \in Seq(Message) /\ m = lockQueue[1]
      /\ \A k \in DOMAIN lockQueue : k = 1 \/ (k - 1 \in DOMAIN lockQueue' /\ lockQueue[k] = lockQueue'[k - 1])
  <2>1. /\ Len(lockQueue) \in Nat /\ Len(lockQueue) > 0 /\ DOMAIN lockQueue = 1..Len(lockQueue)
        /\ Len(lockQueue') = Len(lockQueue) - 1 /\ DOMAIN lockQueue' = 1..Len(lockQueue')
        /\ \A i \in 1..Len(lockQueue') : lockQueue'[i] = lockQueue[i + 1]
        /\ m = lockQueue[1] /\ lockQueue' \in Seq(Message)
    BY SMT, <1>1, <1>3
  <2>2. ASSUME NEW k \in DOMAIN lockQueue, k # 1
        PROVE  k - 1 \in DOMAIN lockQueue' /\ lockQueue[k] = lockQueue'[k - 1]
    <3>1. k \in Nat /\ k - 1 \in 1..Len(lockQueue') /\ (k - 1) + 1 = k
      BY SMT, <2>1, <2>2
    <3> QED
      BY <2>1, <3>1
  <2> QED
    BY <2>1, <2>2
<1>5. LockTypes'
  BY <1>1, <1>4 DEF LockStateInv, LockTypes
<1>6. LocksAgree'
  <2> SUFFICES ASSUME Subscribed', NEW l \in Locks \ overtaken', ~\E i \in DOMAIN put : put[i].lock = l
               PROVE  QueueAgrees(l)'
    BY <1>1 DEF LocksAgree
  <2>1. closing' = "no"
    BY DEF Subscribed
  <2>2. m.kind # "error"
    BY <1>2, <2>1
  <2>3. Subscribed
    <3> SUFFICES ASSUME NEW k \in DOMAIN lockQueue PROVE lockQueue[k].kind # "error"
      BY <1>1 DEF Subscribed
    <3> QED
      BY <1>4, <2>2 DEF Subscribed
  <2>4. QueueAgrees(l)
    BY <1>1, <2>3 DEF LockStateInv, LocksAgree
  <2>5. About(m, l) => (l \in shown' <=> Says(m, l))
    BY <1>2, <2>2 DEF About, Says, LockChanges
  <2>6. ~About(m, l) => (l \in shown' <=> l \in shown)
    BY <1>2, <2>2 DEF About, LockChanges
  <2> QED
    BY <1>1, <1>3, <2>4, <2>5, <2>6, TailAgrees
<1> QED
  BY <1>5, <1>6 DEF LockStateInv

(* Every step of the service and of its surroundings keeps the invariant.  *)
LEMMA NextLockInv == ASSUME LockStateInv, [FeedNext]_feedVars PROVE LockStateInv'
<1>1. CASE Startup \/ GetLocks \/ DisconnectAllUsers \/ Shutdown \/ FeedCrash
  <2>1. /\ UNCHANGED <<lock, put, overtaken>> /\ (lockQueue' = lockQueue \/ lockQueue' = <<>>)
        /\ asked' \in {asked, asked + 1} \/ (asked > 0 /\ asked' = asked - 1)
        /\ replies' \in {replies, replies \cup {[of |-> asked, locks |-> Held]}}
    BY <1>1 DEF Startup, PopulateFromApi, Listen, PopulateFromDb, Populated, CreateLocksConsumer,
       ReadTable, GetLocks, DisconnectAllUsers, Shutdown, FeedCrash, Restarted, lockVars
  <2>2. asked' \in Nat
    BY SMT, <2>1 DEF LockStateInv, LockTypes
  <2>3. LockTypes'
    <3>1. [of |-> asked, locks |-> Held].locks \subseteq Locks
      BY DEF Held
    <3>2. \A x \in replies' : x.locks \subseteq Locks
      BY <2>1, <3>1 DEF LockStateInv, LockTypes
    <3>3. lockQueue \in Seq(Message) /\ <<>> \in Seq(Message)
      BY SMT DEF LockStateInv, LockTypes
    <3>4. lockQueue' \in Seq(Message)
      BY <2>1, <3>3
    <3> QED
      BY <2>1, <2>2, <3>2, <3>4 DEF LockStateInv, LockTypes
  <2>4. ~Subscribed'
    <3>1. CASE GetLocks
      BY <3>1 DEF GetLocks, Subscribed
    <3>2. CASE CreateLocksConsumer
      <4>1. asked \in Nat /\ asked' = asked + 1
        BY <3>2 DEF CreateLocksConsumer, LockStateInv, LockTypes
      <4>2. asked' # 0
        BY SMT, <4>1
      <4> QED
        BY <4>2 DEF Subscribed
    <3>3. phase' # "serving" \/ closing' # "no" \/ GetLocks \/ CreateLocksConsumer
      BY <1>1 DEF Startup, PopulateFromApi, Listen, PopulateFromDb, Populated, ReadTable,
         DisconnectAllUsers, Shutdown, FeedCrash, Restarted
    <3> QED
      BY <3>1, <3>2, <3>3 DEF Subscribed
  <2> QED
    BY <2>3, <2>4 DEF LockStateInv, LocksAgree
<1>2. CASE PublishLock
  BY <1>2, PublishAgrees
<1>3. CASE \E x \in replies : PublishReply(x) \/ PublishError(x)
  BY <1>3, ReplyAgrees
<1>4. CASE \/ Convert \/ ApplyUpdate \/ ApplyDelete \/ SendDelete \/ BroadcastLocks
           \/ \E u \in Users : Connect(u) \/ UserConnected(u) \/ Hangup(u)
  BY <1>4, QuietLocks DEF Convert, ApplyUpdate, ApplyDelete, SendDelete, BroadcastLocks, Connect,
     UserConnected, Hangup, lockVars, processVars
<1>5. CASE ConvertFails
  <2>1. closing' = "triggered" /\ UNCHANGED <<lock, put, lockQueue, asked, replies>>
    BY <1>5 DEF ConvertFails, lockVars
  <2> QED
    BY <2>1 DEF LockStateInv, LockTypes, LocksAgree, Subscribed
<1>6. CASE ConsumeLocks
  BY <1>6, ConsumeAgrees
<1>7. CASE \E l \in Locks : ChangeLock(l)
  BY <1>7, ChangeAgrees
<1>8. CASE \E r \in Records : \E v \in Values(r) : Commit(r, v)
  BY <1>8, QuietLocks DEF Commit, lockVars, processVars
<1>9. CASE UNCHANGED feedVars
  BY <1>9, QuietLocks DEF feedVars
<1> QED
  BY <1>1, <1>2, <1>3, <1>4, <1>5, <1>6, <1>7, <1>8, <1>9
     DEF FeedNext, FeedProgress, FeedFault, FeedChange

(* However the publication of lock changes races with get_locks, the purge *)
(* of the queue, the consumer and restarts: once the queue is drained,     *)
(* lock_state holds the job scheduler's locks, except the ones whose       *)
(* change was published before an older reply (LocksSettle).               *)
THEOREM LocksCatchUp == FeedSpec => []LocksSettle
<1>1. FeedInit => LockStateInv
  BY SMT DEF FeedInit, LockStateInv, LockTypes, LocksAgree, Subscribed
<1>2. LockStateInv /\ [FeedNext]_feedVars => LockStateInv'
  BY NextLockInv
<1>3. LockStateInv => LocksSettle
  <2> SUFFICES ASSUME LockStateInv, phase = "serving", closing = "no", lockQueue = <<>>, put = <<>>,
                      asked = 0, replies = {}, NEW l \in Locks \ overtaken
               PROVE  (l \in shown) = (l \in Held)
    BY DEF LocksSettle
  <2>1. QueueAgrees(l)
    BY SMT DEF LockStateInv, LocksAgree, Subscribed
  <2>2. l \in shown <=> l \in Held
    BY SMT, <2>1 DEF QueueAgrees, Held
  <2> QED
    BY SMT, <2>2
<1> QED
  BY <1>1, <1>2, <1>3, PTL DEF FeedSpec

-----------------------------------------------------------------------------
(***************************************************************************)
(* Proofs that a single_runner task has one runner, and that no more       *)
(* transactions are open than the pool has connections, for every number   *)
(* of tasks, workers, connections and fids.                                *)
(*                                                                         *)
(* OneRunner is not inductive: a worker whose copy of the task names it    *)
(* takes fids without claiming the task again, so the copy has to be true  *)
(* as well.  It is, because running_on_id never changes once it is set.    *)
(*                                                                         *)
(* Neither is PoolBounded: main reads the active clients in one step and   *)
(* spawns more in another, so what it read has to bound the clients that   *)
(* are active by then.  It does, because in between clients are only       *)
(* released (Known).                                                       *)
(***************************************************************************)

(* A job is no job or a round of send_work.                                *)
IsJob(j) ==
  \/ j = NoJob
  \/ /\ {"at", "mine", "round", "n", "step", "aborted"} \subseteq DOMAIN j
     /\ j = [k \in DOMAIN j |-> j[k]]
     /\ j.at \in {"round", "claimed", "acting", "count"}

ClaimType ==
  /\ runningOn \in [Tasks -> Workers \cup {NoHost}]
  /\ job = [p \in Workers \X Tasks |-> job[p]]
  /\ \A p \in Workers \X Tasks : IsJob(job[p])

(* The rounds that take the fids of t, or took them, without a claim.      *)
Entitled(w, t) ==
  \/ job[<<w, t>>].at \in {"claimed", "acting", "count"}
  \/ job[<<w, t>>].at = "round" /\ job[<<w, t>>].mine

RunnerInv ==
  /\ ClaimType
  /\ \A t \in SingleRunner, w \in Workers : Entitled(w, t) => runningOn[t] = w

-----------------------------------------------------------------------------
(* A task is claimed by one worker: a step that leaves running_on_id alone *)
(* and gives nobody a new title keeps the invariant.                       *)
LEMMA NoNewTitle ==
  ASSUME RunnerInv, ClaimType', runningOn' = runningOn,
         \A w \in Workers, t \in SingleRunner : Entitled(w, t)' => Entitled(w, t)
  PROVE  RunnerInv'
BY DEF RunnerInv

(* What a step does to one round says all about the titles of the others.  *)
LEMMA OneJobChanges ==
  ASSUME RunnerInv, NEW w \in Workers, NEW t \in Tasks, NEW j, IsJob(j),
         job' = [job EXCEPT ![<<w, t>>] = j],
         runningOn' = runningOn,
         \/ j = NoJob
         \/ j.at \in {"acting", "count", "claimed"} /\ (t \in SingleRunner => Entitled(w, t))
         \/ j.at = "round" /\ (t \in SingleRunner /\ j.mine => Entitled(w, t))
  PROVE  RunnerInv'
<1>1. ClaimType' BY DEF RunnerInv, ClaimType
<1>2. ASSUME NEW v \in Workers, NEW s \in SingleRunner, Entitled(v, s)'
      PROVE  Entitled(v, s)
  <2>1. s \in Tasks BY RunnerAssumption
  <2>2. CASE <<v, s>> = <<w, t>>
    <3>1. job'[<<v, s>>] = j BY <2>1, <2>2 DEF RunnerInv, ClaimType
    <3>2. j # NoJob BY SMT, <1>2, <3>1 DEF Entitled, NoJob
    <3> QED BY <1>2, <2>2, <3>1, <3>2 DEF Entitled
  <2>3. CASE <<v, s>> # <<w, t>>
    <3>1. job'[<<v, s>>] = job[<<v, s>>] BY <2>1, <2>3 DEF RunnerInv, ClaimType
    <3> QED BY <1>2, <3>1 DEF Entitled
  <2> QED BY <2>2, <2>3
<1> QED BY <1>1, <1>2, NoNewTitle

(* Nobody has a task at the start.                                         *)
LEMMA InitRunnerInv == TaskInit => RunnerInv
BY SMT, RunnerAssumption DEF TaskInit, RunnerInv, ClaimType, IsJob, Entitled, NoJob, Pairs

(* The claim itself: a task that nobody runs gives nobody a title.         *)
LEMMA ClaimRunnerInv ==
  ASSUME RunnerInv, NEW w \in Workers, NEW t \in Tasks, Claim(w, t)
  PROVE  RunnerInv'
<1> DEFINE j == [job[<<w, t>>] EXCEPT !.at = "claimed"]
<1>1. t \in SingleRunner /\ IsJob(job[<<w, t>>]) /\ job[<<w, t>>].at = "round"
  BY DEF Claim, Unclaimed, RunnerInv, ClaimType
<1>2. CASE runningOn[t] # NoHost
  <2>1. job' = [job EXCEPT ![<<w, t>>] = NoJob] /\ runningOn' = runningOn
    BY <1>2 DEF Claim
  <2> QED BY <2>1, OneJobChanges DEF IsJob
<1>3. CASE runningOn[t] = NoHost
  <2>1. /\ runningOn' = [runningOn EXCEPT ![t] = w]
        /\ job' = [job EXCEPT ![<<w, t>>] = j]
    BY <1>3 DEF Claim
  <2>2. IsJob(j) BY SMT, <1>1 DEF IsJob, NoJob
  <2>3. ClaimType'
    <3> HIDE DEF j
    <3> QED BY <2>1, <2>2 DEF RunnerInv, ClaimType
  <2>4. ASSUME NEW v \in Workers, NEW s \in SingleRunner, Entitled(v, s)'
        PROVE  runningOn'[s] = v
    <3>1. s \in Tasks BY RunnerAssumption
    <3>2. CASE s = t /\ v = w BY <2>1, <3>1, <3>2 DEF RunnerInv, ClaimType
    <3>3. CASE ~(s = t /\ v = w)
      <4>1. job'[<<v, s>>] = job[<<v, s>>]
        <5> HIDE DEF j
        <5> QED BY <2>1, <3>1, <3>3 DEF RunnerInv, ClaimType
      <4>2. Entitled(v, s) BY <2>4, <4>1 DEF Entitled
      <4>3. runningOn[s] = v BY <4>2 DEF RunnerInv
      <4>4. s # t BY <1>3, <4>3, RunnerAssumption
      <4> QED BY <2>1, <3>1, <4>3, <4>4 DEF RunnerInv, ClaimType
    <3> QED BY <3>2, <3>3
  <2> QED BY <2>3, <2>4 DEF RunnerInv
<1> QED BY <1>2, <1>3

(* The steps of send_work: only the claim gives a title.                   *)
LEMMA SendWorkInv ==
  ASSUME RunnerInv, NEW w \in Workers, NEW t \in Tasks,
         \/ SendWork(w, t) \/ InsertErrorFails(w, t) \/ ActionFails(w, t) \/ CountFails(w, t)
  PROVE  RunnerInv'
<1> DEFINE p == <<w, t>>
<1>1. IsJob(job[p]) BY DEF RunnerInv, ClaimType
<1>2. CASE Claim(w, t) BY <1>2, ClaimRunnerInv
<1>3. CASE DeleteRows(w, t)
  <2> DEFINE n == Min({queue[t], FID_LIMIT})
             j == IF n = 0 THEN NoJob ELSE Job("acting", job[p].mine, job[p].round, n)
  <2>1. job' = [job EXCEPT ![p] = j] /\ runningOn' = runningOn BY <1>3 DEF DeleteRows
  <2>2. IsJob(j) BY DEF IsJob, Job
  <2>3. t \in SingleRunner => Entitled(w, t) BY <1>3 DEF DeleteRows, Unclaimed, Entitled
  <2>4. j = NoJob \/ j.at = "acting" BY DEF Job
  <2> HIDE DEF j
  <2> QED BY <2>1, <2>2, <2>3, <2>4, OneJobChanges
<1>4. CASE ActionAnswers(w, t) \/ InsertErrorFails(w, t) \/ CommitRows(w, t)
  <2>1. PICK j : /\ IsJob(j) /\ j.at \in {"acting", "count"}
                 /\ job' = [job EXCEPT ![p] = j] /\ runningOn' = runningOn
    <3>1. job[p] # NoJob BY SMT, <1>4 DEF ActionAnswers, InsertErrorFails, CommitRows, NoJob
    <3>2. CASE ActionAnswers(w, t)
      BY <1>1, <3>1, <3>2 DEF ActionAnswers, IsJob, storeVars
    <3>3. CASE InsertErrorFails(w, t)
      BY <1>1, <3>1, <3>3 DEF InsertErrorFails, IsJob, storeVars
    <3>4. CASE CommitRows(w, t)
      BY <1>1, <3>1, <3>4 DEF CommitRows, IsJob
    <3> QED BY <1>4, <3>2, <3>3, <3>4
  <2>2. Entitled(w, t) BY <1>4 DEF ActionAnswers, InsertErrorFails, CommitRows, Entitled
  <2> QED BY <2>1, <2>2, OneJobChanges
<1>5. CASE CountRows(w, t)
  <2> DEFINE j == NextRound(job[p])
  <2>1. job' = [job EXCEPT ![p] = j] /\ runningOn' = runningOn BY <1>5 DEF CountRows
  <2>2. IsJob(j) /\ (j = NoJob \/ j.at = "round") BY DEF NextRound, IsJob, Job
  <2>3. Entitled(w, t) BY <1>5 DEF CountRows, Entitled
  <2> HIDE DEF j
  <2> QED BY <2>1, <2>2, <2>3, OneJobChanges
<1>6. CASE ActionFails(w, t) \/ CountFails(w, t)
  <2>1. job' = [job EXCEPT ![p] = NoJob] /\ runningOn' = runningOn
    BY <1>6 DEF ActionFails, CountFails, storeVars
  <2> QED BY <2>1, OneJobChanges DEF IsJob
<1> QED BY <1>2, <1>3, <1>4, <1>5, <1>6 DEF SendWork

(* A new round keeps what the copy of the task says of its runner.         *)
LEMMA JobMine == ASSUME NEW b PROVE Job("round", b, 1, 0).mine = b
BY DEF Job

(* A new round has not begun to act.                                       *)
LEMMA RoundAt == ASSUME NEW b PROVE Job("round", b, 1, 0).at = "round"
BY DEF Job

(* New rounds: a task is marked as the worker's own only if it is.         *)
LEMMA TasksPerWorkerInv ==
  ASSUME RunnerInv, NEW w \in Workers, TasksPerWorker(w)
  PROVE  RunnerInv'
<1>1. runningOn' = runningOn BY DEF TasksPerWorker, storeVars
<1>2. ASSUME NEW v \in Workers, NEW t \in Tasks
      PROVE  job'[<<v, t>>] \in {job[<<v, t>>], Job("round", runningOn[t] = v, 1, 0)}
  BY DEF TasksPerWorker, Pairs
<1>3. ClaimType'
  <2>1. job' = [p \in Workers \X Tasks |-> job'[p]] BY DEF TasksPerWorker, Pairs
  <2>2. ASSUME NEW p \in Workers \X Tasks PROVE IsJob(job'[p])
    <3>1. PICK v \in Workers, t \in Tasks : p = <<v, t>> BY SMT
    <3>2. IsJob(job[<<v, t>>]) BY DEF RunnerInv, ClaimType
    <3>3. IsJob(Job("round", runningOn[t] = v, 1, 0)) BY DEF IsJob, Job
    <3> QED BY <1>2, <3>1, <3>2, <3>3
  <2> QED BY <1>1, <2>1, <2>2 DEF RunnerInv, ClaimType
<1>4. ASSUME NEW v \in Workers, NEW t \in SingleRunner, Entitled(v, t)'
      PROVE  runningOn'[t] = v
  <2>1. t \in Tasks BY RunnerAssumption
  <2>2. CASE job'[<<v, t>>] = job[<<v, t>>]
    <3>1. Entitled(v, t) BY <1>4, <2>2 DEF Entitled
    <3> QED BY <1>1, <3>1 DEF RunnerInv
  <2>3. CASE job'[<<v, t>>] = Job("round", runningOn[t] = v, 1, 0)
    <3>1. job'[<<v, t>>].at = "round" BY SMT, <2>3 DEF Job
    <3>2. job'[<<v, t>>].mine BY <1>4, <3>1 DEF Entitled
    <3>3. Job("round", runningOn[t] = v, 1, 0).mine BY <2>3, <3>2
    <3>4. runningOn[t] = v BY <3>3, JobMine
    <3> QED BY <1>1, <3>4
  <2> QED BY <1>2, <2>1, <2>2, <2>3
<1> QED BY <1>3, <1>4 DEF RunnerInv

(* A restart ends all rounds, and running_on_id outlives it.               *)
LEMMA RestartInv == ASSUME RunnerInv, Restart PROVE RunnerInv'
<1>1. runningOn' = runningOn /\ job' = [p \in Workers \X Tasks |-> NoJob]
  BY DEF Restart, Pairs
<1>2. ClaimType' BY <1>1 DEF RunnerInv, ClaimType, IsJob
<1>3. ASSUME NEW w \in Workers, NEW t \in SingleRunner PROVE ~Entitled(w, t)'
  BY <1>1, RunnerAssumption DEF Entitled, NoJob
<1> QED BY <1>2, <1>3 DEF RunnerInv

(* Every step of the runner and of its surroundings keeps the invariant.   *)
LEMMA NextRunnerInv == ASSUME RunnerInv, [TaskNext]_taskVars PROVE RunnerInv'
<1>1. ASSUME job' = job, runningOn' = runningOn PROVE RunnerInv'
  BY <1>1 DEF RunnerInv, ClaimType, Entitled
<1>2. ASSUME NEW t \in Tasks, NEW n \in BatchSizes, NEW invalid \in {0, 1},
             InsertLines(t, n, invalid)
      PROVE  RunnerInv'
  BY <1>1, <1>2 DEF InsertLines, runnerVars
<1>3. ASSUME NEW b \in adding, IncreaseTotal(b) \/ ProducerStops(b) PROVE RunnerInv'
  BY <1>1, <1>3 DEF IncreaseTotal, ProducerStops, runnerVars, storeVars
<1>4. CASE MainStep BY <1>1, <1>4 DEF MainStep, Tick, Spawn, storeVars
<1>5. ASSUME NEW w \in Workers, WorkerStep(w) PROVE RunnerInv'
  <2>1. CASE TasksPerWorker(w) BY <2>1, TasksPerWorkerInv
  <2>2. CASE Release(w) BY <1>1, <2>2 DEF Release, storeVars
  <2>3. CASE \E t \in Tasks : SendWork(w, t) BY <2>3, SendWorkInv
  <2> QED BY <1>5, <2>1, <2>2, <2>3 DEF WorkerStep
<1>6. CASE PoolTimesOut \/ RunnerCrash BY <1>6, RestartInv DEF PoolTimesOut, RunnerCrash
<1>7. ASSUME NEW w \in Workers, Unmount(w) PROVE RunnerInv'
  BY <1>1, <1>7 DEF Unmount, storeVars, runnerVars
<1>8. ASSUME NEW w \in Workers, NEW t \in Tasks,
             InsertErrorFails(w, t) \/ ActionFails(w, t) \/ CountFails(w, t)
      PROVE  RunnerInv'
  BY <1>8, SendWorkInv
<1>9. CASE UNCHANGED taskVars BY <1>1, <1>9 DEF taskVars
<1> QED BY <1>2, <1>3, <1>4, <1>5, <1>6, <1>7, <1>8, <1>9 DEF TaskNext, TaskFault

(* The fids of a single_runner task are only ever handed to the host in    *)
(* running_on_id (main.rs:124), for every set of tasks and workers, every  *)
(* pool and every interleaving of claims, transactions and restarts.       *)
THEOREM SingleRunnerHasOne == TaskSpec => []OneRunner
<1>1. RunnerInv => OneRunner BY DEF RunnerInv, OneRunner, Entitled
<1> QED BY <1>1, InitRunnerInv, NextRunnerInv, PTL DEF TaskSpec

-----------------------------------------------------------------------------
(* The pool *)

(* The transactions that hold a connection.                                *)
Acting == {p \in Pairs : job[p].at = "acting"}

(* The clients that main has read are those active, or more: in between    *)
(* clients are only released.                                              *)
Known == ids = {} \/ \E known \in SUBSET Workers : /\ ids = {known} /\ active \subseteq known
                                                   /\ Cardinality(known) < POOL_LIMIT

PoolInv ==
  /\ work \in [Workers -> {"off", "spawned", "running"}] /\ mounted \subseteq Workers
  /\ ClaimType /\ Known /\ PoolBounded

(* Cardinalities of what the pool serves.                                  *)
LEMMA PoolFinite ==
  /\ IsFiniteSet(Pairs) /\ POOL_LIMIT \in Nat
  /\ \A S \in SUBSET Workers : IsFiniteSet(S) /\ Cardinality(S) \in Nat
  /\ \A S \in SUBSET Pairs : IsFiniteSet(S) /\ Cardinality(S) \in Nat
<1>1. IsFiniteSet(Pairs)
  BY RunnerAssumption, FS_Product DEF Pairs
<1>2. \A S \in SUBSET Workers : IsFiniteSet(S)
  BY RunnerAssumption, FS_Subset
<1>3. \A S \in SUBSET Pairs : IsFiniteSet(S)
  BY <1>1, FS_Subset
<1> QED  BY <1>1, <1>2, <1>3, RunnerAssumption, FS_CardinalityType

(* One element more.                                                       *)
LEMMA AddOne ==
  ASSUME NEW S, NEW x, IsFiniteSet(S), Cardinality(S) \in Nat
  PROVE  Cardinality(S \cup {x}) <= Cardinality(S) + 1
<1>1. CASE x \in S
  <2>1. S \cup {x} = S
    BY <1>1
  <2> QED  BY SMT, <2>1
<1>2. CASE x \notin S
  <2>1. Cardinality(S \cup {x}) = Cardinality(S) + 1
    BY <1>2, FS_AddElement
  <2> QED  BY SMT, <2>1
<1> QED  BY <1>1, <1>2

(* A step after which no more transactions hold a connection.              *)
LEMMA NoNewConnection ==
  ASSUME PoolInv, Acting' \subseteq Acting PROVE Connections' <= POOL_LIMIT
<1>1. Connections = Cardinality(Acting) /\ Connections' = Cardinality(Acting') /\ Connections <= POOL_LIMIT
  BY DEF Connections, Acting, PoolInv, PoolBounded
<1>2. Acting \in SUBSET Pairs /\ Acting' \in SUBSET Pairs
  BY DEF Acting
<1>3. Cardinality(Acting') <= Cardinality(Acting)
  BY <1>2, PoolFinite, FS_Subset
<1>4. Cardinality(Acting) \in Nat /\ Cardinality(Acting') \in Nat /\ POOL_LIMIT \in Nat
  BY <1>2, PoolFinite
<1> QED  BY SMT, <1>1, <1>3, <1>4

(* A step that leaves clients and rounds alone.                            *)
LEMMA PoolAlone ==
  ASSUME PoolInv, UNCHANGED <<ids, active, work, job, runningOn>>, mounted' \subseteq mounted
  PROVE  PoolInv'
  BY DEF PoolInv, ClaimType, Known, PoolBounded, Connections

(* What send_work does is done by a client whose spawn is under way.       *)
LEMMA RoundOfRunner ==
  ASSUME PoolInv, NEW w \in Workers, NEW t \in Tasks, NEW j, job[<<w, t>>] # NoJob,
         job' = [job EXCEPT ![<<w, t>>] = j],
         UNCHANGED <<ids, active, work, mounted>>, ClaimType',
         j.at = "acting" => job[<<w, t>>].at = "acting" \/ Connected
  PROVE  PoolInv'
<1>1. /\ <<w, t>> \in Pairs /\ job'[<<w, t>>] = j
      /\ \A p \in Pairs : p # <<w, t>> => job'[p] = job[p]
  BY DEF PoolInv, ClaimType, Pairs
<1>2. \A p \in Pairs : job'[p] # NoJob => work'[p[1]] = "running"
  BY <1>1 DEF PoolInv, PoolBounded
<1>3. Connections' <= POOL_LIMIT
  <2>1. CASE Acting' \subseteq Acting
    BY <2>1, NoNewConnection
  <2>2. CASE Connected
    <3>1. Acting' \subseteq Acting \cup {<<w, t>>}
      BY <1>1 DEF Acting
    <3>2. /\ Acting \in SUBSET Pairs /\ Acting \cup {<<w, t>>} \in SUBSET Pairs /\ Acting' \in SUBSET Pairs
      BY <1>1 DEF Acting
    <3>3. Cardinality(Acting') <= Cardinality(Acting \cup {<<w, t>>})
      BY <3>1, <3>2, PoolFinite, FS_Subset
    <3>4. Cardinality(Acting \cup {<<w, t>>}) <= Cardinality(Acting) + 1
      <4>1. IsFiniteSet(Acting) /\ Cardinality(Acting) \in Nat
        BY <3>2, PoolFinite
      <4> QED  BY <4>1, AddOne
    <3>5. Cardinality(Acting) < POOL_LIMIT /\ Connections' = Cardinality(Acting')
      BY <2>2 DEF Connected, Connections, Acting
    <3>6. /\ Cardinality(Acting) \in Nat /\ Cardinality(Acting') \in Nat /\ POOL_LIMIT \in Nat
          /\ Cardinality(Acting \cup {<<w, t>>}) \in Nat
      BY <3>2, PoolFinite
    <3> QED  BY SMT, <3>3, <3>4, <3>5, <3>6
  <2>3. CASE job[<<w, t>>].at = "acting" \/ j.at # "acting"
    BY <1>1, <2>1, <2>3 DEF Acting
  <2> QED  BY <2>2, <2>3
<1> QED  BY <1>2, <1>3 DEF PoolInv, PoolBounded, Known

(* send_work.                                                              *)
LEMMA SendWorkPool ==
  ASSUME PoolInv, ClaimType', NEW w \in Workers, NEW t \in Tasks,
         \/ SendWork(w, t) \/ InsertErrorFails(w, t) \/ ActionFails(w, t) \/ CountFails(w, t)
  PROVE  PoolInv'
<1> DEFINE p == <<w, t>>
<1>1. UNCHANGED <<ids, active, work, mounted>>
  BY DEF SendWork, Claim, DeleteRows, CommitRows, CountRows, ActionAnswers, InsertErrorFails, ActionFails,
         CountFails
<1>2. job[p].at \in {"round", "claimed", "acting", "count"}
  BY DEF SendWork, Claim, DeleteRows, CommitRows, CountRows, ActionAnswers, InsertErrorFails, ActionFails,
         CountFails
<1>3. job[p] # NoJob /\ IsJob(job[p]) /\ p \in Pairs
  BY SMT, <1>2 DEF NoJob, PoolInv, ClaimType, Pairs
<1>4. PICK j : job' = [job EXCEPT ![p] = j] /\ (j.at = "acting" => job[p].at = "acting" \/ Connected)
  <2>1. CASE Connected
    BY <2>1 DEF SendWork, Claim, DeleteRows, CommitRows, CountRows, ActionAnswers, InsertErrorFails,
                ActionFails, CountFails
  <2>2. CASE ~Connected
    <3>1. \/ CommitRows(w, t) \/ ActionAnswers(w, t) \/ InsertErrorFails(w, t) \/ ActionFails(w, t)
          \/ CountFails(w, t)
      BY <2>2 DEF SendWork, Claim, DeleteRows, CountRows
    <3>2. CASE CommitRows(w, t) \/ ActionAnswers(w, t) \/ InsertErrorFails(w, t)
      BY <3>2 DEF CommitRows, ActionAnswers, InsertErrorFails
    <3>3. CASE ActionFails(w, t) \/ CountFails(w, t)
      BY <3>3 DEF ActionFails, CountFails, NoJob
    <3> QED  BY <3>1, <3>2, <3>3
  <2> QED  BY <2>1, <2>2
<1> HIDE DEF p
<1> QED  BY <1>1, <1>3, <1>4, RoundOfRunner DEF p

(* LIMIT: the clients found are no more than the pool has room for.        *)
LEMMA MinIsLess == ASSUME NEW a \in Nat, NEW b \in Nat PROVE Min({a, b}) <= b
<1>1. \E x \in {a, b} : \A y \in {a, b} : x <= y
  BY SMT
<1> QED  BY <1>1 DEF Min

(* main spawns no more clients than the pool has room for beside those it  *)
(* read as active, and those include all that are.                         *)
LEMMA SpawnPool == ASSUME PoolInv, Spawn PROVE PoolInv'
<1>0. PICK known \in ids : \E ws \in AvailableWorkers(known) :
        /\ active' = active \cup ws
        /\ work' = [w \in Workers |-> IF w \in ws THEN "spawned" ELSE work[w]]
  BY DEF Spawn
<1>1. PICK ws \in AvailableWorkers(known) :
        /\ active' = active \cup ws
        /\ work' = [w \in Workers |-> IF w \in ws THEN "spawned" ELSE work[w]]
  BY <1>0
<1>2. ids' = {} /\ UNCHANGED <<mounted, job, runningOn>>
  BY DEF Spawn, storeVars
<1>3. known \in SUBSET Workers /\ active \subseteq known /\ Cardinality(known) < POOL_LIMIT
  BY DEF PoolInv, Known
<1>4. ws \in SUBSET (mounted \ known) /\ ws \in SUBSET Workers /\ mounted \ known \in SUBSET Workers
  BY <1>1 DEF AvailableWorkers, PoolInv
<1>5. Cardinality(active') <= POOL_LIMIT
  <2>1. Cardinality(ws) = Min({Cardinality(mounted \ known), POOL_LIMIT - Cardinality(known)})
    BY <1>1 DEF AvailableWorkers
  <2>2. /\ Cardinality(known) \in Nat /\ Cardinality(mounted \ known) \in Nat /\ Cardinality(ws) \in Nat
        /\ POOL_LIMIT \in Nat /\ IsFiniteSet(known) /\ IsFiniteSet(ws)
    BY <1>3, <1>4, PoolFinite
  <2>3. POOL_LIMIT - Cardinality(known) \in Nat
    BY SMT, <1>3, <2>2
  <2>4. Cardinality(ws) <= POOL_LIMIT - Cardinality(known)
    BY <2>1, <2>2, <2>3, MinIsLess
  <2>5. active' \in SUBSET (known \cup ws) /\ known \cap ws \in SUBSET Workers /\ active' \in SUBSET Workers
    BY <1>1, <1>3, <1>4
  <2>6. IsFiniteSet(known \cup ws) /\ Cardinality(known \cup ws) =
          Cardinality(known) + Cardinality(ws) - Cardinality(known \cap ws)
    BY <2>2, FS_Union
  <2>7. Cardinality(active') <= Cardinality(known \cup ws)
    BY <2>5, <2>6, FS_Subset
  <2>8. Cardinality(known \cap ws) \in Nat /\ Cardinality(active') \in Nat
    BY <2>5, PoolFinite
  <2> QED  BY SMTT(30), <2>2, <2>4, <2>6, <2>7, <2>8
<1>6. active' = {w \in Workers : work'[w] # "off"} /\ work' \in [Workers -> {"off", "spawned", "running"}]
  BY <1>1, <1>4 DEF PoolInv, PoolBounded
<1>7. \A p \in Pairs : job'[p] # NoJob => work'[p[1]] = "running"
  <2> SUFFICES ASSUME NEW p \in Pairs, job[p] # NoJob PROVE work'[p[1]] = "running"
    BY <1>2
  <2>1. p[1] \in Workers /\ work[p[1]] = "running"
    BY DEF Pairs, PoolInv, PoolBounded
  <2>2. p[1] \in known
    BY <1>3, <2>1 DEF PoolInv, PoolBounded
  <2> QED  BY <1>1, <1>4, <2>1, <2>2
<1>8. Connections' <= POOL_LIMIT
  BY <1>2 DEF PoolInv, PoolBounded, Connections
<1> QED  BY <1>2, <1>5, <1>6, <1>7, <1>8 DEF PoolInv, PoolBounded, Known, ClaimType

(* The rest of the main loop and of a worker.                              *)
LEMMA WorkerPool ==
  ASSUME PoolInv, ClaimType', NEW w \in Workers, TasksPerWorker(w) \/ Release(w) PROVE PoolInv'
<1>1. CASE TasksPerWorker(w)
  <2>1. /\ work[w] = "spawned" /\ work' = [work EXCEPT ![w] = "running"]
        /\ UNCHANGED <<ids, active, mounted>>
        /\ \A p \in Pairs : \/ job'[p] = job[p]
                            \/ p[1] = w /\ job'[p] = Job("round", runningOn[p[2]] = w, 1, 0)
    BY <1>1 DEF TasksPerWorker
  <2>2. Acting' \subseteq Acting
    <3> SUFFICES ASSUME NEW p \in Pairs, job'[p].at = "acting" PROVE job[p].at = "acting"
      BY DEF Acting
    <3>1. job'[p] # Job("round", runningOn[p[2]] = w, 1, 0)
      BY RoundAt
    <3> QED  BY <2>1, <3>1
  <2>3. \A p \in Pairs : job'[p] # NoJob => work'[p[1]] = "running"
    BY <2>1 DEF PoolInv, PoolBounded, Pairs
  <2>4. active' = {v \in Workers : work'[v] # "off"} /\ work' \in [Workers -> {"off", "spawned", "running"}]
    BY <2>1 DEF PoolInv, PoolBounded
  <2>5. Connections' <= POOL_LIMIT
    BY <2>2, NoNewConnection
  <2> QED  BY <2>1, <2>3, <2>4, <2>5 DEF PoolInv, PoolBounded, Known
<1>2. CASE Release(w)
  <2>1. /\ work' = [work EXCEPT ![w] = "off"] /\ active' = active \ {w}
        /\ UNCHANGED <<ids, mounted, job, runningOn>> /\ \A t \in Tasks : job[<<w, t>>] = NoJob
    BY <1>2 DEF Release, storeVars
  <2>2. \A p \in Pairs : job'[p] # NoJob => work'[p[1]] = "running"
    <3> SUFFICES ASSUME NEW p \in Pairs, job[p] # NoJob PROVE work'[p[1]] = "running"
      BY <2>1
    <3>1. PICK v \in Workers, t \in Tasks : p = <<v, t>>
      BY SMT DEF Pairs
    <3> QED  BY <2>1, <3>1 DEF PoolInv, PoolBounded
  <2>3. active' = {v \in Workers : work'[v] # "off"} /\ work' \in [Workers -> {"off", "spawned", "running"}]
    BY <2>1 DEF PoolInv, PoolBounded
  <2>4. Cardinality(active') <= POOL_LIMIT
    <3>1. active \in SUBSET Workers /\ active' \in SUBSET active /\ active' \in SUBSET Workers
      BY <2>1 DEF PoolInv, PoolBounded
    <3>2. Cardinality(active') <= Cardinality(active) /\ Cardinality(active) <= POOL_LIMIT
      BY <3>1, PoolFinite, FS_Subset DEF PoolInv, PoolBounded
    <3>3. Cardinality(active') \in Nat /\ Cardinality(active) \in Nat /\ POOL_LIMIT \in Nat
      BY <3>1, PoolFinite
    <3> QED  BY SMT, <3>2, <3>3
  <2>5. Connections' <= POOL_LIMIT
    BY <2>1 DEF PoolInv, PoolBounded, Connections
  <2>6. Known'
    BY <2>1 DEF PoolInv, Known
  <2> QED  BY <2>1, <2>2, <2>3, <2>4, <2>5, <2>6 DEF PoolInv, PoolBounded
<1> QED  BY <1>1, <1>2

(* main reads the active clients: what it knows is exact.                  *)
LEMMA TickPool == ASSUME PoolInv, Tick PROVE PoolInv'
<1>1. /\ ids' = {active} /\ Cardinality(active) < POOL_LIMIT
      /\ UNCHANGED <<active, work, job, mounted, runningOn>>
  BY DEF Tick, storeVars
<1>2. active \in SUBSET Workers
  BY DEF PoolInv, PoolBounded
<1> QED  BY <1>1, <1>2 DEF PoolInv, ClaimType, Known, PoolBounded, Connections

(* After a restart, and at the start, nobody is served.                    *)
LEMMA NobodyServed ==
  /\ Cardinality({}) <= POOL_LIMIT
  /\ Cardinality({p \in Pairs : NoJob.at = "acting"}) <= POOL_LIMIT
<1>1. {p \in Pairs : NoJob.at = "acting"} = {}
  BY DEF NoJob
<1> QED  BY SMT, <1>1, FS_EmptySet, PoolFinite

(* A restart ends every transaction.                                       *)
LEMMA RestartPool == ASSUME PoolInv, ClaimType', Restart PROVE PoolInv'
<1>1. /\ ids' = {} /\ active' = {} /\ mounted' = mounted
      /\ work' = [w \in Workers |-> "off"] /\ \A p \in Pairs : job'[p] = NoJob
  BY DEF Restart
<1>2. Connections' <= POOL_LIMIT
  <2>1. Acting' \subseteq Acting
    BY SMT, <1>1 DEF Acting, NoJob
  <2> QED  BY <2>1, NoNewConnection
<1>3. active' = {w \in Workers : work'[w] # "off"} /\ work' \in [Workers -> {"off", "spawned", "running"}]
  BY <1>1
<1> QED  BY <1>1, <1>2, <1>3, NobodyServed DEF PoolInv, PoolBounded, Known

(* Nobody is served at the start.                                          *)
LEMMA InitPool == TaskInit => PoolInv
<1> SUFFICES ASSUME TaskInit PROVE PoolInv
  OBVIOUS
<1>1. ClaimType
  BY InitRunnerInv DEF RunnerInv
<1>2. /\ ids = {} /\ active = {} /\ mounted = Workers
      /\ work = [w \in Workers |-> "off"] /\ \A p \in Pairs : job[p] = NoJob
  BY DEF TaskInit
<1>3. Connections <= POOL_LIMIT
  <2>1. {p \in Pairs : job[p].at = "acting"} = {p \in Pairs : NoJob.at = "acting"}
    BY <1>2
  <2> QED  BY <2>1, NobodyServed DEF Connections
<1>4. active = {w \in Workers : work[w] # "off"} /\ work \in [Workers -> {"off", "spawned", "running"}]
  BY <1>2
<1> QED  BY <1>1, <1>2, <1>3, <1>4, NobodyServed DEF PoolInv, PoolBounded, Known

(* No step serves more clients than the pool has room for.                 *)
LEMMA NextPool == ASSUME RunnerInv, PoolInv, [TaskNext]_taskVars PROVE PoolInv'
<1>1. ClaimType'
  BY NextRunnerInv DEF RunnerInv
<1>2. ASSUME NEW t \in Tasks, NEW n \in BatchSizes, NEW invalid \in {0, 1},
             InsertLines(t, n, invalid)
      PROVE  PoolInv'
  BY <1>2, PoolAlone DEF InsertLines, runnerVars
<1>3. ASSUME NEW b \in adding, IncreaseTotal(b) \/ ProducerStops(b) PROVE PoolInv'
  BY <1>3, PoolAlone DEF IncreaseTotal, ProducerStops, runnerVars, storeVars
<1>4. CASE MainStep
  BY <1>4, TickPool, SpawnPool DEF MainStep
<1>5. ASSUME NEW w \in Workers, WorkerStep(w) PROVE PoolInv'
  BY <1>1, <1>5, WorkerPool, SendWorkPool DEF WorkerStep
<1>6. CASE PoolTimesOut \/ RunnerCrash
  BY <1>1, <1>6, RestartPool DEF PoolTimesOut, RunnerCrash
<1>7. ASSUME NEW w \in Workers, Unmount(w) PROVE PoolInv'
  BY <1>7, PoolAlone DEF Unmount, storeVars, runnerVars
<1>8. ASSUME NEW w \in Workers, NEW t \in Tasks,
             InsertErrorFails(w, t) \/ ActionFails(w, t) \/ CountFails(w, t)
      PROVE  PoolInv'
  BY <1>1, <1>8, SendWorkPool
<1>9. CASE UNCHANGED taskVars
  BY <1>9, PoolAlone DEF taskVars
<1> QED  BY <1>2, <1>3, <1>4, <1>5, <1>6, <1>7, <1>8, <1>9 DEF TaskNext, TaskFault

(* At most POOL_LIMIT clients are served at a time, each by one spawn, and *)
(* their transactions take no more connections than the pool has           *)
(* (main.rs:55, 353), although the main loop reads the active clients and  *)
(* spawns more in two steps.                                               *)
THEOREM PoolIsBounded == TaskSpec => []PoolBounded
<1>1. PoolInv => PoolBounded
  BY DEF PoolInv
<1> QED  BY <1>1, InitRunnerInv, NextRunnerInv, InitPool, NextPool, PTL DEF TaskSpec
=============================================================================
