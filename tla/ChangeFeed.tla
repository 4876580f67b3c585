----------------------------- MODULE ChangeFeed -----------------------------
(***************************************************************************)
(* iml-warp-drive, which keeps a copy of the database's records and of the *)
(* job scheduler's locks, and streams both to every open GUI.              *)
(*                                                                         *)
(* Hosts, filesystems and alerts are read through the HTTP API, every      *)
(* other table from Postgres.  Triggers on the tables announce each        *)
(* committed change to a connection that has issued LISTEN; one task       *)
(* handles the announcements, one consumes the queue `locks'.  The cache,  *)
(* the locks and the connected users have a mutex each.                    *)
(*                                                                         *)
(* A GUI's event stream is an unbounded channel: what is sent arrives in   *)
(* order until the connection ends, so view is what the GUI shows once it  *)
(* has caught up with its stream.                                          *)
(***************************************************************************)
EXTENDS Naturals, Sequences, FiniteSets

CONSTANTS
  ApiRecords,      \* hosts and filesystems
  Alerts,          \* alerts
  Rows,            \* records of the other tables
  Locks,           \* the locks the job scheduler takes, by uuid
  Users,           \* the open GUIs
  MaxChanges,      \* bound: commits, and locks taken or released
  MaxFeedFaults    \* bound: failures of any kind

ASSUME FeedAssumption ==
  /\ {MaxChanges, MaxFeedFaults} \subseteq Nat
  /\ ApiRecords \cap (Alerts \cup Rows) = {} /\ Alerts \cap Rows = {}

FromApi == ApiRecords \cup Alerts
Records == FromApi \cup Rows

Absent == "absent"       \* no row, or one marked deleted
Inactive == "inactive"   \* an alert that is no longer active
Versions == {"v1", "v2"}
Values(r) == IF r \in Alerts THEN {Inactive, "v1"} ELSE Versions \cup {Absent}
Shown(v) == IF v = Inactive THEN Absent ELSE v

VARIABLES
  \* Postgres
  db,          \* record -> its committed value
  notes,       \* announcements not yet received
  \* the job scheduler and its broker
  lock,        \* lock -> "new", "held" or "released"
  put,         \* the change being published, as a sequence of at most one
  lockQueue,   \* the queue `locks'
  asked,       \* get_locks requests not served
  replies,     \* locks read by get_locks, not yet published
  \* the process
  phase,       \* how far main has come
  read,        \* the records main has read in this phase
  cache,       \* api_cache_state
  handler,     \* the task that handles announcements
  shown,       \* lock_state
  lockSend,    \* the lock consumer has a change to broadcast
  closing,     \* "no", "triggered" or "cleared" (of users)
  conn,        \* user -> "off", "joining" or "on"
  view,        \* user -> what its GUI shows
  \* history
  missed,      \* records changed after they were read and before LISTEN
  revived,     \* rows read back into the cache before their deletion was sent
  overtaken,   \* locks whose last change was published before an older reply
  changes, feedFaults

dbVars == <<db, notes, missed, revived>>
lockVars == <<lock, put, lockQueue, asked, replies, overtaken>>
userVars == <<conn, view>>
processVars == <<phase, read, cache, handler, shown, lockSend, closing>>
feedVars == <<db, notes, lock, put, lockQueue, asked, replies, phase, read, cache, handler, shown,
              lockSend, closing, conn, view, missed, revived, overtaken, changes, feedFaults>>

Idle == [at |-> "idle"]
Ended == [at |-> "ended"]
NoRecords == [r \in Records |-> Absent]
NoView == [records |-> NoRecords, locks |-> {}]
Held == {l \in Locks : lock[l] = "held"}
Listening == phase \in {"listening", "populating", "locks", "serving"}
On == {u \in Users : conn[u] = "on"}

FeedInit ==
  /\ db \in {f \in [Records -> Versions \cup {Absent, Inactive}] :
                 \A r \in Records : f[r] \in Values(r) \ {"v2"}}
  /\ notes = <<>> /\ missed = {} /\ revived = {}
  /\ lock = [l \in Locks |-> "new"] /\ put = <<>> /\ lockQueue = <<>>
  /\ asked = 0 /\ replies = {} /\ overtaken = {}
  /\ phase = "api" /\ read = {} /\ cache = NoRecords /\ handler = Idle
  /\ shown = {} /\ lockSend = FALSE /\ closing = "no"
  /\ conn = [u \in Users |-> "off"] /\ view = [u \in Users |-> NoView]
  /\ changes = 0 /\ feedFaults = 0

-----------------------------------------------------------------------------
(* The database.                                                           *)

(* A row is committed, and its trigger announces it to whoever listens.    *)
Commit(r, v) ==
  /\ changes < MaxChanges /\ v # db[r]
  /\ db' = [db EXCEPT ![r] = v]
  /\ changes' = changes + 1
  /\ IF Listening
       THEN /\ notes' = Append(notes, [record |-> r, value |-> v])
            /\ missed' = missed \ {r}
       ELSE /\ missed' = IF r \in read THEN missed \cup {r} ELSE missed
            /\ UNCHANGED notes
  /\ UNCHANGED <<revived, lockVars, processVars, userVars, feedFaults>>

-----------------------------------------------------------------------------
(* The job scheduler.                                                      *)

(* LockCache._add and remove_job change the cache, then call the receiver  *)
(* that publishes the change.                                              *)
ChangeLock(l) ==
  /\ changes < MaxChanges /\ put = <<>> /\ lock[l] # "released"
  /\ LET kind == IF lock[l] = "new" THEN "add" ELSE "remove"
     IN  /\ lock' = [lock EXCEPT ![l] = IF kind = "add" THEN "held" ELSE "released"]
         /\ put' = <<[kind |-> kind, lock |-> l]>>
  /\ changes' = changes + 1
  /\ UNCHANGED <<dbVars, lockQueue, asked, replies, overtaken, processVars, userVars, feedFaults>>

PublishLock ==
  /\ put # <<>>
  /\ lockQueue' = lockQueue \o put /\ put' = <<>>
  /\ UNCHANGED <<dbVars, lock, asked, replies, overtaken, processVars, userVars, changes,
                 feedFaults>>

(* Every request is a thread of its own, and get_locks takes no lock.      *)
GetLocks ==
  /\ asked > 0
  /\ asked' = asked - 1
  /\ replies' = replies \cup {[of |-> asked, locks |-> Held]}
  /\ UNCHANGED <<dbVars, lock, put, lockQueue, overtaken, processVars, userVars, changes,
                 feedFaults>>

PublishReply(x) ==
  /\ replies' = replies \ {x}
  /\ lockQueue' = Append(lockQueue, [kind |-> "locks", locks |-> x.locks])
  /\ overtaken' = {l \in Locks : /\ (l \in x.locks) # (l \in Held)
                                 /\ \A i \in DOMAIN put : put[i].lock # l}
  /\ UNCHANGED <<dbVars, lock, put, asked, processVars, userVars, changes, feedFaults>>

(* get_locks raises, and the reply carries an exception and no locks.      *)
PublishError(x) ==
  /\ feedFaults < MaxFeedFaults /\ feedFaults' = feedFaults + 1
  /\ replies' = replies \ {x}
  /\ lockQueue' = Append(lockQueue, [kind |-> "error"])
  /\ UNCHANGED <<dbVars, lock, put, asked, overtaken, processVars, userVars, changes>>

-----------------------------------------------------------------------------
(* main, up to serving.                                                    *)

(* populate_from_api: three requests at once, stored when all have come.   *)
(* Nobody looks at the cache before that.                                  *)
PopulateFromApi(r) ==
  /\ phase = "api" /\ r \in FromApi \ read
  /\ cache' = [cache EXCEPT ![r] = Shown(db[r])]
  /\ read' = read \cup {r}
  /\ UNCHANGED <<dbVars, lockVars, phase, handler, shown, lockSend, closing, userVars, changes,
                 feedFaults>>

Listen ==
  /\ phase = "api" /\ read = FromApi
  /\ phase' = "listening" /\ read' = {}
  /\ UNCHANGED <<dbVars, lockVars, cache, handler, shown, lockSend, closing, userVars, changes,
                 feedFaults>>

(* populate_from_db locks the cache, reads table after table, and lets go. *)
PopulateFromDb ==
  /\ phase = "listening"
  /\ phase' = "populating"
  /\ UNCHANGED <<dbVars, lockVars, read, cache, handler, shown, lockSend, closing, userVars,
                 changes, feedFaults>>

ReadTable(r) ==
  /\ phase = "populating" /\ r \in Rows \ read
  /\ cache' = [cache EXCEPT ![r] = db[r]]
  /\ read' = read \cup {r}
  /\ revived' = IF handler.at = "send" /\ handler.record = r /\ db[r] # Absent
                THEN revived \cup {r} ELSE revived
  /\ UNCHANGED <<db, notes, missed, lockVars, phase, handler, shown, lockSend, closing, userVars,
                 changes, feedFaults>>

Populated ==
  /\ phase = "populating" /\ read = Rows
  /\ phase' = "locks" /\ read' = {}
  /\ UNCHANGED <<dbVars, lockVars, cache, handler, shown, lockSend, closing, userVars, changes,
                 feedFaults>>

(* create_locks_consumer purges the queue, then asks for all locks.        *)
CreateLocksConsumer ==
  /\ phase = "locks"
  /\ phase' = "serving"
  /\ lockQueue' = <<>> /\ asked' = asked + 1
  /\ UNCHANGED <<dbVars, lock, put, replies, overtaken, read, cache, handler, shown, lockSend,
                 closing, userVars, changes, feedFaults>>

-----------------------------------------------------------------------------
(* Announcements.                                                          *)

(* Nobody holds the mutex of the cache: neither populate_from_db nor a     *)
(* route between its snapshot and the registration of the user.            *)
Joining == {u \in Users : conn[u] = "joining"}
CacheFree == phase # "populating" /\ Joining = {}

(* Variant: an alert is fetched without a look at whether it is active.    *)
ChangeFetchesAlerts(n) ==
  IF n.value = Absent THEN Absent
  ELSE IF n.record \in FromApi THEN db[n.record]
  ELSE n.value
(* db_record_to_change_record: what the record becomes.  A deletion is     *)
(* taken from the announcement; a host or filesystem is fetched, and not   *)
(* found counts as deleted; an alert is fetched, active or not; any other  *)
(* row is the announced one.                                               *)
Change(n) ==
  IF n.value \in {Absent, Inactive} THEN Absent
  ELSE IF n.record \in FromApi THEN db[n.record]
  ELSE n.value

Receiving == Listening /\ closing = "no" /\ handler.at = "idle" /\ notes # <<>>

Convert ==
  /\ Receiving
  /\ notes' = Tail(notes)
  /\ handler' = [at |-> "apply", record |-> Head(notes).record, value |-> Change(Head(notes))]
  /\ UNCHANGED <<db, missed, revived, lockVars, phase, read, cache, shown, lockSend, closing, userVars,
                 changes, feedFaults>>

(* Variant: the loop ends and nobody is told.                              *)
ConvertFailsQuietly ==
  /\ Receiving /\ feedFaults < MaxFeedFaults
  /\ Head(notes).record \in FromApi /\ Head(notes).value \notin {Absent, Inactive}
  /\ feedFaults' = feedFaults + 1
  /\ notes' = Tail(notes) /\ handler' = Ended
  /\ UNCHANGED <<db, missed, revived, lockVars, phase, read, cache, shown, lockSend, closing, userVars,
                 changes>>
(* The fetch fails for another reason: the loop ends, and the process is   *)
(* told to stop.                                                           *)
ConvertFails ==
  /\ Receiving /\ feedFaults < MaxFeedFaults
  /\ Head(notes).record \in FromApi /\ Head(notes).value \notin {Absent, Inactive}
  /\ feedFaults' = feedFaults + 1
  /\ notes' = Tail(notes) /\ handler' = Ended
  /\ closing' = "triggered"
  /\ UNCHANGED <<db, missed, revived, lockVars, phase, read, cache, shown, lockSend, userVars, changes>>

Sent(r, v) == [u \in Users |-> IF u \in On THEN [view[u] EXCEPT !.records[r] = v] ELSE view[u]]

(* Variant: a route may be between its copy of the cache and its user.     *)
ApplyUpdateUnlocked ==
  /\ handler.at = "apply" /\ handler.value # Absent /\ phase # "populating"
  /\ cache' = [cache EXCEPT ![handler.record] = handler.value]
  /\ view' = IF cache[handler.record] = handler.value THEN view
             ELSE Sent(handler.record, handler.value)
  /\ revived' = IF cache[handler.record] = handler.value THEN revived
                ELSE revived \ {handler.record}
  /\ handler' = Idle
  /\ UNCHANGED <<db, notes, missed, lockVars, phase, read, shown, lockSend, closing, conn, changes,
                 feedFaults>>
(* handle_record_change, Update: the users are told before the mutex of    *)
(* the cache is let go, if the record differs from the one held.           *)
ApplyUpdate ==
  /\ handler.at = "apply" /\ handler.value # Absent /\ CacheFree
  /\ cache' = [cache EXCEPT ![handler.record] = handler.value]
  /\ view' = IF cache[handler.record] = handler.value THEN view
             ELSE Sent(handler.record, handler.value)
  /\ revived' = IF cache[handler.record] = handler.value THEN revived
                ELSE revived \ {handler.record}
  /\ handler' = Idle
  /\ UNCHANGED <<db, notes, missed, lockVars, phase, read, shown, lockSend, closing, conn, changes,
                 feedFaults>>

(* Delete: the mutex is let go before the users are told, and they are     *)
(* told only if there was a record.                                        *)
ApplyDelete ==
  /\ handler.at = "apply" /\ handler.value = Absent /\ CacheFree
  /\ cache' = [cache EXCEPT ![handler.record] = Absent]
  /\ handler' = IF cache[handler.record] = Absent THEN Idle ELSE [handler EXCEPT !.at = "send"]
  /\ revived' = IF cache[handler.record] = Absent THEN revived ELSE revived \ {handler.record}
  /\ UNCHANGED <<db, notes, missed, lockVars, phase, read, shown, lockSend, closing, userVars, changes,
                 feedFaults>>

SendDelete ==
  /\ handler.at = "send"
  /\ view' = Sent(handler.record, Absent)
  /\ handler' = Idle
  /\ UNCHANGED <<dbVars, lockVars, phase, read, cache, shown, lockSend, closing, conn, changes,
                 feedFaults>>

-----------------------------------------------------------------------------
(* The lock consumer.                                                      *)

Broadcast(ls) == [u \in Users |-> IF u \in On THEN [view[u] EXCEPT !.locks = ls] ELSE view[u]]

LockChanges(m) == IF m.kind = "add" THEN shown \cup {m.lock} ELSE shown \ {m.lock}
(* Variant: the locks held are not cleared before the reply's are added.   *)
ReplaceLocksKeeps(m) == shown \cup m.locks
ReplaceLocks(m) == m.locks

(* A reply replaces all locks, and is broadcast under their mutex.  A      *)
(* change is applied, and broadcast after the mutex was let go and taken   *)
(* again.  Anything else ends the task, and the process is told to stop.   *)
ConsumeLocks ==
  /\ phase = "serving" /\ closing = "no" /\ ~lockSend /\ lockQueue # <<>>
  /\ Joining = {}
  /\ lockQueue' = Tail(lockQueue)
  /\ LET m == Head(lockQueue)
     IN  \/ /\ m.kind = "locks"
            /\ shown' = ReplaceLocks(m) /\ view' = Broadcast(ReplaceLocks(m))
            /\ UNCHANGED <<lockSend, closing>>
         \/ /\ m.kind \in {"add", "remove"}
            /\ shown' = LockChanges(m) /\ lockSend' = TRUE
            /\ UNCHANGED <<closing, view>>
         \/ /\ m.kind = "error"
            /\ closing' = "triggered"
            /\ UNCHANGED <<shown, lockSend, view>>
  /\ UNCHANGED <<dbVars, lock, put, asked, replies, overtaken, phase, read, cache, handler, conn,
                 changes, feedFaults>>

BroadcastLocks ==
  /\ lockSend /\ Joining = {}
  /\ view' = Broadcast(shown) /\ lockSend' = FALSE
  /\ UNCHANGED <<dbVars, lockVars, phase, read, cache, handler, shown, closing, conn, changes,
                 feedFaults>>

-----------------------------------------------------------------------------
(* Users, and the end of the process.                                      *)

(* Variant: the route is served before main has filled the cache.          *)
ConnectEarly(u) ==
  /\ conn[u] = "off" /\ closing # "cleared" /\ CacheFree
  /\ conn' = [conn EXCEPT ![u] = "joining"]
  /\ view' = [view EXCEPT ![u] = [records |-> cache, locks |-> shown]]
  /\ UNCHANGED <<dbVars, lockVars, processVars, changes, feedFaults>>
(* The route holds both mutexes from the snapshot to the registration.     *)
Connect(u) ==
  /\ conn[u] = "off" /\ phase = "serving" /\ closing # "cleared"
  /\ CacheFree
  /\ conn' = [conn EXCEPT ![u] = "joining"]
  /\ view' = [view EXCEPT ![u] = [records |-> cache, locks |-> shown]]
  /\ UNCHANGED <<dbVars, lockVars, processVars, changes, feedFaults>>

UserConnected(u) ==
  /\ conn[u] = "joining"
  /\ conn' = [conn EXCEPT ![u] = "on"]
  /\ UNCHANGED <<dbVars, lockVars, processVars, view, changes, feedFaults>>

Gone(us) ==
  /\ conn' = [u \in Users |-> IF u \in us THEN "off" ELSE conn[u]]
  /\ view' = [u \in Users |-> IF u \in us THEN NoView ELSE view[u]]

Hangup(u) ==
  /\ conn[u] = "on" /\ feedFaults < MaxFeedFaults
  /\ Gone({u}) /\ feedFaults' = feedFaults + 1
  /\ UNCHANGED <<dbVars, lockVars, processVars, changes>>

(* The server stops accepting once all registered users are dropped, and   *)
(* returns once its connections have ended.                                *)
DisconnectAllUsers ==
  /\ phase = "serving" /\ closing = "triggered"
  /\ closing' = "cleared" /\ Gone(On)
  /\ UNCHANGED <<dbVars, lockVars, phase, read, cache, handler, shown, lockSend, changes,
                 feedFaults>>

(* systemd starts the service again.                                       *)
Restarted ==
  /\ phase' = "api" /\ read' = {} /\ cache' = NoRecords /\ handler' = Idle
  /\ shown' = {} /\ lockSend' = FALSE /\ closing' = "no"
  /\ notes' = <<>> /\ missed' = {} /\ revived' = {} /\ Gone(Users)
  /\ UNCHANGED <<db, lockVars, changes>>

Shutdown ==
  /\ closing = "cleared" /\ On \cup Joining = {}
  /\ Restarted
  /\ UNCHANGED feedFaults

(* Killed, or a step of main before serving returned an error.             *)
FeedCrash ==
  /\ feedFaults < MaxFeedFaults /\ feedFaults' = feedFaults + 1
  /\ Restarted

-----------------------------------------------------------------------------
Startup ==
  \/ \E r \in FromApi : PopulateFromApi(r)
  \/ Listen \/ PopulateFromDb \/ Populated \/ CreateLocksConsumer
  \/ \E r \in Rows : ReadTable(r)

FeedProgress ==
  \/ Startup
  \/ PublishLock \/ GetLocks \/ (\E x \in replies : PublishReply(x))
  \/ Convert \/ ApplyUpdate \/ ApplyDelete \/ SendDelete
  \/ ConsumeLocks \/ BroadcastLocks
  \/ \E u \in Users : Connect(u) \/ UserConnected(u)
  \/ DisconnectAllUsers \/ Shutdown

FeedFault ==
  \/ ConvertFails \/ FeedCrash
  \/ \E x \in replies : PublishError(x)
  \/ \E u \in Users : Hangup(u)

FeedChange ==
  \/ \E r \in Records : \E v \in Values(r) : Commit(r, v)
  \/ \E l \in Locks : ChangeLock(l)

FeedNext == FeedProgress \/ FeedFault \/ FeedChange

(* Every task of the process that is ready runs, the job scheduler         *)
(* answers, and an EventSource that lost its connection opens another.     *)
FeedSpec == FeedInit /\ [][FeedNext]_feedVars /\ WF_feedVars(FeedProgress)

-----------------------------------------------------------------------------
(* Every variable has its type, and no user is let in before main has      *)
(* filled the cache, after a restart included.                             *)
FeedTypeOK ==
  /\ \A r \in Records : db[r] \in Values(r)
  /\ cache \in [Records -> Versions \cup {Absent, Inactive}]
  /\ phase \in {"api", "listening", "populating", "locks", "serving"}
  /\ handler.at \in {"idle", "apply", "send", "ended"}
  /\ closing \in {"no", "triggered", "cleared"}
  /\ conn \in [Users -> {"off", "joining", "on"}]
  /\ shown \subseteq Locks
  /\ On \cup Joining # {} => phase = "serving"

(* A GUI that has caught up with its stream shows the records in the cache *)
(* and the locks of lock_state, whatever happened while it connected; it   *)
(* lags only by the deletion or the lock change being sent                 *)
(* (users.rs, user_connected; listen.rs, handle_record_change).  The one   *)
(* exception is a row that was deleted and created again during startup:   *)
(* populate_from_db reads it back between the removal and the message, the *)
(* GUI connects, and only then is told of the deletion (listen.rs:39-46).  *)
ViewFollowsCache ==
  \A u \in On :
    /\ \A r \in Records \ revived :
         \/ view[u].records[r] = cache[r]
         \/ handler.at = "send" /\ handler.record = r
    /\ view[u].locks = shown \/ lockSend

(* Once the announcements of a record are handled, the cache holds what    *)
(* the database holds, however they raced with populate_from_db.  The one  *)
(* exception is a host, filesystem or alert that changed between           *)
(* populate_from_api and LISTEN, and has not changed since (main.rs:48-77).*)
CacheSettles ==
  \A r \in Records \ missed :
    (/\ phase \in {"locks", "serving"} /\ handler.at = "idle"
     /\ \A i \in DOMAIN notes : notes[i].record # r)
    => cache[r] = Shown(db[r])

(* Once queue and replies are drained, lock_state holds the locks the job  *)
(* scheduler holds.  The one exception is a lock that changed after        *)
(* get_locks had read it, and whose change was published first             *)
(* (locks.rs, create_locks_consumer; job_scheduler.py, get_locks).         *)
LocksSettle ==
  (/\ phase = "serving" /\ closing = "no"
   /\ lockQueue = <<>> /\ put = <<>> /\ asked = 0 /\ replies = {})
  => \A l \in Locks \ overtaken : (l \in shown) = (l \in Held)

(* When changes and failures end, every GUI is connected again and shows   *)
(* the database, up to the exceptions of CacheSettles and LocksSettle.  A  *)
(* GUI that registers after disconnect_all_users has cleared the users     *)
(* (users.rs:62) keeps the process from ending, and stays as it is.        *)
Straggler == closing = "cleared" /\ On # {}
CaughtUp(u) ==
  /\ conn[u] = "on"
  /\ \A r \in Records \ (missed \cup revived) : view[u].records[r] = Shown(db[r])
  /\ \A l \in Locks \ overtaken : (l \in view[u].locks) = (l \in Held)
Recovered == Straggler \/ (phase = "serving" /\ \A u \in Users : CaughtUp(u))
Recovers == <>[]Recovered
=============================================================================
