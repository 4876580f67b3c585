----------------------------- MODULE TargetScan -----------------------------
(***************************************************************************)
(* iml-device: the device plugin of every agent reports block devices and  *)
(* mounts, and the service turns the reports of all hosts into the rows of *)
(* targets, managed targets, filesystems and client mounts.                *)
(*                                                                         *)
(* A target is on a disk of its own or on a volume of a pool, which is     *)
(* imported where the target is mounted.  What else describes a target     *)
(* (its paths, the type of its filesystem) follows from that and is left   *)
(* out.  CommandPlan has the same writes against the jobs; here they are   *)
(* split into the statements between which the process can stop.           *)
(***************************************************************************)
EXTENDS Naturals, Sequences, FiniteSets

CONSTANTS
  Hosts,           \* the hosts with an agent, by the id of their row
  NoServer,        \* a target that is mounted nowhere
  Disks,           \* disks, by serial number
  Sees,            \* host -> the disks it is connected to
  Pools,           \* zpools
  PoolDisks,       \* pool -> its disks
  Targets,         \* targets, by name
  Mgs,             \* the management target
  Mdt0,            \* the targets whose name ends in -MDT0000
  Backing,         \* target -> its disk, or the pool of its dataset
  FsOf,            \* target other than Mgs -> its filesystem
  Filesystems,
  MaxReports,      \* bound: reports on their way
  MaxMoves,        \* bound: changes at the hosts
  MaxScanFaults    \* bound: failures of any kind

ASSUME ScanAssumption ==
  /\ Hosts \subseteq Nat /\ NoServer \notin Hosts /\ Disks \cap Pools = {}
  /\ Targets \cap Filesystems = {}
  /\ Mgs \in Targets /\ Mdt0 \subseteq Targets \ {Mgs}
  /\ Sees \in [Hosts -> SUBSET Disks] /\ PoolDisks \in [Pools -> (SUBSET Disks) \ {{}}]
  /\ Backing \in [Targets -> Disks \cup Pools]
  /\ \A t, u \in Targets : Backing[t] = Backing[u] => t = u
  /\ FsOf \in [Targets \ {Mgs} -> Filesystems]
  /\ {MaxReports, MaxMoves, MaxScanFaults} \subseteq Nat

VARIABLES
  \* the hosts
  place,         \* target -> the host that mounts it
  registered,    \* the filesystems the MGS knows
  clientAt,      \* <<host, filesystem>> with a client mount
  scanned,       \* host -> what its device scanner saw last
  session,       \* host -> session of its device plugin; "deaf": no more scans
  unsent,        \* host -> the plugin's state holds a scan to be sent
  reports,       \* the queue rust_agent_device_rx
  \* the database
  managed,       \* hosts that are not deleted
  deviceRows,    \* host -> chroma_core_device
  clientRows,    \* <<host, filesystem>> -> state of the client mount
  targetRows,    \* the rows of table target
  managedState,  \* target -> state of the managed target
  fsState,       \* filesystem -> state of the managed filesystem
  \* the process
  handling,      \* where the loop of main is
  trees,         \* device_cache: host -> device tree
  mounts,        \* mount_cache: host -> the targets it mounts
  mgsFses,       \* mgs_fs_cache
  \* history
  skipped,       \* managed targets and filesystems left out when the process stopped
  moves, scanFaults

hostVars == <<place, registered, clientAt, scanned, session, unsent, moves>>
cacheVars == <<trees, mounts, mgsFses>>
rowVars == <<deviceRows, clientRows, targetRows, managedState, fsState>>
scanVars == <<hostVars, reports, managed, rowVars, handling, cacheVars, skipped, scanFaults>>

Nothing == <<>>     \* the function without arguments
Waiting == [at |-> "next"]

CanMount(h, t) ==
  IF Backing[t] \in Pools THEN PoolDisks[Backing[t]] \subseteq Sees[h] ELSE Backing[t] \in Sees[h]

(* What there is to see at a host: pools imported, targets and clients     *)
(* mounted.  The disks of a host do not change.                            *)
Visible(h) ==
  [pools |-> {p \in Pools : \E t \in Targets : Backing[t] = p /\ place[t] = h},
   mounts |-> {t \in Targets : place[t] = h},
   clients |-> {f \in Filesystems : <<h, f>> \in clientAt}]

ScanInit ==
  /\ place \in [Targets -> Hosts \cup {NoServer}]
  /\ \A t \in Targets : place[t] # NoServer => CanMount(place[t], t)
  /\ registered = {} /\ clientAt \in SUBSET (Hosts \X Filesystems)
  /\ scanned = [h \in Hosts |-> Visible(h)]
  /\ session = [h \in Hosts |-> "none"] /\ unsent = [h \in Hosts |-> FALSE]
  /\ reports = <<>> /\ managed = Hosts
  /\ deviceRows = Nothing /\ clientRows = Nothing /\ targetRows = {}
  /\ managedState = [t \in Targets |-> "unmounted"]
  /\ fsState = [f \in Filesystems |-> "unavailable"]
  /\ handling = Waiting /\ trees = Nothing /\ mounts = Nothing /\ mgsFses = Nothing
  /\ skipped = {} /\ moves = 0 /\ scanFaults = 0

-----------------------------------------------------------------------------
(* The hosts *)

Moved == moves < MaxMoves /\ moves' = moves + 1
ElsewhereUnchanged == UNCHANGED <<managed, rowVars, handling, cacheVars, skipped>>

(* A target is mounted, unmounted, or mounted elsewhere.                   *)
MoveTarget(t, h) ==
  /\ h # place[t] /\ (h # NoServer => h \in managed /\ CanMount(h, t))
  /\ place' = [place EXCEPT ![t] = h]
  /\ UNCHANGED <<registered, clientAt>>
Register(f) ==
  /\ f \notin registered /\ place[Mgs] # NoServer
  /\ registered' = registered \cup {f} /\ UNCHANGED <<place, clientAt>>
MountClient(h, f) ==
  /\ clientAt' = IF <<h, f>> \in clientAt THEN clientAt \ {<<h, f>>} ELSE clientAt \cup {<<h, f>>}
  /\ UNCHANGED <<place, registered>>

HostChange ==
  /\ Moved
  /\ \/ \E t \in Targets, h \in Hosts \cup {NoServer} : MoveTarget(t, h)
     \/ \E f \in Filesystems : Register(f) \/ \E h \in Hosts : MountClient(h, f)
  /\ UNCHANGED <<scanned, session, unsent, reports, scanFaults>> /\ ElsewhereUnchanged

(* A host without targets is removed: the job scheduler marks its row      *)
(* deleted.  (Forced removal, which deletes the targets too, is left out.) *)
RemoveHost(h) ==
  /\ Moved /\ h \in managed /\ managed' = managed \ {h}
  /\ \A t \in Targets : place[t] # h
  /\ UNCHANGED <<place, registered, clientAt, scanned, session, unsent, reports, rowVars,
                 handling, cacheVars, skipped, scanFaults>>

(* The scanner sees the changes, and its stream, while there is one, puts  *)
(* the scan into the plugin's state.                                       *)
DeviceScanner(h) ==
  /\ scanned[h] # Visible(h)
  /\ scanned' = [scanned EXCEPT ![h] = Visible(h)]
  /\ unsent' = [unsent EXCEPT ![h] = @ \/ session[h] = "open"]
  /\ UNCHANGED <<place, registered, clientAt, session, moves, reports, scanFaults>>
  /\ ElsewhereUnchanged

(* What is sent: a scan, and what the MGS knows now, if it is mounted.     *)
Post(h) ==
  /\ Len(reports) < MaxReports
  /\ reports' = Append(reports, [host |-> h, seen |-> scanned[h],
                                 fses |-> IF place[Mgs] = h THEN registered ELSE {}])

(* start_session reports the first scan, and leaves it in the state, from  *)
(* where the first update_session sends it once more.                      *)
StartSession(h) ==
  /\ session[h] = "none" /\ Post(h)
  /\ session' = [session EXCEPT ![h] = "open"] /\ unsent' = [unsent EXCEPT ![h] = TRUE]
  /\ UNCHANGED <<place, registered, clientAt, scanned, moves, scanFaults>> /\ ElsewhereUnchanged
UpdateSession(h) ==
  /\ session[h] # "none" /\ unsent[h] /\ Post(h)
  /\ unsent' = [unsent EXCEPT ![h] = FALSE]
  /\ UNCHANGED <<place, registered, clientAt, scanned, session, moves, scanFaults>>
  /\ ElsewhereUnchanged

(* The session ends, with a scan not sent or lost on its way; or only the  *)
(* stream of scans ends, which the plugin logs.                            *)
SessionEnds(h) ==
  /\ scanFaults < MaxScanFaults /\ scanFaults' = scanFaults + 1
  /\ \/ /\ session[h] # "none" /\ session' = [session EXCEPT ![h] = "none"]
        /\ unsent' = [unsent EXCEPT ![h] = FALSE]
     \/ /\ session[h] = "open" /\ session' = [session EXCEPT ![h] = "deaf"]
        /\ UNCHANGED unsent
  /\ UNCHANGED <<place, registered, clientAt, scanned, moves, reports>> /\ ElsewhereUnchanged

-----------------------------------------------------------------------------
(* The device index.  A device tree is the set of the paths to its         *)
(* devices, given by the pools imported.  A volume is imported on one host *)
(* only; it counts as present on every host that has all parents of its    *)
(* pool.                                                                   *)

Root == <<"root">>
TreeOf(h, pools) ==
  {<<Root>>} \cup {<<Root, <<"disk", d>>>> : d \in Sees[h]}
    \cup (UNION {{<<Root, <<"disk", d>>, <<"zpool", p>>>> : d \in PoolDisks[p]} : p \in pools})
    \cup (UNION {{<<Root, <<"disk", d>>, <<"zpool", p>>, <<"dataset", p>>>> : d \in PoolDisks[p]}
                 : p \in pools})
DeviceOf(t) == IF Backing[t] \in Pools THEN <<"dataset", Backing[t]>> ELSE <<"disk", Backing[t]>>

Lasts(paths) == {p[Len(p)] : p \in paths \ {<<>>}}
BuildDeviceMap(tree) ==
  [id \in Lasts(tree) |-> {SubSeq(p, 1, Len(p) - 1) : p \in {q \in tree : q[Len(q)] = id}}]

SharedKinds == [lv |-> "vg", dataset |-> "zpool"]
GetSharedParent(map, id) ==
  {x \in Lasts(map[id]) : id[1] \in DOMAIN SharedKinds /\ x[1] = SharedKinds[id[1]]}

SharedWith(map, present) ==
  UNION {UNION {{id, x} : x \in GetSharedParent(map, id) \cap present} : id \in DOMAIN map}
AddSharedStorageByAny(map, other) ==
  SharedWith(map, {x \in DOMAIN map : Lasts(map[x]) \cap DOMAIN other # {}})
(* The devices of map that the host with the devices of other could have.  *)
AddSharedStorage(map, other) ==
  LET present == {x \in DOMAIN map : Lasts(map[x]) \subseteq DOMAIN other}
  IN  {id \in present : id[1] = "mdraid"} \cup SharedWith(map, present)

BuildDeviceIndex(ts) ==
  LET map == [h \in DOMAIN ts |-> BuildDeviceMap(TreeOf(h, ts[h]))]
  IN  [h \in DOMAIN ts |->
         DOMAIN map[h] \cup UNION {AddSharedStorage(map[k], map[h]) : k \in DOMAIN ts \ {h}}]

(* The index of every device cache there can be.                           *)
DeviceIndex == [ts \in UNION {[hs -> SUBSET Pools] : hs \in SUBSET Hosts} |-> BuildDeviceIndex(ts)]

(* find_targets.  Hosts that are known and mount t, those which know its   *)
(* filesystems if any does: a HashMap decides between them.                *)
Claims(ms, t) == {h \in DOMAIN ms \cap managed : t \in ms[h]}
FilesystemsAt(fses, t, h) == IF t = Mgs THEN fses[h] ELSE {FsOf[t]}
Winners(ms, fses, t) ==
  LET named == {h \in Claims(ms, t) : FilesystemsAt(fses, t, h) # {}}
  IN  IF named = {} THEN Claims(ms, t) ELSE named

Target(t, h, index, fses) ==
  [name |-> t, uuid |-> Backing[t], state |-> "mounted", active |-> h,
   hosts |-> {h} \cup {k \in DOMAIN index \cap managed : DeviceOf(t) \in index[k]},
   filesystems |-> FilesystemsAt(fses, t, h)]

FindTargets(ts, ms, fses) ==
  LET found == {t \in Targets : Claims(ms, t) # {}}
  IN  {{Target(t, at[t], DeviceIndex[ts], fses) : t \in found} :
         at \in {f \in [found -> Hosts] : \A t \in found : f[t] \in Winners(ms, fses, t)}}

(* get_changes: what is new or changed, and what is gone altogether, by    *)
(* uuid.                                                                   *)
Uuids(xs) == {x.uuid : x \in xs}
Upserts(new, old) == new \ old
DeletionsAlone(new, old) ==
  {x \in old \ new : x.uuid \notin Uuids(new) /\ Upserts(new, old) = {}}
Deletions(new, old) == {x \in old \ new : x.uuid \notin Uuids(new)}

(* host_ids is compared as a list: the active host and then the others as  *)
(* a HashMap yields them, with the sorted list that was stored.  A target  *)
(* may count as changed when only the order differs.                       *)
Reordered(xs) ==
  LET must == {x \in xs : \E h \in x.hosts : h < x.active}
      may  == {x \in xs : Cardinality(x.hosts) > 2}
  IN  {must \cup more : more \in SUBSET may}

SetUnmounted(x) ==
  [name |-> x.name, uuid |-> x.uuid, state |-> "unmounted", active |-> NoServer,
   hosts |-> x.hosts, filesystems |-> x.filesystems]
BuildUpdates(new, old) ==
  {Upserts(new, old) \cup same \cup {SetUnmounted(x) : x \in Deletions(new, old)} :
     same \in Reordered(new \cap old)}

(* INSERT ... ON CONFLICT (name, uuid) DO UPDATE.                          *)
Key(x) == <<x.name, x.uuid>>
Upserted(rows, xs) == xs \cup {r \in rows : \A x \in xs : Key(x) # Key(r)}

-----------------------------------------------------------------------------
(* The loop of main, one step per statement.                               *)

UpdateDevices ==
  /\ handling = Waiting /\ reports # <<>>
  /\ LET r == Head(reports)
     IN  /\ deviceRows' = [h \in DOMAIN deviceRows \cup {r.host} |->
                             IF h = r.host THEN r.seen.pools ELSE deviceRows[h]]
         /\ handling' = [at |-> "clients", report |-> r]
  /\ reports' = Tail(reports)
  /\ UNCHANGED <<hostVars, managed, clientRows, targetRows, managedState, fsState, cacheVars,
                 skipped, scanFaults>>

UpdateClientMountsSeen ==
  /\ handling.at = "clients"
  /\ LET r == handling.report
         mine == {<<r.host, f>> : f \in r.seen.clients}
     IN  clientRows' = IF r.host \notin managed THEN clientRows
                       ELSE [x \in DOMAIN clientRows \cup mine |->
                               IF x \in mine THEN "mounted" ELSE clientRows[x]]
  /\ handling' = [handling EXCEPT !.at = "targets"]
  /\ UNCHANGED <<hostVars, reports, managed, deviceRows, targetRows, managedState, fsState,
                 cacheVars, skipped, scanFaults>>
(* Client mounts of a host that is known: upserted, or set to unmounted.   *)
UpdateClientMounts ==
  /\ handling.at = "clients"
  /\ LET r == handling.report
         old == {f \in Filesystems : <<r.host, f>> \in DOMAIN clientRows}
         mine == {<<r.host, f>> : f \in r.seen.clients \cup old}
     IN  clientRows' = IF r.host \notin managed THEN clientRows
                       ELSE [x \in DOMAIN clientRows \cup mine |->
                               IF x \notin mine THEN clientRows[x]
                               ELSE IF x[2] \in r.seen.clients THEN "mounted" ELSE "unmounted"]
  /\ handling' = [handling EXCEPT !.at = "targets"]
  /\ UNCHANGED <<hostVars, reports, managed, deviceRows, targetRows, managedState, fsState,
                 cacheVars, skipped, scanFaults>>

With(f, h, x) == [k \in DOMAIN f \cup {h} |-> IF k = h THEN x ELSE f[k]]

UpdateTargets ==
  /\ handling.at = "targets"
  /\ LET r == handling.report
     IN  /\ trees' = With(trees, r.host, r.seen.pools)
         /\ mounts' = With(mounts, r.host, r.seen.mounts)
         /\ mgsFses' = With(mgsFses, r.host, r.fses)
  /\ \E targets \in FindTargets(trees', mounts', mgsFses') :
       \E xs \in BuildUpdates(targets, targetRows) :
         /\ targetRows' = Upserted(targetRows, xs)
         /\ handling' = [at |-> "managed", updates |-> xs]
  /\ UNCHANGED <<hostVars, reports, managed, deviceRows, clientRows, managedState, fsState,
                 skipped, scanFaults>>

UpdateManagedTargets ==
  /\ handling.at = "managed"
  /\ managedState' =
       [t \in Targets |->
          IF \E x \in handling.updates : x.uuid = Backing[t]
            THEN (CHOOSE x \in handling.updates : x.uuid = Backing[t]).state
            ELSE managedState[t]]
  /\ skipped' = {t \in skipped : t \in Targets => Backing[t] \notin Uuids(handling.updates)}
  /\ handling' = [at |-> "filesystems",
                  fses |-> UNION {x.filesystems : x \in handling.updates}]
  /\ UNCHANGED <<hostVars, reports, managed, deviceRows, clientRows, targetRows, fsState,
                 cacheVars, scanFaults>>

(* The state of a filesystem, from the targets all of whose filesystems    *)
(* were updated.                                                           *)
FsTargets(f) ==
  {x \in targetRows : f \in x.filesystems /\ x.filesystems \subseteq handling.fses}
FsFound(f) ==
  IF \A x \in FsTargets(f) : managedState[x.name] = "unmounted" THEN "stopped"
  ELSE IF \E x \in FsTargets(f) : x.name \in Mdt0 /\ managedState[x.name] = "unmounted"
    THEN "unavailable"
  ELSE "available"

UpdateManagedFilesystems ==
  /\ handling.at = "filesystems"
  /\ fsState' = [f \in Filesystems |-> IF FsTargets(f) = {} THEN fsState[f] ELSE FsFound(f)]
  /\ skipped' = {f \in skipped : f \in Filesystems => FsTargets(f) = {}}
  /\ handling' = Waiting
  /\ UNCHANGED <<hostVars, reports, managed, deviceRows, clientRows, targetRows, managedState,
                 cacheVars, scanFaults>>

(* A statement fails, or the process is killed, and it starts again with   *)
(* the device trees of the database.  The queue is consumed without        *)
(* acknowledgement: reports that were delivered are lost.                  *)
Unwritten ==
  CASE handling.at = "managed" -> UNION {{x.name} \cup x.filesystems : x \in handling.updates}
    [] handling.at = "filesystems" -> handling.fses
    [] OTHER -> {}

ScanRestart ==
  /\ scanFaults < MaxScanFaults /\ scanFaults' = scanFaults + 1
  /\ \E n \in 0 .. Len(reports) : reports' = SubSeq(reports, n + 1, Len(reports))
  /\ handling' = Waiting /\ skipped' = skipped \cup Unwritten
  /\ trees' = deviceRows /\ mounts' = Nothing /\ mgsFses' = Nothing
  /\ UNCHANGED <<hostVars, managed, rowVars>>

-----------------------------------------------------------------------------
ScanStep ==
  \/ UpdateDevices \/ UpdateClientMounts \/ UpdateTargets
  \/ UpdateManagedTargets \/ UpdateManagedFilesystems
AgentStep(h) == DeviceScanner(h) \/ StartSession(h) \/ UpdateSession(h)
ScanFault == ScanRestart \/ \E h \in Hosts : SessionEnds(h)

ScanNext ==
  \/ HostChange \/ ScanStep \/ ScanFault
  \/ \E h \in Hosts : RemoveHost(h) \/ AgentStep(h)

ScanSpec == ScanInit /\ [][ScanNext]_scanVars

-----------------------------------------------------------------------------
ScanTypeOK ==
  /\ place \in [Targets -> Hosts \cup {NoServer}] /\ registered \subseteq Filesystems
  /\ managed \subseteq Hosts /\ clientAt \cup DOMAIN clientRows \subseteq Hosts \X Filesystems
  /\ Len(reports) <= MaxReports /\ skipped \subseteq Targets \cup Filesystems
  /\ DOMAIN mounts = DOMAIN mgsFses /\ DOMAIN mounts \subseteq DOMAIN trees
  /\ \A h \in DOMAIN mounts : mounts[h] \subseteq Targets /\ mgsFses[h] \subseteq Filesystems
  /\ \A x, y \in targetRows : Key(x) = Key(y) => x = y

(* The rows of targets say what the last reports of all hosts say, however *)
(* these arrived: a target that a known host mounts is mounted, and where  *)
(* a row says it is mounted its host has reported it.                      *)
RowsFollowReports ==
  mounts # Nothing =>
    \A t \in Targets :
      LET rows == {x \in targetRows : x.name = t}
      IN  /\ Claims(mounts, t) # {} => \E x \in rows : x.state = "mounted"
          /\ \A x \in rows : x.state = "mounted" =>
               x.active \in DOMAIN mounts /\ t \in mounts[x.active]

(* host_ids of a mounted target are the known hosts that see its disk, or  *)
(* all disks of its pool, although a pool is in the tree of one host only. *)
HostsShareDisks ==
  mounts # Nothing =>
    \A x \in targetRows : x.state = "mounted" =>
      \A h \in managed : (h \in x.hosts) = (h \in DOMAIN trees /\ CanMount(h, x.name))

(* When everything seen is reported and every report is handled, the rows  *)
(* describe the hosts: targets, managed targets, client mounts, and        *)
(* filesystems as far as the rows of their members say.  What stays wrong  *)
(* is what the process forgot when it stopped (the mounts of a host that   *)
(* had no change to report since, and the rows it was about to write), and *)
(* what a broken stream of scans leaves unseen.  Without a row of its MDT0 *)
(* a filesystem may be called available although nothing of it is mounted: *)
(* update_managed_filesystems counts the MGS among its targets.            *)
ScanQuiet ==
  /\ reports = <<>> /\ handling = Waiting
  /\ \A h \in Hosts : session[h] = "open" /\ ~unsent[h] /\ scanned[h] = Visible(h)
Described(t) ==
  LET state == IF place[t] \in managed THEN "mounted" ELSE "unmounted"
  IN  \/ place[t] \in managed \ DOMAIN mounts \/ mounts = Nothing
      \/ /\ \A x \in targetRows : x.name = t =>
              x.state = state /\ (state = "mounted" => x.active = place[t])
         /\ state = "mounted" => \E x \in targetRows : x.name = t
         /\ managedState[t] = state \/ t \in skipped
FsDescribed(f) ==
  LET members == {t \in Targets \ {Mgs} : FsOf[t] = f}
      known == {t \in members : \E x \in targetRows : x.name = t}
  IN  \/ ({f} \cup members) \cap skipped # {} \/ known = {}
      \/ /\ fsState[f] = "stopped" => \A t \in members : managedState[t] = "unmounted"
         /\ fsState[f] = "unavailable" =>
              \E t \in known \cap Mdt0 : managedState[t] = "unmounted"
         /\ fsState[f] = "available" =>
              \A t \in known \cap Mdt0 : managedState[t] = "mounted"
ClientsDescribed(h) ==
  {f \in Filesystems : <<h, f>> \in clientAt}
    = {f \in Filesystems : <<h, f>> \in DOMAIN clientRows /\ clientRows[<<h, f>>] = "mounted"}
ScanSettles ==
  ScanQuiet =>
    /\ \A t \in Targets : Described(t)
    /\ \A f \in Filesystems : FsDescribed(f)
    /\ \A h \in managed \cap DOMAIN mounts : ClientsDescribed(h)
=============================================================================
