-------------------------- MODULE TargetScanProofs --------------------------
(***************************************************************************)
(* The rows of targets follow the reports of the hosts, for any hosts,     *)
(* disks, pools and targets, through restarts and lost reports; and when   *)
(* all is quiet the rows describe the hosts.                               *)
(*                                                                         *)
(* The last of these is about quiet states only.  Its invariant follows    *)
(* the last report of a host on its way: queued, in hand, in cache and     *)
(* rows (SeenInv), and what the rows still owe to managed targets and      *)
(* filesystems (RowInv).                                                   *)
(***************************************************************************)
EXTENDS TargetScan, TLAPS

USE ZenonT(20)

(* A sequence has the elements 1 to its length.                            *)
LEMMA SequenceDomain ==
  ASSUME NEW S, NEW q \in Seq(S)
  PROVE  Len(q) \in Nat /\ DOMAIN q = 1..Len(q)
BY SMT

(* What is left of a sequence without its first n elements.                *)
LEMMA SequenceLeft ==
  ASSUME NEW S, NEW q \in Seq(S), NEW n \in Nat, n <= Len(q), NEW p, p = SubSeq(q, n + 1, Len(q))
  PROVE  /\ DOMAIN p = 1..(Len(q) - n)
         /\ \A i \in 1..(Len(q) - n) : p[i] = q[i + n]
BY SMT

(* A row is of a target and has its uuid; no two rows have the same name   *)
(* and uuid.  Without this an upsert could leave an old row beside its     *)
(* successor.                                                              *)
RowsAreKeyed ==
  /\ \A x \in targetRows : x.name \in Targets /\ x.uuid = Backing[x.name]
  /\ \A x, y \in targetRows : Key(x) = Key(y) => x = y

ScanInv == RowsAreKeyed /\ RowsFollowReports

(* host_ids, given the device cache.                                       *)
HostsOfRow(ts, x) ==
  {x.active} \cup {k \in DOMAIN DeviceIndex[ts] \cap managed : DeviceOf(x.name) \in DeviceIndex[ts][k]}

(* What find_targets returns has one element per target that a known host  *)
(* mounts, active on such a host.                                          *)
LEMMA FoundTargets ==
  ASSUME NEW ts, NEW ms, NEW fses, NEW new \in FindTargets(ts, ms, fses)
  PROVE  /\ \A x \in new : /\ x.name \in Targets /\ x.uuid = Backing[x.name]
                           /\ x.state = "mounted" /\ x.active \in Claims(ms, x.name)
                           /\ x.hosts = HostsOfRow(ts, x)
                           /\ x.name # Mgs => x.filesystems = {FsOf[x.name]}
         /\ \A x, y \in new : x.name = y.name => x = y
         /\ \A t \in Targets : Claims(ms, t) # {} => \E x \in new : x.name = t
<1> DEFINE found == {t \in Targets : Claims(ms, t) # {}}
<1>1. PICK at \in [found -> Hosts] :
        /\ \A t \in found : at[t] \in Winners(ms, fses, t)
        /\ new = {Target(t, at[t], DeviceIndex[ts], fses) : t \in found}
  BY DEF FindTargets
<1>2. \A t \in found : at[t] \in Claims(ms, t)
  BY <1>1 DEF Winners
<1>3. \A t \in found : LET x == Target(t, at[t], DeviceIndex[ts], fses)
                       IN  /\ x.name = t /\ x.uuid = Backing[t]
                           /\ x.state = "mounted" /\ x.active = at[t]
                           /\ x.hosts = HostsOfRow(ts, x)
                           /\ t # Mgs => x.filesystems = {FsOf[t]}
  BY DEF Target, HostsOfRow, FilesystemsAt
<1> QED  BY SMT, <1>1, <1>2, <1>3

(* What build_updates makes of that and of the rows: after the upsert the  *)
(* mounted rows are those found, and rows are still keyed.  A row whose    *)
(* target was found is replaced, because a uuid belongs to one target.     *)
LEMMA UpsertedRows ==
  ASSUME NEW old, NEW new, NEW xs \in BuildUpdates(new, old),
         \A x \in old \cup new : x.name \in Targets /\ x.uuid = Backing[x.name],
         \A x, y \in old : Key(x) = Key(y) => x = y,
         \A x, y \in new : x.name = y.name => x = y
  PROVE  /\ new \subseteq Upserted(old, xs)
         /\ \A x \in Upserted(old, xs) : x.state = "mounted" => x \in new
         /\ \A x \in Upserted(old, xs) : x.name \in Targets /\ x.uuid = Backing[x.name]
         /\ \A x, y \in Upserted(old, xs) : Key(x) = Key(y) => x = y
<1>1. PICK same \in SUBSET (new \cap old) :
        xs = Upserts(new, old) \cup same \cup {SetUnmounted(x) : x \in Deletions(new, old)}
  BY DEF BuildUpdates, Reordered
<1>2. \A x : LET y == SetUnmounted(x)
              IN  y.name = x.name /\ y.uuid = x.uuid /\ y.state = "unmounted" /\ Key(y) = Key(x)
  BY DEF SetUnmounted, Key
<1>3. \A x \in xs : x \in new \/ \E d \in Deletions(new, old) : x = SetUnmounted(d)
  BY <1>1 DEF Upserts
<1>4. \A d \in Deletions(new, old) : d \in old /\ d \notin new /\ \A n \in new : n.uuid # d.uuid
  BY DEF Deletions, Uuids
<1>5. \A x, y : Key(x) = Key(y) => x.name = y.name /\ x.uuid = y.uuid
  BY DEF Key
<1>6. \A x, y : x.name = y.name /\ x.uuid = y.uuid => Key(x) = Key(y)
  BY DEF Key
<1>7. \A x \in xs : x.name \in Targets /\ x.uuid = Backing[x.name]
  BY SMT, <1>2, <1>3, <1>4
<1>8. \A x, y \in xs : Key(x) = Key(y) => x = y
  <2> SUFFICES ASSUME NEW x \in xs, NEW y \in xs, Key(x) = Key(y)  PROVE x = y
    OBVIOUS
  <2>1. CASE x \in new /\ y \in new
    BY <2>1, <1>5
  <2>2. CASE x \notin new /\ y \notin new
    <3>1. PICK d \in Deletions(new, old) : x = SetUnmounted(d)
      BY <2>2, <1>3
    <3>2. PICK e \in Deletions(new, old) : y = SetUnmounted(e)
      BY <2>2, <1>3
    <3>3. d = e
      BY SMT, <3>1, <3>2, <1>2, <1>4
    <3> QED  BY <3>1, <3>2, <3>3
  <2>3. CASE x \in new /\ y \notin new
    BY SMT, <2>3, <1>2, <1>3, <1>4, <1>5
  <2>4. CASE x \notin new /\ y \in new
    BY SMT, <2>4, <1>2, <1>3, <1>4, <1>5
  <2> QED  BY <2>1, <2>2, <2>3, <2>4
<1>9. new \subseteq Upserted(old, xs)
  <2> SUFFICES ASSUME NEW n \in new, n \notin xs  PROVE n \in Upserted(old, xs)
    BY DEF Upserted
  <2>1. n \in old
    BY <1>1 DEF Upserts
  <2>2. \A x \in xs : Key(x) # Key(n)
    <3> SUFFICES ASSUME NEW x \in xs, Key(x) = Key(n)  PROVE FALSE
      OBVIOUS
    <3>1. CASE x \in new
      BY <3>1, <1>5
    <3>2. CASE x \notin new
      BY SMT, <3>2, <1>2, <1>3, <1>4, <1>5
    <3> QED  BY <3>1, <3>2
  <2> QED  BY <2>1, <2>2 DEF Upserted
<1>10. ASSUME NEW x \in Upserted(old, xs), x.state = "mounted"  PROVE x \in new
  <2>1. CASE x \in xs
    <3> SUFFICES ASSUME x \notin new  PROVE FALSE
      OBVIOUS
    <3>1. x.state = "unmounted"
      BY <2>1, <1>2, <1>3
    <3> QED  BY <3>1, <1>10
  <2>2. CASE x \in old /\ \A y \in xs : Key(y) # Key(x)
    <3> SUFFICES ASSUME x \notin new  PROVE FALSE
      OBVIOUS
    <3>1. x \notin Deletions(new, old)
      BY <2>2, <1>1, <1>2
    <3>2. PICK n \in new : n.uuid = x.uuid
      BY <3>1, <2>2 DEF Deletions, Uuids
    <3>3. n.name = x.name
      BY SMT, <3>2, <2>2, ScanAssumption
    <3>4. n \notin old
      BY <3>2, <3>3, <2>2, <1>6
    <3>5. n \in xs
      BY <3>4, <1>1 DEF Upserts
    <3> QED  BY <3>2, <3>3, <3>5, <2>2, <1>6
  <2> QED  BY <2>1, <2>2 DEF Upserted
<1>11. \A x \in Upserted(old, xs) : x.name \in Targets /\ x.uuid = Backing[x.name]
  BY <1>7 DEF Upserted
<1>12. \A x, y \in Upserted(old, xs) : Key(x) = Key(y) => x = y
  BY <1>8 DEF Upserted
<1> QED  BY <1>9, <1>10, <1>11, <1>12

(* There are no rows at the start.                                         *)
LEMMA InitScan == ScanInit => ScanInv
  BY DEF ScanInit, ScanInv, RowsAreKeyed, RowsFollowReports

(* The step that writes the rows.  What it finds depends on managed, which *)
(* the statement leaves alone.                                             *)
LEMMA WrittenRows ==
  ASSUME RowsAreKeyed, UpdateTargets
  PROVE  /\ \A t \in Targets : Claims(mounts', t) # {} =>
              \E x \in targetRows' : x.name = t /\ x.state = "mounted"
         /\ \A x \in targetRows' : x.state = "mounted" =>
              x.active \in Claims(mounts', x.name) /\ x.hosts = HostsOfRow(trees', x)
         /\ \A x \in targetRows' : x.name \in Targets /\ x.uuid = Backing[x.name]
         /\ \A x, y \in targetRows' : Key(x) = Key(y) => x = y
<1>1. PICK new \in FindTargets(trees', mounts', mgsFses') :
        \E xs \in BuildUpdates(new, targetRows) : targetRows' = Upserted(targetRows, xs)
  BY DEF UpdateTargets
<1>2. PICK xs \in BuildUpdates(new, targetRows) : targetRows' = Upserted(targetRows, xs)
  BY <1>1
<1>3. /\ \A x \in new : /\ x.name \in Targets /\ x.uuid = Backing[x.name]
                        /\ x.state = "mounted" /\ x.active \in Claims(mounts', x.name)
                        /\ x.hosts = HostsOfRow(trees', x)
      /\ \A x, y \in new : x.name = y.name => x = y
      /\ \A t \in Targets : Claims(mounts', t) # {} => \E x \in new : x.name = t
  BY SMT, FoundTargets
<1>4. /\ new \subseteq targetRows'
      /\ \A x \in targetRows' : x.state = "mounted" => x \in new
      /\ \A x \in targetRows' : x.name \in Targets /\ x.uuid = Backing[x.name]
      /\ \A x, y \in targetRows' : Key(x) = Key(y) => x = y
  BY SMT, <1>2, <1>3, UpsertedRows DEF RowsAreKeyed
<1> QED  BY <1>3, <1>4

(* update_targets leaves rows that are keyed and follow the caches.        *)
LEMMA WritesRows ==
  ASSUME RowsAreKeyed, UpdateTargets
  PROVE  ScanInv'
<1>1. RowsAreKeyed'
  BY WrittenRows DEF RowsAreKeyed, Key
<1>2. \A t : Claims(mounts, t)' = Claims(mounts', t)
  BY DEF UpdateTargets, Claims
<1>3. \A t, h : h \in Claims(mounts', t) => h \in DOMAIN mounts' /\ t \in mounts'[h]
  BY DEF Claims
<1>4. RowsFollowReports'
  BY WrittenRows, <1>2, <1>3 DEF RowsFollowReports
<1> QED  BY <1>1, <1>4 DEF ScanInv

(* Every other step keeps rows and mounts, or forgets all mounts.          *)
LEMMA KeepsRows ==
  ASSUME ScanInv, UNCHANGED targetRows,
         \/ UNCHANGED mounts /\ managed' \subseteq managed
         \/ mounts' = Nothing
  PROVE  ScanInv'
<1>1. RowsAreKeyed'
  BY DEF ScanInv, RowsAreKeyed, Key
<1>2. CASE mounts' = Nothing
  BY <1>1, <1>2 DEF ScanInv, RowsFollowReports, Nothing
<1>3. CASE UNCHANGED mounts /\ managed' \subseteq managed
  <2>1. \A t : Claims(mounts, t)' \subseteq Claims(mounts, t)
    BY <1>3 DEF Claims
  <2>2. RowsFollowReports'
    BY <1>3, <2>1 DEF ScanInv, RowsFollowReports, Nothing
  <2> QED  BY <1>1, <2>2 DEF ScanInv
<1> QED  BY <1>2, <1>3

(* The other steps leave rows and mounts alone, or forget all mounts.      *)
LEMMA ScanStepKeepsInv ==
  ASSUME ScanInv, [ScanNext]_scanVars
  PROVE  ScanInv'
<1> USE KeepsRows
<1>1. CASE HostChange
  BY <1>1 DEF HostChange, ElsewhereUnchanged, rowVars, cacheVars
<1>2. CASE \E h \in Hosts : RemoveHost(h)
  BY <1>2 DEF RemoveHost, rowVars, cacheVars
<1>3. CASE \E h \in Hosts : AgentStep(h)
  BY <1>3 DEF AgentStep, DeviceScanner, StartSession, UpdateSession, ElsewhereUnchanged,
              rowVars, cacheVars
<1>4. CASE \E h \in Hosts : SessionEnds(h)
  BY <1>4 DEF SessionEnds, ElsewhereUnchanged, rowVars, cacheVars
<1>5. CASE ScanRestart
  BY <1>5 DEF ScanRestart, rowVars
<1>6. CASE UpdateTargets
  BY <1>6, WritesRows DEF ScanInv
<1>7. CASE UpdateDevices
  BY <1>7 DEF UpdateDevices, cacheVars
<1>8. CASE UpdateClientMounts
  BY <1>8 DEF UpdateClientMounts, cacheVars
<1>9. CASE UpdateManagedTargets
  BY <1>9 DEF UpdateManagedTargets, cacheVars
<1>10. CASE UpdateManagedFilesystems
  BY <1>10 DEF UpdateManagedFilesystems, cacheVars
<1>11. CASE UNCHANGED scanVars
  BY <1>11 DEF scanVars, rowVars, cacheVars
<1> QED
  BY <1>1, <1>2, <1>3, <1>4, <1>5, <1>6, <1>7, <1>8, <1>9, <1>10, <1>11
  DEF ScanNext, ScanStep, ScanFault

(* update_targets keeps the table target in step with mount_cache: through *)
(* lost reports, removed hosts and restarts, a target that a known host    *)
(* reports is mounted, and a mounted row names a host that reports it.     *)
THEOREM RowsAreReported == ScanSpec => []RowsFollowReports
<1>1. ScanInv => RowsFollowReports
  BY DEF ScanInv
<1> QED  BY InitScan, ScanStepKeepsInv, <1>1, PTL DEF ScanSpec

-----------------------------------------------------------------------------
(* The device index of any site.                                           *)

(* The last device of a path, and the one before it.                       *)
LEMMA EndsOfPaths ==
  ASSUME NEW a, NEW b, NEW c, NEW d
  PROVE  LET Back(p) == SubSeq(p, 1, Len(p) - 1)
             Last(p) == p[Len(p)]
         IN  /\ Last(<<a>>) = a /\ Back(<<a>>) = <<>>
             /\ Last(<<a, b>>) = b /\ Back(<<a, b>>) # <<>> /\ Last(Back(<<a, b>>)) = a
             /\ Last(<<a, b, c>>) = c /\ Back(<<a, b, c>>) # <<>> /\ Last(Back(<<a, b, c>>)) = b
             /\ Last(<<a, b, c, d>>) = d /\ Back(<<a, b, c, d>>) # <<>>
             /\ Last(Back(<<a, b, c, d>>)) = c
  BY SMT

(* The four kinds of paths of a tree.                                      *)
LEMMA PathsOfTree ==
  ASSUME NEW h \in Hosts, NEW pools \in SUBSET Pools
  PROVE  \A q : q \in TreeOf(h, pools) <=>
           \/ q = <<Root>>
           \/ \E d \in Sees[h] : q = <<Root, <<"disk", d>>>>
           \/ \E p \in pools : \E d \in PoolDisks[p] :
                \/ q = <<Root, <<"disk", d>>, <<"zpool", p>>>>
                \/ q = <<Root, <<"disk", d>>, <<"zpool", p>>, <<"dataset", p>>>>
<1> DEFINE disk == {<<Root, <<"disk", d>>>> : d \in Sees[h]}
           pool(p) == {<<Root, <<"disk", d>>, <<"zpool", p>>>> : d \in PoolDisks[p]}
           volume(p) ==
             {<<Root, <<"disk", d>>, <<"zpool", p>>, <<"dataset", p>>>> : d \in PoolDisks[p]}
<1>1. \A q : q \in disk <=> \E d \in Sees[h] : q = <<Root, <<"disk", d>>>>
  OBVIOUS
<1>2. \A p, q : q \in pool(p) <=>
        \E d \in PoolDisks[p] : q = <<Root, <<"disk", d>>, <<"zpool", p>>>>
  OBVIOUS
<1>3. \A p, q : q \in volume(p) <=>
        \E d \in PoolDisks[p] : q = <<Root, <<"disk", d>>, <<"zpool", p>>, <<"dataset", p>>>>
  OBVIOUS
<1> DEFINE ps == UNION {pool(p) : p \in pools}
           vs == UNION {volume(p) : p \in pools}
<1>4. TreeOf(h, pools) = {<<Root>>} \cup disk \cup ps \cup vs
  BY DEF TreeOf
<1> HIDE DEF pool, volume, disk
<1>5. \A q : (q \in ps <=> \E p \in pools : q \in pool(p))
            /\ (q \in vs <=> \E p \in pools : q \in volume(p))
  OBVIOUS
<1> HIDE DEF ps, vs
<1>6. \A q : q \in TreeOf(h, pools) <=> q = <<Root>> \/ q \in disk \/ q \in ps \/ q \in vs
  BY <1>4
<1> QED  BY SMT, <1>1, <1>2, <1>3, <1>5, <1>6

(* The devices of a tree: the disks seen, and the pools imported with      *)
(* their datasets.                                                         *)
LEMMA DevicesOfTree ==
  ASSUME NEW h \in Hosts, NEW pools \in SUBSET Pools
  PROVE  \A x : x \in DOMAIN BuildDeviceMap(TreeOf(h, pools)) <=>
           \/ x = Root
           \/ \E d \in Sees[h] : x = <<"disk", d>>
           \/ \E p \in pools : x = <<"zpool", p>> \/ x = <<"dataset", p>>
<1> DEFINE tree == TreeOf(h, pools)
<1>1. DOMAIN BuildDeviceMap(tree) = Lasts(tree)
  BY DEF BuildDeviceMap
<1>2. \A q \in tree : q # <<>>
  BY SMT, PathsOfTree
<1>3. \A x : x \in Lasts(tree) <=> \E q \in tree : x = q[Len(q)]
  BY <1>2 DEF Lasts
<1>4. \A p \in pools : PoolDisks[p] # {}
  BY ScanAssumption
<1>5. ASSUME NEW x  PROVE (\E q \in tree : x = q[Len(q)]) <=>
           \/ x = Root
           \/ \E d \in Sees[h] : x = <<"disk", d>>
           \/ \E p \in pools : x = <<"zpool", p>> \/ x = <<"dataset", p>>
  <2> HIDE DEF tree
  <2>1. /\ <<Root>> \in tree
        /\ \A d \in Sees[h] : <<Root, <<"disk", d>>>> \in tree
        /\ \A p \in pools : \A d \in PoolDisks[p] :
             /\ <<Root, <<"disk", d>>, <<"zpool", p>>>> \in tree
             /\ <<Root, <<"disk", d>>, <<"zpool", p>>, <<"dataset", p>>>> \in tree
    BY PathsOfTree DEF tree
  <2>2. ASSUME NEW q \in tree, x = q[Len(q)]
        PROVE \/ x = Root
              \/ \E d \in Sees[h] : x = <<"disk", d>>
              \/ \E p \in pools : x = <<"zpool", p>> \/ x = <<"dataset", p>>
    <3>1. CASE q = <<Root>>
      BY <2>2, <3>1, EndsOfPaths
    <3>2. ASSUME NEW d \in Sees[h], q = <<Root, <<"disk", d>>>>  PROVE x = <<"disk", d>>
      BY <2>2, <3>2, EndsOfPaths
    <3>3. ASSUME NEW p \in pools, NEW d \in PoolDisks[p],
                 q = <<Root, <<"disk", d>>, <<"zpool", p>>>>
          PROVE  x = <<"zpool", p>>
      BY <2>2, <3>3, EndsOfPaths
    <3>4. ASSUME NEW p \in pools, NEW d \in PoolDisks[p],
                 q = <<Root, <<"disk", d>>, <<"zpool", p>>, <<"dataset", p>>>>
          PROVE  x = <<"dataset", p>>
      BY <2>2, <3>4, EndsOfPaths
    <3>5. \/ q = <<Root>> \/ \E d \in Sees[h] : q = <<Root, <<"disk", d>>>>
          \/ \E p \in pools : \E d \in PoolDisks[p] :
               \/ q = <<Root, <<"disk", d>>, <<"zpool", p>>>>
               \/ q = <<Root, <<"disk", d>>, <<"zpool", p>>, <<"dataset", p>>>>
      BY SMT, PathsOfTree DEF tree
    <3> QED  BY <3>1, <3>2, <3>3, <3>4, <3>5
  <2>3. x = Root => \E q \in tree : x = q[Len(q)]
    BY <2>1, EndsOfPaths
  <2>4. (\E d \in Sees[h] : x = <<"disk", d>>) => \E q \in tree : x = q[Len(q)]
    BY <2>1, EndsOfPaths
  <2>5. (\E p \in pools : x = <<"zpool", p>> \/ x = <<"dataset", p>>)
          => \E q \in tree : x = q[Len(q)]
    <3> SUFFICES ASSUME NEW p \in pools, x = <<"zpool", p>> \/ x = <<"dataset", p>>
                 PROVE  \E q \in tree : x = q[Len(q)]
      OBVIOUS
    <3>1. PICK d : d \in PoolDisks[p]
      BY <1>4
    <3>2. CASE x = <<"zpool", p>>
      <4> DEFINE q == <<Root, <<"disk", d>>, <<"zpool", p>>>>
      <4>1. q \in tree /\ q[Len(q)] = <<"zpool", p>>
        BY <2>1, <3>1, EndsOfPaths
      <4> HIDE DEF q
      <4> QED  BY <3>2, <4>1
    <3>3. CASE x = <<"dataset", p>>
      <4> DEFINE q == <<Root, <<"disk", d>>, <<"zpool", p>>, <<"dataset", p>>>>
      <4>1. q \in tree /\ q[Len(q)] = <<"dataset", p>>
        BY <2>1, <3>1, EndsOfPaths
      <4> HIDE DEF q
      <4> QED  BY <3>3, <4>1
    <3> QED  BY <3>2, <3>3
  <2>6. (\E q \in tree : x = q[Len(q)]) =>
           \/ x = Root
           \/ \E d \in Sees[h] : x = <<"disk", d>>
           \/ \E p \in pools : x = <<"zpool", p>> \/ x = <<"dataset", p>>
    BY <2>2
  <2> QED  BY <2>3, <2>4, <2>5, <2>6
<1> QED  BY <1>1, <1>3, <1>5

(* The parents of a pool are its disks, that of a dataset is its pool.     *)
LEMMA ParentsInTree ==
  ASSUME NEW h \in Hosts, NEW pools \in SUBSET Pools, NEW p \in pools
  PROVE  LET map == BuildDeviceMap(TreeOf(h, pools))
         IN  /\ Lasts(map[<<"zpool", p>>]) = {<<"disk", d>> : d \in PoolDisks[p]}
             /\ Lasts(map[<<"dataset", p>>]) = {<<"zpool", p>>}
<1> DEFINE tree == TreeOf(h, pools)
           map == BuildDeviceMap(tree)
           Back(q) == SubSeq(q, 1, Len(q) - 1)
<1>1. \A id \in DOMAIN map : map[id] = {Back(q) : q \in {q \in tree : q[Len(q)] = id}}
  BY DEF BuildDeviceMap
<1>2. <<"zpool", p>> \in DOMAIN map /\ <<"dataset", p>> \in DOMAIN map
  BY DevicesOfTree
<1> HIDE DEF map
<1>3. \A id \in DOMAIN map : \A x : x \in Lasts(map[id]) <=>
        \E q \in tree : q[Len(q)] = id /\ Back(q) # <<>> /\ x = Back(q)[Len(Back(q))]
  BY <1>1 DEF Lasts
<1> HIDE DEF tree, Back
<1>4. PoolDisks[p] # {}
  BY ScanAssumption
<1>5. ASSUME NEW q \in tree, q[Len(q)] \in {<<"zpool", p>>, <<"dataset", p>>}
      PROVE  \E d \in PoolDisks[p] :
               \/ q = <<Root, <<"disk", d>>, <<"zpool", p>>>> /\ q[Len(q)] = <<"zpool", p>>
               \/ /\ q = <<Root, <<"disk", d>>, <<"zpool", p>>, <<"dataset", p>>>>
                  /\ q[Len(q)] = <<"dataset", p>>
  <2>1. q # <<Root>>
    <3>1. Len(<<"root">>) = 1 /\ \A a, b : Len(<<a, b>>) = 2
      OBVIOUS
    <3>2. q = <<Root>> => q[Len(q)] = <<"root">>
      BY SMT, EndsOfPaths DEF Root
    <3> QED  BY SMT, <1>5, <3>1, <3>2
  <2>2. \A d \in Sees[h] : q # <<Root, <<"disk", d>>>>
    BY SMTT(30), <1>5, EndsOfPaths
  <2>3. ASSUME NEW r \in pools, NEW d \in PoolDisks[r], q = <<Root, <<"disk", d>>, <<"zpool", r>>>>
        PROVE  r = p /\ q[Len(q)] = <<"zpool", p>>
    <3>1. q[Len(q)] = <<"zpool", r>>
      BY <2>3, EndsOfPaths
    <3> QED  BY SMT, <3>1, <1>5
  <2>4. ASSUME NEW r \in pools, NEW d \in PoolDisks[r],
               q = <<Root, <<"disk", d>>, <<"zpool", r>>, <<"dataset", r>>>>
        PROVE  r = p /\ q[Len(q)] = <<"dataset", p>>
    <3>1. q[Len(q)] = <<"dataset", r>>
      BY <2>4, EndsOfPaths
    <3> QED  BY SMT, <3>1, <1>5
  <2>5. \E r \in pools : \E d \in PoolDisks[r] :
          \/ q = <<Root, <<"disk", d>>, <<"zpool", r>>>>
          \/ q = <<Root, <<"disk", d>>, <<"zpool", r>>, <<"dataset", r>>>>
    BY SMT, <2>1, <2>2, PathsOfTree DEF tree
  <2> QED  BY <2>3, <2>4, <2>5
<1>7. \A d \in PoolDisks[p] :
        /\ <<Root, <<"disk", d>>, <<"zpool", p>>>> \in tree
        /\ <<Root, <<"disk", d>>, <<"zpool", p>>, <<"dataset", p>>>> \in tree
  BY PathsOfTree DEF tree
<1>8. \A d : LET q == <<Root, <<"disk", d>>, <<"zpool", p>>>>
                 r == <<Root, <<"disk", d>>, <<"zpool", p>>, <<"dataset", p>>>>
             IN  /\ q[Len(q)] = <<"zpool", p>> /\ Back(q) # <<>>
                 /\ Back(q)[Len(Back(q))] = <<"disk", d>>
                 /\ r[Len(r)] = <<"dataset", p>> /\ Back(r) # <<>>
                 /\ Back(r)[Len(Back(r))] = <<"zpool", p>>
  BY SMT, EndsOfPaths DEF Back
<1>9. Lasts(map[<<"zpool", p>>]) = {<<"disk", d>> : d \in PoolDisks[p]}
  <2>1. \A x : x \in Lasts(map[<<"zpool", p>>]) <=> \E d \in PoolDisks[p] : x = <<"disk", d>>
    <3>1. ASSUME NEW x \in Lasts(map[<<"zpool", p>>])
          PROVE  \E d \in PoolDisks[p] : x = <<"disk", d>>
      <4>1. PICK q \in tree : q[Len(q)] = <<"zpool", p>> /\ x = Back(q)[Len(Back(q))]
        BY SMT, <1>2, <1>3, <3>1
      <4>2. PICK d \in PoolDisks[p] : q = <<Root, <<"disk", d>>, <<"zpool", p>>>>
        BY SMT, <4>1, <1>5
      <4> QED  BY <4>1, <4>2, <1>8
    <3>2. ASSUME NEW d \in PoolDisks[p]  PROVE <<"disk", d>> \in Lasts(map[<<"zpool", p>>])
      <4> DEFINE q == <<Root, <<"disk", d>>, <<"zpool", p>>>>
      <4>1. /\ q \in tree /\ q[Len(q)] = <<"zpool", p>> /\ Back(q) # <<>>
            /\ <<"disk", d>> = Back(q)[Len(Back(q))]
        BY <1>7, <1>8
      <4> HIDE DEF q
      <4> QED  BY <4>1, <1>2, <1>3
    <3> QED  BY <3>1, <3>2
  <2> QED  BY <2>1
<1>10. Lasts(map[<<"dataset", p>>]) = {<<"zpool", p>>}
  <2>1. \A x : x \in Lasts(map[<<"dataset", p>>]) <=> x = <<"zpool", p>>
    <3>1. ASSUME NEW x \in Lasts(map[<<"dataset", p>>])  PROVE x = <<"zpool", p>>
      <4>1. PICK q \in tree : q[Len(q)] = <<"dataset", p>> /\ x = Back(q)[Len(Back(q))]
        BY SMT, <1>2, <1>3, <3>1
      <4>2. PICK d \in PoolDisks[p] :
              q = <<Root, <<"disk", d>>, <<"zpool", p>>, <<"dataset", p>>>>
        BY SMT, <4>1, <1>5
      <4> QED  BY <4>1, <4>2, <1>8
    <3>2. <<"zpool", p>> \in Lasts(map[<<"dataset", p>>])
      <4>1. PICK d : d \in PoolDisks[p]
        BY <1>4
      <4> DEFINE q == <<Root, <<"disk", d>>, <<"zpool", p>>, <<"dataset", p>>>>
      <4>2. /\ q \in tree /\ q[Len(q)] = <<"dataset", p>> /\ Back(q) # <<>>
            /\ <<"zpool", p>> = Back(q)[Len(Back(q))]
        BY <4>1, <1>7, <1>8
      <4> HIDE DEF q
      <4> QED  BY <4>2, <1>2, <1>3
    <3> QED  BY <3>1, <3>2
  <2> QED  BY <2>1
<1> QED  BY <1>9, <1>10 DEF map, tree

(* What a host gets from the tree of another: pools and volumes of which   *)
(* it has all disks, and nothing else.                                     *)
LEMMA SharedDevices ==
  ASSUME NEW h \in Hosts, NEW k \in Hosts, NEW hp \in SUBSET Pools, NEW kp \in SUBSET Pools
  PROVE  \A x : x \in AddSharedStorage(BuildDeviceMap(TreeOf(k, kp)), BuildDeviceMap(TreeOf(h, hp)))
           <=> \E p \in kp : PoolDisks[p] \subseteq Sees[h] /\ x \in {<<"dataset", p>>, <<"zpool", p>>}
<1> DEFINE map == BuildDeviceMap(TreeOf(k, kp))
           other == BuildDeviceMap(TreeOf(h, hp))
           present == {x \in DOMAIN map : Lasts(map[x]) \subseteq DOMAIN other}
<1>1. \A x : x \in DOMAIN map <=>
        \/ x = <<"root">>
        \/ \E d \in Sees[k] : x = <<"disk", d>>
        \/ \E p \in kp : x = <<"zpool", p>> \/ x = <<"dataset", p>>
  BY DevicesOfTree DEF Root
<1>2. \A p \in kp : <<"zpool", p>> \in present <=> PoolDisks[p] \subseteq Sees[h]
  <2> SUFFICES ASSUME NEW p \in kp
               PROVE  <<"zpool", p>> \in present <=> PoolDisks[p] \subseteq Sees[h]
    OBVIOUS
  <2>1. Lasts(map[<<"zpool", p>>]) = {<<"disk", d>> : d \in PoolDisks[p]}
    BY ParentsInTree
  <2>2. \A d : <<"disk", d>> \in DOMAIN other <=> d \in Sees[h]
    <3>1. \A d : <<"disk", d>> # Root
      BY DEF Root
    <3>2. \A d, e : <<"disk", d>> = <<"disk", e>> => d = e
      OBVIOUS
    <3>3. \A d, e : <<"disk", d>> # <<"zpool", e>> /\ <<"disk", d>> # <<"dataset", e>>
      OBVIOUS
    <3> QED  BY SMT, <3>1, <3>2, <3>3, DevicesOfTree
  <2>3. <<"zpool", p>> \in DOMAIN map
    BY <1>1
  <2> HIDE DEF map, other
  <2> QED  BY <2>1, <2>2, <2>3
<1>3. \A id \in DOMAIN map : id[1] # "mdraid" /\ id[1] # "lv"
  BY SMT, <1>1
<1>4. \A id \in DOMAIN map : \A x :
        x \in GetSharedParent(map, id) <=>
          \E p \in kp : id = <<"dataset", p>> /\ x = <<"zpool", p>>
  <2> SUFFICES ASSUME NEW id \in DOMAIN map, NEW x
               PROVE  x \in GetSharedParent(map, id) <=>
                        \E p \in kp : id = <<"dataset", p>> /\ x = <<"zpool", p>>
    OBVIOUS
  <2>1. \A p \in kp : Lasts(map[<<"dataset", p>>]) = {<<"zpool", p>>}
    BY ParentsInTree
  <2> HIDE DEF map, other
  <2>2. id[1] = "dataset" <=> \E p \in kp : id = <<"dataset", p>>
    BY SMT, <1>1
  <2>3. id[1] \in DOMAIN SharedKinds <=> id[1] = "dataset"
    BY <1>3 DEF SharedKinds
  <2>4. SharedKinds["dataset"] = "zpool"
    BY DEF SharedKinds
  <2>5. \A p : <<"zpool", p>>[1] = "zpool"
    OBVIOUS
  <2> QED  BY <2>1, <2>2, <2>3, <2>4, <2>5 DEF GetSharedParent
<1>5. {id \in present : id[1] = "mdraid"} = {}
  BY <1>3
<1>6. \A x : x \in AddSharedStorage(map, other) <=>
        \E id \in DOMAIN map : \E y \in GetSharedParent(map, id) \cap present : x \in {id, y}
  <2> HIDE DEF map, other
  <2>1. AddSharedStorage(map, other) = SharedWith(map, present)
    BY <1>5 DEF AddSharedStorage
  <2> QED  BY SMT, <2>1 DEF SharedWith
<1>7. \A p \in kp : <<"dataset", p>> \in DOMAIN map
  BY <1>1
<1> HIDE DEF map, other, present
<1>8. ASSUME NEW x, x \in AddSharedStorage(map, other)
      PROVE  \E p \in kp : PoolDisks[p] \subseteq Sees[h] /\ x \in {<<"dataset", p>>, <<"zpool", p>>}
  BY SMT, <1>8, <1>2, <1>4, <1>6
<1>9. ASSUME NEW p \in kp, PoolDisks[p] \subseteq Sees[h], NEW x \in {<<"dataset", p>>, <<"zpool", p>>}
      PROVE  x \in AddSharedStorage(map, other)
  <2>1. <<"zpool", p>> \in GetSharedParent(map, <<"dataset", p>>) /\ <<"zpool", p>> \in present
    BY <1>9, <1>2, <1>4, <1>7
  <2> QED  BY <2>1, <1>6, <1>7
<1> QED  BY <1>8, <1>9 DEF map, other

(* Device caches: hosts, each with pools of which it has all disks.        *)
CanImport(h, pools) == pools \subseteq Pools /\ \A p \in pools : PoolDisks[p] \subseteq Sees[h]
DeviceCaches ==
  {ts \in UNION {[hs -> SUBSET Pools] : hs \in SUBSET Hosts} : \A h \in DOMAIN ts : CanImport(h, ts[h])}

(* A host is indexed under the device of a target exactly if it can mount  *)
(* it, once the pool of the target is in the tree of some host.            *)
LEMMA IndexedDevices ==
  ASSUME NEW ts \in DeviceCaches, NEW h \in DOMAIN ts, NEW t \in Targets,
         Backing[t] \in Pools => \E k \in DOMAIN ts : Backing[t] \in ts[k]
  PROVE  /\ DOMAIN DeviceIndex[ts] = DOMAIN ts
         /\ DeviceOf(t) \in DeviceIndex[ts][h] <=> CanMount(h, t)
<1> DEFINE Map(k) == BuildDeviceMap(TreeOf(k, ts[k]))
           Got(k) == AddSharedStorage(Map(k), Map(h))
           Could(k, x) == \E p \in ts[k] : /\ PoolDisks[p] \subseteq Sees[h]
                                         /\ x \in {<<"dataset", p>>, <<"zpool", p>>}
<1>1. /\ DOMAIN ts \subseteq Hosts /\ h \in Hosts
      /\ \A k \in DOMAIN ts : ts[k] \in SUBSET Pools /\ CanImport(k, ts[k])
  BY DEF DeviceCaches, CanImport
<1>2. DeviceIndex[ts] = BuildDeviceIndex(ts)
  BY DEF DeviceIndex, DeviceCaches
<1>3. /\ DOMAIN BuildDeviceIndex(ts) = DOMAIN ts
      /\ BuildDeviceIndex(ts)[h] = DOMAIN Map(h) \cup UNION {Got(k) : k \in DOMAIN ts \ {h}}
  BY DEF BuildDeviceIndex
<1>4. \A k \in DOMAIN ts : \A x : x \in Got(k) <=> Could(k, x)
  BY <1>1, SharedDevices
<1>5. \A x : x \in DOMAIN Map(h) <=>
        \/ x = <<"root">>
        \/ \E d \in Sees[h] : x = <<"disk", d>>
        \/ \E p \in ts[h] : x = <<"zpool", p>> \/ x = <<"dataset", p>>
  BY <1>1, DevicesOfTree DEF Root
<1> HIDE DEF Map, Got
<1>6. \A x : x \in DeviceIndex[ts][h] <=>
        x \in DOMAIN Map(h) \/ \E k \in DOMAIN ts \ {h} : Could(k, x)
  BY SMT, <1>2, <1>3, <1>4
<1>7. CASE Backing[t] \in Pools
  <2> DEFINE p == Backing[t]
  <2>1. DeviceOf(t) = <<"dataset", p>> /\ (CanMount(h, t) <=> PoolDisks[p] \subseteq Sees[h])
    BY <1>7 DEF DeviceOf, CanMount
  <2>2. <<"dataset", p>> \in DOMAIN Map(h) <=> p \in ts[h]
    BY SMT, <1>5
  <2>3. \A k : Could(k, <<"dataset", p>>) <=> p \in ts[k] /\ PoolDisks[p] \subseteq Sees[h]
    OBVIOUS
  <2>4. p \in ts[h] => PoolDisks[p] \subseteq Sees[h]
    BY <1>1 DEF CanImport
  <2> QED  BY <1>2, <1>3, <1>6, <1>7, <2>1, <2>2, <2>3, <2>4
<1>8. CASE Backing[t] \notin Pools
  <2> DEFINE d == Backing[t]
  <2>1. DeviceOf(t) = <<"disk", d>> /\ (CanMount(h, t) <=> d \in Sees[h])
    BY <1>8 DEF DeviceOf, CanMount
  <2>2. <<"disk", d>> \in DOMAIN Map(h) <=> d \in Sees[h]
    BY SMT, <1>5
  <2>3. \A k : ~Could(k, <<"disk", d>>)
    OBVIOUS
  <2> QED  BY <1>2, <1>3, <1>6, <2>1, <2>2, <2>3
<1> QED  BY <1>7, <1>8

(* Reports a host can send, and what the process keeps of them: mounts of  *)
(* a host go with a device tree that has their pools.                      *)
Sound(h, pools, ts) ==
  /\ CanImport(h, pools) /\ ts \subseteq Targets
  /\ \A t \in ts : CanMount(h, t) /\ (Backing[t] \in Pools => Backing[t] \in pools)
Seen == [pools : SUBSET Pools, mounts : SUBSET Targets, clients : SUBSET Filesystems]
Reports ==
  {r \in [host : Hosts, seen : Seen, fses : SUBSET Filesystems] :
     Sound(r.host, r.seen.pools, r.seen.mounts)}

PlaceInv ==
  /\ place \in [Targets -> Hosts \cup {NoServer}]
  /\ \A t \in Targets : place[t] # NoServer => CanMount(place[t], t)
HostInv ==
  /\ PlaceInv /\ registered \subseteq Filesystems
  /\ scanned \in [Hosts -> Seen]
  /\ \A h \in Hosts : Sound(h, scanned[h].pools, scanned[h].mounts)
  /\ reports \in Seq(Reports)
ProcessInv ==
  /\ handling.at \in {"clients", "targets"} => handling \in [at : {"clients", "targets"}, report : Reports]
  /\ deviceRows \in DeviceCaches /\ trees \in DeviceCaches
  /\ DOMAIN mounts \subseteq DOMAIN trees
  /\ \A h \in DOMAIN mounts : Sound(h, trees[h], mounts[h])
IndexInv == ScanInv /\ HostInv /\ ProcessInv /\ HostsShareDisks

(* A host has imported the pools of the targets it mounts.                 *)
LEMMA VisibleIsSound ==
  ASSUME PlaceInv, NEW h \in Hosts
  PROVE  Visible(h) \in Seen /\ Sound(h, Visible(h).pools, Visible(h).mounts)
<1>1. Visible(h) \in Seen
  BY DEF Visible, Seen
<1>2. /\ \A p \in Visible(h).pools : p \in Pools /\ \E t \in Targets : Backing[t] = p /\ place[t] = h
      /\ \A t \in Visible(h).mounts : t \in Targets /\ place[t] = h
      /\ \A t \in Targets : Backing[t] \in Pools /\ place[t] = h => Backing[t] \in Visible(h).pools
  BY DEF Visible
<1>3. \A t \in Targets : place[t] = h => CanMount(h, t)
  BY ScanAssumption DEF PlaceInv
<1>4. CanImport(h, Visible(h).pools)
  BY SMT, <1>2, <1>3 DEF CanImport, CanMount
<1> QED  BY <1>1, <1>2, <1>3, <1>4 DEF Sound

(* Nothing is cached at the start.                                         *)
LEMMA InitIndex == ScanInit => IndexInv
<1> SUFFICES ASSUME ScanInit  PROVE IndexInv
  OBVIOUS
<1>1. DOMAIN Nothing = {} /\ Nothing \in [{} -> SUBSET Pools]
  BY SMT DEF Nothing
<1>2. Nothing \in DeviceCaches
  BY <1>1 DEF DeviceCaches
<1>3. PlaceInv
  BY DEF ScanInit, PlaceInv
<1>4. HostInv
  BY SMT, <1>3, VisibleIsSound DEF ScanInit, HostInv
<1>5. ProcessInv
  BY <1>1, <1>2 DEF ScanInit, ProcessInv, Waiting
<1>6. ScanInv /\ HostsShareDisks
  BY InitScan DEF ScanInit, HostsShareDisks
<1> QED  BY <1>4, <1>5, <1>6 DEF IndexInv

(* The hosts, and the queue they fill and the process empties.             *)
LEMMA HostsStaySound ==
  ASSUME HostInv, [ScanNext]_scanVars
  PROVE  HostInv'
<1> USE DEF HostInv
<1>1. CASE UNCHANGED <<place, registered, scanned, reports>>
  BY <1>1 DEF PlaceInv, CanMount, Sound, CanImport
<1>2. ASSUME NEW h \in Hosts, Post(h), UNCHANGED <<place, registered, scanned>>  PROVE HostInv'
  <2>1. [host |-> h, seen |-> scanned[h], fses |-> IF place[Mgs] = h THEN registered ELSE {}]
          \in Reports
    BY <1>2 DEF Reports
  <2>2. reports' \in Seq(Reports)
    BY SMT, <1>2, <2>1 DEF Post
  <2> QED  BY <1>2, <2>2 DEF PlaceInv
<1>3. CASE HostChange
  <2>1. PlaceInv'
    <3>1. CASE UNCHANGED place
      BY <3>1 DEF PlaceInv
    <3>2. ASSUME NEW t \in Targets, NEW h \in Hosts \cup {NoServer}, MoveTarget(t, h)
          PROVE  PlaceInv'
      BY <3>2 DEF PlaceInv, MoveTarget
    <3> QED  BY <1>3, <3>1, <3>2 DEF HostChange, Register, MountClient
  <2>2. (registered \subseteq Filesystems)'
    BY <1>3 DEF HostChange, MoveTarget, Register, MountClient
  <2> QED  BY <1>3, <2>1, <2>2 DEF HostChange
<1>4. ASSUME NEW h \in Hosts, DeviceScanner(h)  PROVE HostInv'
  BY <1>4, VisibleIsSound DEF DeviceScanner, PlaceInv
<1>5. ASSUME NEW h \in Hosts, StartSession(h) \/ UpdateSession(h)  PROVE HostInv'
  BY <1>2, <1>5 DEF StartSession, UpdateSession
<1>6. CASE UpdateDevices
  <2>1. reports' \in Seq(Reports)
    BY SMT, <1>6 DEF UpdateDevices
  <2> QED  BY <1>6, <2>1 DEF UpdateDevices, hostVars, PlaceInv
<1>7. CASE ScanRestart
  <2>1. reports' \in Seq(Reports)
    BY SMT, <1>7 DEF ScanRestart
  <2> QED  BY <1>7, <2>1 DEF ScanRestart, hostVars, PlaceInv
<1>8. CASE UpdateClientMounts \/ UpdateTargets \/ UpdateManagedTargets \/ UpdateManagedFilesystems
  BY <1>1, <1>8 DEF UpdateClientMounts, UpdateTargets, UpdateManagedTargets,
                    UpdateManagedFilesystems, hostVars
<1>9. ASSUME NEW h \in Hosts, RemoveHost(h) \/ SessionEnds(h)  PROVE HostInv'
  BY <1>1, <1>9 DEF RemoveHost, SessionEnds
<1>10. CASE UNCHANGED scanVars
  BY <1>1, <1>10 DEF scanVars, hostVars
<1> QED
  BY <1>3, <1>4, <1>5, <1>6, <1>7, <1>8, <1>9, <1>10
  DEF ScanNext, ScanStep, AgentStep, ScanFault

(* Caches stay device caches when a sound report is put into them.         *)
LEMMA CachesWith ==
  ASSUME NEW ts \in DeviceCaches, NEW h \in Hosts, NEW pools, CanImport(h, pools)
  PROVE  With(ts, h, pools) \in DeviceCaches
<1>1. DOMAIN ts \subseteq Hosts /\ ts \in [DOMAIN ts -> SUBSET Pools]
  BY DEF DeviceCaches
<1>2. With(ts, h, pools) \in [DOMAIN ts \cup {h} -> SUBSET Pools]
  BY <1>1 DEF With, CanImport
<1>3. \A k \in DOMAIN ts \cup {h} : CanImport(k, With(ts, h, pools)[k])
  BY DEF With, DeviceCaches
<1>4. DOMAIN ts \cup {h} \in SUBSET Hosts
  BY <1>1
<1> QED  BY <1>2, <1>3, <1>4 DEF DeviceCaches

(* The rows written by a process with sound caches have the right hosts.   *)
LEMMA WritesHosts ==
  ASSUME IndexInv, UpdateTargets
  PROVE  ProcessInv' /\ HostsShareDisks'
<1> DEFINE r == handling.report
<1>1. r \in Reports
  BY DEF UpdateTargets, IndexInv, ProcessInv
<1>2. r.host \in Hosts /\ Sound(r.host, r.seen.pools, r.seen.mounts)
  BY <1>1 DEF Reports
<1>3. trees' = With(trees, r.host, r.seen.pools) /\ mounts' = With(mounts, r.host, r.seen.mounts)
  BY DEF UpdateTargets
<1>4. handling'.at = "managed" /\ UNCHANGED <<deviceRows, managed>>
  <2>1. \E xs : handling' = [at |-> "managed", updates |-> xs]
    BY DEF UpdateTargets
  <2>2. UNCHANGED <<deviceRows, managed>>
    BY DEF UpdateTargets
  <2> QED  BY SMT, <2>1, <2>2
<1> HIDE DEF r
<1>5. trees' \in DeviceCaches
  BY <1>2, <1>3, CachesWith DEF IndexInv, ProcessInv, Sound
<1>6. /\ DOMAIN mounts' \subseteq DOMAIN trees'
      /\ \A h \in DOMAIN mounts' : Sound(h, trees'[h], mounts'[h])
  BY <1>2, <1>3 DEF IndexInv, ProcessInv, With
<1>7. ProcessInv'
  BY <1>4, <1>5, <1>6 DEF IndexInv, ProcessInv, Sound, CanImport, CanMount
<1>8. ASSUME NEW x \in targetRows', x.state = "mounted", NEW h \in managed
      PROVE  h \in x.hosts <=> h \in DOMAIN trees' /\ CanMount(h, x.name)
  <2>1. /\ x.active \in DOMAIN mounts' /\ x.name \in mounts'[x.active] /\ x.name \in Targets
        /\ x.hosts = HostsOfRow(trees', x)
    BY <1>8, WrittenRows DEF IndexInv, ScanInv, Claims
  <2>2. /\ x.active \in DOMAIN trees' /\ CanMount(x.active, x.name)
        /\ Backing[x.name] \in Pools => \E k \in DOMAIN trees' : Backing[x.name] \in trees'[k]
    BY <2>1, <1>6 DEF Sound
  <2>3. /\ DOMAIN DeviceIndex[trees'] = DOMAIN trees'
        /\ \A k \in DOMAIN trees' : DeviceOf(x.name) \in DeviceIndex[trees'][k] <=> CanMount(k, x.name)
    BY <1>5, <2>1, <2>2, IndexedDevices
  <2> QED  BY <2>1, <2>2, <2>3 DEF HostsOfRow
<1>9. HostsShareDisks'
  BY SMT, <1>4, <1>8 DEF HostsShareDisks, CanMount
<1> QED  BY <1>7, <1>9

(* Every other step keeps rows and caches, or forgets all mounts.          *)
LEMMA KeepsHosts ==
  ASSUME ProcessInv, HostsShareDisks,
         UNCHANGED <<targetRows, deviceRows, handling, trees, mounts>>, managed' \subseteq managed
  PROVE  ProcessInv' /\ HostsShareDisks'
<1>1. ProcessInv'
  BY DEF ProcessInv, Sound, CanImport, CanMount
<1>2. HostsShareDisks'
  BY DEF HostsShareDisks, CanMount
<1> QED  BY <1>1, <1>2

(* Every step keeps the index right.                                       *)
LEMMA StepKeepsIndex ==
  ASSUME IndexInv, [ScanNext]_scanVars
  PROVE  IndexInv'
<1> USE DEF IndexInv
<1>1. HostInv'
  BY HostsStaySound
<1>2. ScanInv'
  BY ScanStepKeepsInv
<1>3. ProcessInv' /\ HostsShareDisks'
  <2>1. CASE HostChange
    BY <2>1, KeepsHosts DEF HostChange, ElsewhereUnchanged, rowVars, cacheVars
  <2>2. CASE \E h \in Hosts : RemoveHost(h)
    BY <2>2, KeepsHosts DEF RemoveHost, rowVars, cacheVars
  <2>3. CASE \E h \in Hosts : AgentStep(h) \/ SessionEnds(h)
    BY <2>3, KeepsHosts DEF AgentStep, DeviceScanner, StartSession, UpdateSession, SessionEnds,
                            ElsewhereUnchanged, rowVars, cacheVars
  <2>4. CASE UNCHANGED scanVars
    BY <2>4, KeepsHosts DEF scanVars, rowVars, cacheVars
  <2>5. CASE UpdateTargets
    BY <2>5, WritesHosts
  <2>6. CASE UpdateDevices
    <3>1. Head(reports) \in Reports
      <4>1. reports # <<>> /\ reports \in Seq(Reports)
        BY <2>6 DEF UpdateDevices, HostInv
      <4> HIDE DEF IndexInv
      <4> QED  BY SMT, <4>1
    <3>2. /\ Head(reports).host \in Hosts
          /\ CanImport(Head(reports).host, Head(reports).seen.pools)
      BY <3>1 DEF Reports, Sound
    <3>3. deviceRows' = With(deviceRows, Head(reports).host, Head(reports).seen.pools)
      BY <2>6 DEF UpdateDevices, With
    <3>4. deviceRows' \in DeviceCaches
      BY <3>2, <3>3, CachesWith DEF ProcessInv
    <3>5. handling' \in [at : {"clients", "targets"}, report : Reports]
      BY <2>6, <3>1 DEF UpdateDevices
    <3> QED  BY <2>6, <3>4, <3>5 DEF UpdateDevices, cacheVars, ProcessInv, HostsShareDisks
  <2>7. CASE UpdateClientMounts
    <3>1. handling' \in [at : {"clients", "targets"}, report : Reports]
      BY <2>7 DEF UpdateClientMounts, ProcessInv
    <3> QED  BY <2>7, <3>1 DEF UpdateClientMounts, cacheVars, ProcessInv, HostsShareDisks
  <2>8. CASE UpdateManagedTargets
    BY <2>8 DEF UpdateManagedTargets, cacheVars, ProcessInv, HostsShareDisks
  <2>9. CASE UpdateManagedFilesystems
    BY <2>9 DEF UpdateManagedFilesystems, Waiting, cacheVars, ProcessInv, HostsShareDisks
  <2>10. CASE ScanRestart
    <3>1. DOMAIN Nothing = {}
      BY SMT DEF Nothing
    <3> QED  BY <2>10, <3>1 DEF ScanRestart, Waiting, rowVars, ProcessInv, HostsShareDisks
  <2> QED
    BY <2>1, <2>2, <2>3, <2>4, <2>5, <2>6, <2>7, <2>8, <2>9, <2>10
    DEF ScanNext, ScanStep, ScanFault
<1> QED  BY <1>1, <1>2, <1>3

(* build_device_index and find_targets give a mounted target the hosts     *)
(* which can mount it, whatever disks and pools a site has, and although a *)
(* pool is in the tree of one host only.                                   *)
THEOREM HostsAreConnected == ScanSpec => []HostsShareDisks
<1>1. IndexInv => HostsShareDisks
  BY DEF IndexInv
<1> QED  BY InitIndex, StepKeepsIndex, <1>1, PTL DEF ScanSpec
-----------------------------------------------------------------------------
(* What the rows come to say.                                              *)

(* A host whose plugin has nothing to send and still sees changes.         *)
UpToDate(h) == session[h] = "open" /\ ~unsent[h]
Queued(h) == \E i \in DOMAIN reports : reports[i].host = h
InHand(h) == handling.at \in {"clients", "targets"} /\ handling.report.host = h
MountedClients(h) ==
  {f \in Filesystems : <<h, f>> \in DOMAIN clientRows /\ clientRows[<<h, f>>] = "mounted"}

(* Targets are mounted at hosts that are not deleted.                      *)
PluginInv ==
  /\ session = [h \in Hosts |-> session[h]] /\ unsent \in [Hosts -> BOOLEAN]
  /\ managed \subseteq Hosts
  /\ \A t \in Targets : place[t] # NoServer => place[t] \in managed

(* The last report of an up-to-date host is what it scanned last, wherever *)
(* that report is: queued, in the loop's hand, or in cache and rows.       *)
LastIsSeen ==
  \A h \in Hosts : UpToDate(h) =>
    \A i \in DOMAIN reports :
      (reports[i].host = h /\ \A k \in DOMAIN reports : reports[k].host = h => k <= i)
        => reports[i].seen = scanned[h]
HandIsSeen ==
  \A h \in Hosts : UpToDate(h) /\ ~Queued(h) /\ InHand(h) => handling.report.seen = scanned[h]
CacheIsSeen ==
  \A h \in Hosts :
    UpToDate(h) /\ ~Queued(h) /\ ~InHand(h) /\ h \in DOMAIN mounts => mounts[h] = scanned[h].mounts
ClientsAreSeen ==
  \A h \in managed :
    (/\ UpToDate(h) /\ ~Queued(h) /\ ~(InHand(h) /\ handling.at = "clients")
     /\ h \in DOMAIN mounts \/ InHand(h))
      => MountedClients(h) = scanned[h].clients

SeenInv == PluginInv /\ LastIsSeen /\ HandIsSeen /\ CacheIsSeen /\ ClientsAreSeen

(* No host is up to date at the start.                                     *)
LEMMA InitSeen == ScanInit => SeenInv
<1> SUFFICES ASSUME ScanInit PROVE SeenInv
  OBVIOUS
<1>1. \A h \in Hosts : ~UpToDate(h)
  BY DEF ScanInit, UpToDate
<1>2. managed = Hosts
  BY DEF ScanInit
<1>3. PluginInv
  BY DEF ScanInit, PluginInv
<1> QED
  BY <1>1, <1>2, <1>3 DEF SeenInv, LastIsSeen, HandIsSeen, CacheIsSeen, ClientsAreSeen

(* A step after which no more hosts are up to date and nothing has moved.  *)
LEMMA QuietSeen ==
  ASSUME SeenInv, PluginInv',
         UNCHANGED <<reports, mounts, clientRows>>,
         \A h \in Hosts : UpToDate(h)' => UpToDate(h) /\ scanned'[h] = scanned[h],
         managed' \subseteq managed,
         \/ handling' = handling
         \/ handling.at \notin {"clients", "targets"} /\ handling'.at \notin {"clients", "targets"}
  PROVE  SeenInv'
<1>1. \A h : (InHand(h)' <=> InHand(h)) /\ (Queued(h)' <=> Queued(h))
            /\ MountedClients(h)' = MountedClients(h)
  BY DEF InHand, Queued, MountedClients
<1>2. LastIsSeen'
  BY DEF SeenInv, LastIsSeen
<1>3. HandIsSeen'
  BY <1>1 DEF SeenInv, HandIsSeen, InHand
<1>4. CacheIsSeen'
  BY <1>1 DEF SeenInv, CacheIsSeen
<1>5. ClientsAreSeen'
  BY <1>1 DEF SeenInv, PluginInv, ClientsAreSeen, InHand
<1> QED
  BY <1>2, <1>3, <1>4, <1>5 DEF SeenInv

(* A report is queued behind all others.                                   *)
LEMMA PostSeen ==
  ASSUME HostInv, SeenInv, PluginInv', NEW h \in Hosts, Post(h),
         UNCHANGED <<scanned, mounts, clientRows, handling, managed>>,
         \A k \in Hosts : k # h => (UpToDate(k)' <=> UpToDate(k))
  PROVE  SeenInv'
<1> DEFINE n == Len(reports) + 1
<1> PICK r : r = [host |-> h, seen |-> scanned[h], fses |-> IF place[Mgs] = h THEN registered ELSE {}]
  OBVIOUS
<1>1. reports' = Append(reports, r) /\ r.host = h /\ r.seen = scanned[h] /\ reports \in Seq(Reports)
  BY DEF Post, HostInv
<1>2. /\ DOMAIN reports = 1..Len(reports) /\ Len(reports) \in Nat
      /\ DOMAIN reports' = 1..n /\ reports'[n] = r
      /\ \A i \in DOMAIN reports : reports'[i] = reports[i]
  BY SMT, <1>1
<1>3. DOMAIN reports' = DOMAIN reports \cup {n} /\ \A i \in DOMAIN reports : ~(n <= i)
  BY SMT, <1>2
<1> HIDE DEF n
<1>4. Queued(h)' /\ \A k : k # h => (Queued(k)' <=> Queued(k))
  BY <1>1, <1>2, <1>3 DEF Queued
<1>5. \A k : (InHand(k)' <=> InHand(k)) /\ MountedClients(k)' = MountedClients(k)
  BY DEF InHand, MountedClients
<1>6. LastIsSeen'
  <2> SUFFICES ASSUME NEW k \in Hosts, UpToDate(k)', NEW i \in DOMAIN reports', reports'[i].host = k,
                      \A j \in DOMAIN reports' : reports'[j].host = k => j <= i
               PROVE  reports'[i].seen = scanned[k]
    BY DEF LastIsSeen
  <2>1. CASE k = h
    <3>1. i = n
      BY <1>1, <1>2, <1>3, <2>1
    <3> QED
      BY <1>1, <1>2, <2>1, <3>1
  <2>2. CASE k # h
    <3>1. i \in DOMAIN reports /\ reports[i].host = k /\ reports'[i] = reports[i]
      BY <1>1, <1>2, <1>3, <2>2
    <3>2. \A j \in DOMAIN reports : reports[j].host = k => j <= i
      BY <1>2, <1>3
    <3> QED
      BY <2>2, <3>1, <3>2 DEF SeenInv, LastIsSeen
  <2> QED
    BY <2>1, <2>2
<1>7. HandIsSeen'
  BY <1>4, <1>5 DEF SeenInv, HandIsSeen, InHand
<1>8. CacheIsSeen'
  BY <1>4, <1>5 DEF SeenInv, CacheIsSeen
<1>9. ClientsAreSeen'
  BY <1>4, <1>5 DEF SeenInv, PluginInv, ClientsAreSeen, InHand
<1> QED
  BY <1>6, <1>7, <1>8, <1>9 DEF SeenInv

(* Reports that leave the queue leave it from the front.                   *)
LEMMA DroppedReports ==
  ASSUME HostInv, NEW n \in Nat, n <= Len(reports), reports' = SubSeq(reports, n + 1, Len(reports))
  PROVE  /\ \A i \in DOMAIN reports' : i + n \in DOMAIN reports /\ reports'[i] = reports[i + n]
         /\ \A k \in DOMAIN reports : k <= n \/ (k - n \in DOMAIN reports' /\ reports[k] = reports'[k - n])
         /\ DOMAIN reports \subseteq Nat /\ DOMAIN reports' \subseteq Nat
<1>1. reports \in Seq(Reports)
  BY DEF HostInv
<1>2. Len(reports) \in Nat /\ DOMAIN reports = 1..Len(reports)
  BY <1>1, SequenceDomain
<1>3. /\ DOMAIN reports' = 1..(Len(reports) - n)
      /\ \A i \in 1..(Len(reports) - n) : reports'[i] = reports[i + n]
  BY <1>1, SequenceLeft
<1>4. ASSUME NEW i \in DOMAIN reports' PROVE i + n \in DOMAIN reports /\ reports'[i] = reports[i + n]
  <2>1. i + n \in 1..Len(reports)
    BY SMT, <1>2, <1>3
  <2> QED
    BY <1>2, <1>3, <2>1
<1>5. ASSUME NEW k \in DOMAIN reports, ~(k <= n)
      PROVE  k - n \in DOMAIN reports' /\ reports[k] = reports'[k - n]
  <2>1. k - n \in 1..(Len(reports) - n) /\ (k - n) + n = k
    BY SMT, <1>2, <1>5
  <2> QED
    BY <1>3, <2>1
<1> QED
  BY SMT, <1>2, <1>3, <1>4, <1>5

(* The last report of a host that is left is still its last.               *)
LEMMA LastIsLeft ==
  ASSUME HostInv, LastIsSeen, NEW n \in Nat, n <= Len(reports),
         reports' = SubSeq(reports, n + 1, Len(reports)), UNCHANGED <<session, unsent, scanned>>
  PROVE  LastIsSeen'
<1>1. /\ \A i \in DOMAIN reports' : i + n \in DOMAIN reports /\ reports'[i] = reports[i + n]
      /\ \A k \in DOMAIN reports : k <= n \/ (k - n \in DOMAIN reports' /\ reports[k] = reports'[k - n])
      /\ DOMAIN reports \subseteq Nat /\ DOMAIN reports' \subseteq Nat
  BY DroppedReports
<1> SUFFICES ASSUME NEW h \in Hosts, UpToDate(h), NEW i \in DOMAIN reports', reports'[i].host = h,
                    \A k \in DOMAIN reports' : reports'[k].host = h => k <= i
             PROVE  reports'[i].seen = scanned[h]
  BY DEF LastIsSeen, UpToDate
<1>2. i + n \in DOMAIN reports /\ reports'[i] = reports[i + n] /\ i \in Nat
  BY <1>1
<1>3. ASSUME NEW k \in DOMAIN reports, reports[k].host = h PROVE k <= i + n
  <2>0. k \in Nat
    BY <1>1
  <2>1. CASE k <= n
    BY SMT, <1>2, <2>0, <2>1
  <2>2. CASE ~(k <= n)
    <3>1. k - n <= i
      BY <1>1, <1>3, <2>2
    <3> QED
      BY SMT, <1>2, <2>0, <3>1
  <2> QED
    BY <2>1, <2>2
<1> QED
  BY SMT, <1>2, <1>3 DEF LastIsSeen
(* The step that takes a report from the queue.                            *)
LEMMA TakenReports ==
  ASSUME HostInv, reports # <<>>, reports' = Tail(reports)
  PROVE  /\ reports' = SubSeq(reports, 2, Len(reports)) /\ 1 <= Len(reports)
         /\ 1 \in DOMAIN reports /\ Head(reports) = reports[1] /\ Head(reports) \in Reports
<1>1. reports \in Seq(Reports)
  BY DEF HostInv
<1> QED
  BY SMT, <1>1

(* The report taken is the last of its host, or another one is queued.     *)
LEMMA TakesReport ==
  ASSUME HostInv, SeenInv, PluginInv', UpdateDevices
  PROVE  SeenInv'
<1> PICK r : r = Head(reports)
  OBVIOUS
<1>1. /\ handling = Waiting /\ handling' = [at |-> "clients", report |-> r]
      /\ reports # <<>> /\ reports' = Tail(reports)
      /\ UNCHANGED <<scanned, session, unsent, managed, clientRows, mounts>>
  BY DEF UpdateDevices, hostVars, cacheVars
<1>2. /\ reports' = SubSeq(reports, 1 + 1, Len(reports)) /\ 1 <= Len(reports)
      /\ 1 \in DOMAIN reports /\ r = reports[1]
  BY SMT, <1>1, TakenReports
<1>3. /\ \A i \in DOMAIN reports' : i + 1 \in DOMAIN reports /\ reports'[i] = reports[i + 1]
      /\ \A k \in DOMAIN reports : k <= 1 \/ (k - 1 \in DOMAIN reports' /\ reports[k] = reports'[k - 1])
      /\ DOMAIN reports \subseteq Nat
  <2>1. 1 \in Nat
    BY SMT
  <2> QED
    BY <1>2, <2>1, DroppedReports
<1>4. \A h : InHand(h)' <=> h = r.host
  BY <1>1 DEF InHand
<1>5. \A h : ~InHand(h)
  BY <1>1 DEF InHand, Waiting
<1>6. \A h : UpToDate(h)' <=> UpToDate(h)
  BY <1>1 DEF UpToDate
<1>7. ASSUME NEW h, ~Queued(h)', Queued(h)
      PROVE  h = r.host /\ \A k \in DOMAIN reports : reports[k].host = h => k <= 1
  <2>1. \A k \in DOMAIN reports : reports[k].host = h => k <= 1
    BY <1>3, <1>7 DEF Queued
  <2>2. PICK k \in DOMAIN reports : reports[k].host = h
    BY <1>7 DEF Queued
  <2>3. k <= 1 /\ k \in 1..Len(reports)
    BY <2>1, <2>2, SequenceDomain DEF HostInv
  <2>4. Len(reports) \in Nat
    BY SequenceDomain DEF HostInv
  <2>5. k = 1
    BY SMT, <2>3, <2>4
  <2> QED
    BY <1>2, <2>1, <2>2, <2>5
<1>8. LastIsSeen'
  <2>1. 1 \in Nat
    BY SMT
  <2> QED
    BY <1>1, <1>2, <2>1, LastIsLeft DEF SeenInv
<1>9. HandIsSeen'
  <2> SUFFICES ASSUME NEW h \in Hosts, UpToDate(h), ~Queued(h)', h = r.host PROVE r.seen = scanned[h]
    BY <1>1, <1>4, <1>6 DEF HandIsSeen
  <2>1. Queued(h)
    BY <1>2 DEF Queued
  <2> QED
    BY <1>2, <1>7, <2>1 DEF SeenInv, LastIsSeen
<1>10. CacheIsSeen'
  BY <1>1, <1>4, <1>5, <1>6, <1>7 DEF SeenInv, CacheIsSeen
<1>11. ClientsAreSeen'
  <2>1. \A h : MountedClients(h)' = MountedClients(h)
    BY <1>1 DEF MountedClients
  <2>2. handling'.at = "clients"
    BY <1>1
  <2> QED
    BY <1>1, <1>4, <1>5, <1>6, <1>7, <2>1, <2>2 DEF SeenInv, ClientsAreSeen, PluginInv
<1> QED
  BY <1>8, <1>9, <1>10, <1>11 DEF SeenInv

(* The client mounts of the host reported become what it reported.         *)
LEMMA WritesClients ==
  ASSUME ProcessInv, SeenInv, PluginInv', UpdateClientMounts
  PROVE  SeenInv'
<1> PICK r : r = handling.report
  OBVIOUS
<1>1. /\ handling.at = "clients" /\ handling'.at = "targets" /\ handling'.report = r
      /\ r \in Reports
      /\ UNCHANGED <<scanned, session, unsent, managed, reports, mounts>>
  BY DEF UpdateClientMounts, hostVars, cacheVars, ProcessInv
<1>2. r.seen.clients \subseteq Filesystems
  BY <1>1 DEF Reports, Seen
<1>3. \A h : /\ (InHand(h)' <=> h = r.host) /\ (InHand(h) <=> h = r.host)
            /\ (UpToDate(h)' <=> UpToDate(h)) /\ (Queued(h)' <=> Queued(h))
  BY <1>1 DEF InHand, UpToDate, Queued
<1>4. r.host \in managed => MountedClients(r.host)' = r.seen.clients
  <2> SUFFICES ASSUME r.host \in managed PROVE MountedClients(r.host)' = r.seen.clients
    OBVIOUS
  <2> DEFINE old == {f \in Filesystems : <<r.host, f>> \in DOMAIN clientRows}
             mine == {<<r.host, f>> : f \in r.seen.clients \cup old}
  <2>1. clientRows' = [x \in DOMAIN clientRows \cup mine |->
                         IF x \notin mine THEN clientRows[x]
                         ELSE IF x[2] \in r.seen.clients THEN "mounted" ELSE "unmounted"]
    BY DEF UpdateClientMounts
  <2>2. \A f \in Filesystems : <<r.host, f>> \in DOMAIN clientRows' => <<r.host, f>> \in mine
    BY <2>1
  <2>3. \A f \in r.seen.clients : <<r.host, f>> \in mine
    OBVIOUS
  <2>4. \A f : <<r.host, f>>[2] = f
    OBVIOUS
  <2> HIDE DEF mine
  <2>5. \A x \in mine : x \in DOMAIN clientRows' /\ (clientRows'[x] = "mounted" <=> x[2] \in r.seen.clients)
    BY <2>1
  <2>6. ASSUME NEW f \in r.seen.clients PROVE f \in MountedClients(r.host)'
    BY <1>2, <2>3, <2>4, <2>5 DEF MountedClients
  <2>7. ASSUME NEW f \in MountedClients(r.host)' PROVE f \in r.seen.clients
    <3>1. <<r.host, f>> \in mine /\ clientRows'[<<r.host, f>>] = "mounted"
      BY <2>2, <2>7 DEF MountedClients
    <3> QED
      BY <2>4, <2>5, <3>1
  <2> QED
    BY <2>6, <2>7
<1>5. ASSUME NEW h, h # r.host PROVE MountedClients(h)' = MountedClients(h)
  <2>1. CASE r.host \notin managed
    BY <2>1 DEF UpdateClientMounts, MountedClients
  <2>2. CASE r.host \in managed
    <3> DEFINE old == {f \in Filesystems : <<r.host, f>> \in DOMAIN clientRows}
               mine == {<<r.host, f>> : f \in r.seen.clients \cup old}
    <3>1. clientRows' = [x \in DOMAIN clientRows \cup mine |->
                           IF x \notin mine THEN clientRows[x]
                           ELSE IF x[2] \in r.seen.clients THEN "mounted" ELSE "unmounted"]
      BY <2>2 DEF UpdateClientMounts
    <3>2. \A f : <<h, f>> \notin mine
      <4>1. \A f : <<r.host, f>>[1] = r.host /\ <<h, f>>[1] = h
        OBVIOUS
      <4>2. \A x \in mine : x[1] = r.host
        BY <4>1
      <4> QED
        BY <1>5, <4>1, <4>2
    <3> HIDE DEF mine
    <3> QED
      BY <3>1, <3>2 DEF MountedClients
  <2> QED
    BY <2>1, <2>2
<1>6. LastIsSeen'
  BY <1>1, <1>3 DEF SeenInv, LastIsSeen
<1>7. HandIsSeen'
  BY <1>1, <1>3 DEF SeenInv, HandIsSeen
<1>8. CacheIsSeen'
  BY <1>1, <1>3 DEF SeenInv, CacheIsSeen
<1>9. ClientsAreSeen'
  <2> SUFFICES ASSUME NEW h \in managed, UpToDate(h), ~Queued(h), h \in DOMAIN mounts \/ h = r.host
               PROVE  MountedClients(h)' = scanned[h].clients
    BY <1>1, <1>3 DEF ClientsAreSeen
  <2>1. CASE h = r.host
    BY <1>3, <1>4, <2>1 DEF SeenInv, HandIsSeen, PluginInv
  <2>2. CASE h # r.host
    BY <1>3, <1>5, <2>2 DEF SeenInv, ClientsAreSeen
  <2> QED
    BY <2>1, <2>2
<1> QED
  BY <1>6, <1>7, <1>8, <1>9 DEF SeenInv

(* The mounts of the host reported become what it reported.                *)
LEMMA CachesMounts ==
  ASSUME ProcessInv, SeenInv, PluginInv', UpdateTargets
  PROVE  SeenInv'
<1> PICK r : r = handling.report
  OBVIOUS
<1>1. /\ handling.at = "targets" /\ r \in Reports /\ mounts' = With(mounts, r.host, r.seen.mounts)
      /\ UNCHANGED <<scanned, session, unsent, managed, reports, clientRows>>
  BY DEF UpdateTargets, hostVars, ProcessInv
<1>2. handling'.at = "managed"
  <2>1. PICK xs : handling' = [at |-> "managed", updates |-> xs]
    BY DEF UpdateTargets
  <2> QED
    BY <2>1
<1>3. \A h : /\ ~InHand(h)' /\ (InHand(h) <=> h = r.host)
            /\ (UpToDate(h)' <=> UpToDate(h)) /\ (Queued(h)' <=> Queued(h))
            /\ MountedClients(h)' = MountedClients(h)
  BY <1>1, <1>2 DEF InHand, UpToDate, Queued, MountedClients
<1>4. /\ DOMAIN mounts' = DOMAIN mounts \cup {r.host} /\ mounts'[r.host] = r.seen.mounts
      /\ \A h \in DOMAIN mounts : h # r.host => mounts'[h] = mounts[h]
  BY <1>1 DEF With
<1>5. LastIsSeen'
  BY <1>1, <1>3 DEF SeenInv, LastIsSeen
<1>6. HandIsSeen'
  BY <1>3 DEF HandIsSeen
<1>7. CacheIsSeen'
  BY <1>1, <1>3, <1>4 DEF SeenInv, HandIsSeen, CacheIsSeen
<1>8. ClientsAreSeen'
  BY <1>1, <1>3, <1>4 DEF SeenInv, ClientsAreSeen
<1> QED
  BY <1>5, <1>6, <1>7, <1>8 DEF SeenInv

(* A restart forgets all mounts, and reports that were delivered.          *)
LEMMA ForgetsMounts ==
  ASSUME HostInv, SeenInv, PluginInv', ScanRestart
  PROVE  SeenInv'
<1>1. PICK n \in 0..Len(reports) : reports' = SubSeq(reports, n + 1, Len(reports))
  BY DEF ScanRestart
<1>2. n \in Nat /\ n <= Len(reports)
  BY SMT DEF HostInv
<1>3. LastIsSeen'
  BY <1>1, <1>2, LastIsLeft DEF SeenInv, ScanRestart, hostVars
<1>4. DOMAIN mounts' = {}
  BY SMT DEF ScanRestart, Nothing
<1>5. \A h : ~InHand(h)'
  BY DEF ScanRestart, Waiting, InHand
<1> QED
  BY <1>3, <1>4, <1>5 DEF SeenInv, HandIsSeen, CacheIsSeen, ClientsAreSeen

(* Targets stay at hosts that are not deleted.                             *)
LEMMA PluginStep ==
  ASSUME PlaceInv, PluginInv, [ScanNext]_scanVars
  PROVE  PluginInv'
<1>1. CASE UNCHANGED <<place, session, unsent, managed>>
  BY <1>1 DEF PluginInv
<1>2. CASE HostChange
  <2>1. UNCHANGED <<session, unsent, managed>>
    BY <1>2 DEF HostChange, ElsewhereUnchanged
  <2>2. \A t \in Targets : place'[t] # NoServer => place'[t] \in managed
    <3>1. CASE UNCHANGED place
      BY <3>1 DEF PluginInv
    <3>2. ASSUME NEW t \in Targets, NEW h \in Hosts \cup {NoServer}, MoveTarget(t, h)
          PROVE  \A u \in Targets : place'[u] # NoServer => place'[u] \in managed
      BY <3>2 DEF PluginInv, PlaceInv, MoveTarget
    <3> QED
      BY <1>2, <3>1, <3>2 DEF HostChange, Register, MountClient
  <2> QED
    BY <2>1, <2>2 DEF PluginInv
<1>3. ASSUME NEW h \in Hosts, RemoveHost(h) PROVE PluginInv'
  BY <1>3 DEF RemoveHost, PluginInv
<1>4. ASSUME NEW h \in Hosts, DeviceScanner(h) PROVE PluginInv'
  BY <1>4 DEF DeviceScanner, ElsewhereUnchanged, PluginInv
<1>5. ASSUME NEW h \in Hosts, StartSession(h) \/ UpdateSession(h) PROVE PluginInv'
  BY <1>5 DEF StartSession, UpdateSession, ElsewhereUnchanged, PluginInv
<1>6. ASSUME NEW h \in Hosts, SessionEnds(h) PROVE PluginInv'
  BY <1>6 DEF SessionEnds, ElsewhereUnchanged, PluginInv
<1>7. CASE ScanStep \/ ScanRestart \/ UNCHANGED scanVars
  BY <1>1, <1>7 DEF ScanStep, UpdateDevices, UpdateClientMounts, UpdateTargets, UpdateManagedTargets,
                    UpdateManagedFilesystems, ScanRestart, scanVars, hostVars
<1> QED
  BY <1>2, <1>3, <1>4, <1>5, <1>6, <1>7 DEF ScanNext, AgentStep, ScanFault

(* Every step keeps the last report of a host in its place.                *)
LEMMA StepKeepsSeen ==
  ASSUME IndexInv, SeenInv, [ScanNext]_scanVars
  PROVE  SeenInv'
<1>0. HostInv /\ ProcessInv /\ PlaceInv
  BY DEF IndexInv, HostInv
<1>1. PluginInv'
  BY <1>0, PluginStep DEF SeenInv
<1>2. ASSUME UNCHANGED <<scanned, session, unsent, reports, mounts, clientRows, handling>>, managed' \subseteq managed
      PROVE  SeenInv'
  BY <1>1, <1>2, QuietSeen DEF UpToDate
<1>3. CASE HostChange
  BY <1>2, <1>3 DEF HostChange, ElsewhereUnchanged, rowVars, cacheVars
<1>4. ASSUME NEW h \in Hosts, RemoveHost(h) PROVE SeenInv'
  BY <1>2, <1>4 DEF RemoveHost, rowVars, cacheVars
<1>5. ASSUME NEW h \in Hosts, DeviceScanner(h) PROVE SeenInv'
  <2>1. UNCHANGED <<reports, mounts, clientRows, managed, handling>>
    BY <1>5 DEF DeviceScanner, ElsewhereUnchanged, rowVars, cacheVars
  <2>2. \A k \in Hosts : UpToDate(k)' => UpToDate(k) /\ scanned'[k] = scanned[k]
    <3>1. /\ session' = session /\ scanned' = [scanned EXCEPT ![h] = Visible(h)]
          /\ unsent' = [unsent EXCEPT ![h] = unsent[h] \/ session[h] = "open"]
      BY <1>5 DEF DeviceScanner
    <3>2. scanned = [k \in Hosts |-> scanned[k]] /\ unsent \in [Hosts -> BOOLEAN]
      BY <1>0 DEF SeenInv, PluginInv, HostInv
    <3>3. UpToDate(h)' => FALSE
      BY <3>1, <3>2 DEF UpToDate
    <3>4. \A k \in Hosts : k # h => unsent'[k] = unsent[k] /\ scanned'[k] = scanned[k]
      BY <3>1, <3>2
    <3> QED
      BY <3>1, <3>3, <3>4 DEF UpToDate
  <2> QED
    BY <1>1, <2>1, <2>2, QuietSeen
<1>6. ASSUME NEW h \in Hosts, StartSession(h) \/ UpdateSession(h) PROVE SeenInv'
  <2>1. Post(h) /\ UNCHANGED <<scanned, mounts, clientRows, handling, managed>>
    BY <1>6 DEF StartSession, UpdateSession, ElsewhereUnchanged, rowVars, cacheVars
  <2>2. \A k \in Hosts : k # h => session'[k] = session[k] /\ unsent'[k] = unsent[k]
    BY <1>6 DEF StartSession, UpdateSession, SeenInv, PluginInv
  <2> QED
    BY <1>0, <1>1, <2>1, <2>2, PostSeen DEF UpToDate
<1>7. ASSUME NEW h \in Hosts, SessionEnds(h) PROVE SeenInv'
  <2>1. UNCHANGED <<reports, mounts, clientRows, managed, handling, scanned>>
    BY <1>7 DEF SessionEnds, ElsewhereUnchanged, rowVars, cacheVars
  <2>2. \A k \in Hosts : UpToDate(k)' => UpToDate(k)
    BY <1>7 DEF SessionEnds, SeenInv, PluginInv, UpToDate
  <2> QED
    BY <1>1, <2>1, <2>2, QuietSeen
<1>8. CASE UpdateDevices
  BY <1>0, <1>1, <1>8, TakesReport
<1>9. CASE UpdateClientMounts
  BY <1>0, <1>1, <1>9, WritesClients
<1>10. CASE UpdateTargets
  BY <1>0, <1>1, <1>10, CachesMounts
<1>11. CASE UpdateManagedTargets \/ UpdateManagedFilesystems
  <2>1. /\ UNCHANGED <<reports, mounts, clientRows, managed, scanned, session, unsent>>
        /\ handling.at \notin {"clients", "targets"} /\ handling'.at \notin {"clients", "targets"}
    <3>1. CASE UpdateManagedTargets
      BY <3>1 DEF UpdateManagedTargets, hostVars, cacheVars
    <3>2. CASE UpdateManagedFilesystems
      BY <3>2 DEF UpdateManagedFilesystems, Waiting, hostVars, cacheVars
    <3> QED
      BY <1>11, <3>1, <3>2
  <2> QED
    BY <1>1, <2>1, QuietSeen DEF UpToDate
<1>12. CASE ScanRestart
  BY <1>0, <1>1, <1>12, ForgetsMounts
<1>13. CASE UNCHANGED scanVars
  BY <1>2, <1>13 DEF scanVars, hostVars, rowVars, cacheVars
<1> QED
  BY <1>3, <1>4, <1>5, <1>6, <1>7, <1>8, <1>9, <1>10, <1>11, <1>12, <1>13
  DEF ScanNext, ScanStep, AgentStep, ScanFault

-----------------------------------------------------------------------------
(* What managed targets and filesystems make of the rows.                  *)

RowStates ==
  /\ \A x \in targetRows : /\ x.state \in {"mounted", "unmounted"}
                           /\ x.name # Mgs => x.filesystems = {FsOf[x.name]}
  /\ handling.at = "managed" => handling.updates \subseteq targetRows

HasRow(t) == \E x \in targetRows : x.name = t
TargetPending(t) == handling.at = "managed" /\ Backing[t] \in Uuids(handling.updates)
FsPending(f) ==
  \/ handling.at = "managed" /\ \E x \in handling.updates : f \in x.filesystems
  \/ handling.at = "filesystems" /\ f \in handling.fses

(* A managed target has the state of its row, unless an update is on its   *)
(* way to it or was skipped; without a row it is unmounted.                *)
ManagedAgrees ==
  /\ managedState \in [Targets -> {"mounted", "unmounted"}]
  /\ \A t \in Targets :
       /\ ~HasRow(t) => managedState[t] = "unmounted"
       /\ t \in skipped \/ TargetPending(t)
            \/ \A x \in targetRows : x.name = t => managedState[t] = x.state
FsAgrees == \A f \in Filesystems : FsPending(f) \/ FsDescribed(f)

RowInv == RowStates /\ ManagedAgrees /\ FsAgrees

(* Nothing is pending at the start.                                        *)
LEMMA InitRows == ScanInit => RowInv
<1> SUFFICES ASSUME ScanInit PROVE RowInv
  OBVIOUS
<1>1. RowStates
  BY DEF ScanInit, RowStates, Waiting
<1>2. ManagedAgrees
  BY DEF ScanInit, ManagedAgrees
<1>3. FsAgrees
  BY DEF ScanInit, FsAgrees, FsDescribed
<1> QED
  BY <1>1, <1>2, <1>3 DEF RowInv

(* A target's row is the only one with its uuid.                           *)
LEMMA RowOfUuid ==
  ASSUME RowsAreKeyed, NEW x \in targetRows, NEW t \in Targets
  PROVE  /\ x.uuid = Backing[t] <=> x.name = t
         /\ \A y \in targetRows : x.name = y.name => x = y
<1>1. x.name \in Targets /\ x.uuid = Backing[x.name]
  BY DEF RowsAreKeyed
<1>2. \A u \in Targets : Backing[t] = Backing[u] => t = u
  BY ScanAssumption
<1>3. ASSUME NEW y \in targetRows, x.name = y.name PROVE x = y
  <2>1. Key(x) = Key(y)
    BY <1>1, <1>3 DEF RowsAreKeyed, Key
  <2> QED
    BY <2>1 DEF RowsAreKeyed
<1> QED
  BY <1>1, <1>2, <1>3

Members(f) == {t \in Targets \ {Mgs} : FsOf[t] = f}

(* FsDescribed speaks of the rows of members, of their managed targets and *)
(* of the filesystem.                                                      *)
LEMMA SameFs ==
  ASSUME NEW f \in Filesystems, FsDescribed(f), fsState'[f] = fsState[f],
         f \in skipped => f \in skipped',
         \A t \in Members(f) : /\ HasRow(t)' <=> HasRow(t)
                               /\ managedState'[t] = managedState[t]
                               /\ t \in skipped => t \in skipped'
  PROVE  FsDescribed(f)'
<1>1. \A t \in Members(f) : (\E x \in targetRows' : x.name = t) <=> (\E x \in targetRows : x.name = t)
  BY DEF HasRow
<1>2. {t \in Members(f) : \E x \in targetRows' : x.name = t}
        = {t \in Members(f) : \E x \in targetRows : x.name = t}
  BY <1>1
<1> DEFINE known == {t \in Members(f) : \E x \in targetRows : x.name = t}
<1>3. \/ ({f} \cup Members(f)) \cap skipped # {} \/ known = {}
      \/ /\ fsState[f] = "stopped" => \A t \in Members(f) : managedState[t] = "unmounted"
         /\ fsState[f] = "unavailable" => \E t \in known \cap Mdt0 : managedState[t] = "unmounted"
         /\ fsState[f] = "available" => \A t \in known \cap Mdt0 : managedState[t] = "mounted"
  BY DEF FsDescribed, Members
<1>4. ({f} \cup Members(f)) \cap skipped # {} => ({f} \cup Members(f)) \cap skipped' # {}
  OBVIOUS
<1>5. \/ ({f} \cup Members(f)) \cap skipped' # {} \/ known = {}
      \/ /\ fsState'[f] = "stopped" => \A t \in Members(f) : managedState'[t] = "unmounted"
         /\ fsState'[f] = "unavailable" => \E t \in known \cap Mdt0 : managedState'[t] = "unmounted"
         /\ fsState'[f] = "available" => \A t \in known \cap Mdt0 : managedState'[t] = "mounted"
  BY <1>3, <1>4
<1> QED
  BY <1>2, <1>5 DEF FsDescribed, Members

Managing == handling.at \in {"managed", "filesystems"}

(* Steps that leave the rows alone, and the loop where it is or out of     *)
(* these statements.                                                       *)
LEMMA KeepsStates ==
  ASSUME RowInv, UNCHANGED <<targetRows, managedState, fsState, skipped>>,
         handling' = handling \/ (~Managing /\ ~Managing')
  PROVE  RowInv'
<1>1. RowStates'
  BY DEF RowInv, RowStates, Managing
<1>2. \A t : (HasRow(t)' <=> HasRow(t)) /\ (TargetPending(t)' <=> TargetPending(t))
  BY DEF HasRow, TargetPending, Managing, Uuids
<1>3. ManagedAgrees'
  BY <1>2 DEF RowInv, ManagedAgrees
<1>4. \A f : FsPending(f)' <=> FsPending(f)
  BY DEF FsPending, Managing
<1>5. FsAgrees'
  BY <1>2, <1>4, SameFs DEF RowInv, FsAgrees
<1> QED
  BY <1>1, <1>3, <1>5 DEF RowInv

(* Rows as find_targets and set_unmounted make them.                       *)
AreRows(xs) ==
  \A x \in xs : /\ x.name \in Targets /\ x.uuid = Backing[x.name]
                /\ x.state \in {"mounted", "unmounted"}
                /\ x.name # Mgs => x.filesystems = {FsOf[x.name]}

(* What update_targets writes.                                             *)
LEMMA WrittenUpdates ==
  ASSUME RowsAreKeyed, RowStates, UpdateTargets
  PROVE  \E xs : /\ handling' = [at |-> "managed", updates |-> xs]
                 /\ targetRows' = Upserted(targetRows, xs)
                 /\ AreRows(xs)
<1>1. PICK new \in FindTargets(trees', mounts', mgsFses') :
        \E xs \in BuildUpdates(new, targetRows) : /\ targetRows' = Upserted(targetRows, xs)
                                                  /\ handling' = [at |-> "managed", updates |-> xs]
  BY DEF UpdateTargets
<1>2. PICK xs \in BuildUpdates(new, targetRows) : /\ targetRows' = Upserted(targetRows, xs)
                                                  /\ handling' = [at |-> "managed", updates |-> xs]
  BY <1>1
<1>3. \A x \in new : /\ x.name \in Targets /\ x.uuid = Backing[x.name] /\ x.state = "mounted"
                     /\ x.name # Mgs => x.filesystems = {FsOf[x.name]}
  BY SMT, FoundTargets
<1>4. PICK same \in SUBSET (new \cap targetRows) :
        xs = Upserts(new, targetRows) \cup same \cup {SetUnmounted(x) : x \in Deletions(new, targetRows)}
  BY <1>2 DEF BuildUpdates, Reordered
<1>5. \A x \in xs : x \in new \/ \E d \in targetRows : x = SetUnmounted(d)
  BY <1>4 DEF Upserts, Deletions
<1>6. ASSUME NEW d \in targetRows, NEW x, x = SetUnmounted(d)
      PROVE  /\ x.name \in Targets /\ x.uuid = Backing[x.name] /\ x.state = "unmounted"
             /\ x.name # Mgs => x.filesystems = {FsOf[x.name]}
  <2>1. x.name = d.name /\ x.uuid = d.uuid /\ x.state = "unmounted" /\ x.filesystems = d.filesystems
    BY <1>6 DEF SetUnmounted
  <2> QED
    BY <2>1 DEF RowsAreKeyed, RowStates
<1>7. AreRows(xs)
  <2> SUFFICES ASSUME NEW x \in xs
               PROVE  /\ x.name \in Targets /\ x.uuid = Backing[x.name]
                      /\ x.state = "mounted" \/ x.state = "unmounted"
                      /\ x.name # Mgs => x.filesystems = {FsOf[x.name]}
    BY DEF AreRows
  <2>1. CASE x \in new
    BY <1>3, <2>1
  <2>2. CASE \E d \in targetRows : x = SetUnmounted(d)
    BY <1>6, <2>2
  <2> QED
    BY <1>5, <2>1, <2>2
<1> QED
  BY <1>2, <1>7

(* What update_targets writes is pending until the next statements.        *)
LEMMA UpdatesPend ==
  ASSUME IndexInv, RowInv, UpdateTargets
  PROVE  RowInv'
<1>0. RowsAreKeyed /\ RowStates /\ ManagedAgrees /\ FsAgrees /\ RowsAreKeyed'
  BY WritesRows DEF IndexInv, ScanInv, RowInv
<1>1. PICK xs : /\ handling' = [at |-> "managed", updates |-> xs]
                /\ targetRows' = Upserted(targetRows, xs)
                /\ AreRows(xs)
  BY <1>0, WrittenUpdates
<1>2. UNCHANGED <<managedState, fsState, skipped>> /\ handling.at = "targets"
  BY DEF UpdateTargets
<1>3. /\ xs \subseteq targetRows' /\ \A x \in targetRows' : x \in xs \/ x \in targetRows
      /\ \A x \in targetRows : x \in targetRows' \/ \E y \in xs : Key(y) = Key(x)
  BY <1>1 DEF Upserted
<1>4. RowStates'
  BY <1>0, <1>1, <1>3 DEF RowStates, AreRows
<1>5. \A t : HasRow(t) => HasRow(t)'
  BY SMT, <1>3 DEF HasRow, Key
<1>6. /\ \A t : TargetPending(t)' <=> Backing[t] \in Uuids(xs)
      /\ \A f : FsPending(f)' <=> \E x \in xs : f \in x.filesystems
  BY <1>1 DEF TargetPending, FsPending
<1>7. \A t : ~TargetPending(t)
  BY <1>2 DEF TargetPending
<1>8. ManagedAgrees'
  <2>1. ASSUME NEW t \in Targets, ~HasRow(t)' PROVE managedState[t] = "unmounted"
    BY <1>0, <1>5, <2>1 DEF ManagedAgrees
  <2>2. ASSUME NEW t \in Targets, t \notin skipped, ~TargetPending(t)', NEW x \in targetRows', x.name = t
        PROVE  managedState[t] = x.state
    <3>1. x \notin xs
      BY <1>1, <1>6, <2>2 DEF Uuids, AreRows
    <3>2. x \in targetRows
      BY <1>3, <3>1
    <3> QED
      BY <1>0, <1>7, <2>2, <3>2 DEF ManagedAgrees
  <2> QED
    BY <1>0, <1>2, <2>1, <2>2 DEF ManagedAgrees
<1>9. FsAgrees'
  <2> SUFFICES ASSUME NEW f \in Filesystems, ~FsPending(f)' PROVE FsDescribed(f)'
    BY DEF FsAgrees
  <2>1. FsDescribed(f)
    BY <1>0, <1>2 DEF FsAgrees, FsPending
  <2>2. \A t \in Members(f) : \A x \in xs : x.name # t
    BY <1>1, <1>6 DEF Members, AreRows
  <2>3. \A t \in Members(f) : HasRow(t)' => HasRow(t)
    BY <1>3, <2>2 DEF HasRow
  <2> QED
    BY <1>2, <1>5, <2>1, <2>3, SameFs
<1> QED
  BY <1>4, <1>8, <1>9 DEF RowInv

(* update_managed_target_state gives the managed targets of the updates    *)
(* the states of their rows.                                               *)
LEMMA ManagesTargets ==
  ASSUME IndexInv, RowInv, UpdateManagedTargets
  PROVE  RowInv'
<1> PICK xs : xs = handling.updates
  OBVIOUS
<1>0. RowsAreKeyed /\ RowStates /\ ManagedAgrees /\ FsAgrees
  BY DEF IndexInv, ScanInv, RowInv
<1>1. /\ handling.at = "managed" /\ xs \subseteq targetRows
      /\ managedState' = [t \in Targets |->
                            IF \E x \in xs : x.uuid = Backing[t]
                              THEN (CHOOSE x \in xs : x.uuid = Backing[t]).state
                              ELSE managedState[t]]
      /\ skipped' = {t \in skipped : t \in Targets => Backing[t] \notin Uuids(xs)}
      /\ handling' = [at |-> "filesystems", fses |-> UNION {x.filesystems : x \in xs}]
      /\ UNCHANGED <<targetRows, fsState>>
  BY <1>0 DEF UpdateManagedTargets, RowStates
<1>2. RowStates'
  BY <1>0, <1>1 DEF RowStates
<1>3. \A t : HasRow(t)' <=> HasRow(t)
  BY <1>1 DEF HasRow
<1>4. ASSUME NEW t \in Targets, NEW x \in xs, x.uuid = Backing[t]
      PROVE  x.name = t /\ managedState'[t] = x.state
  <2>1. PICK c : c = CHOOSE y \in xs : y.uuid = Backing[t]
    OBVIOUS
  <2>2. c \in xs /\ c.uuid = Backing[t]
    BY <1>4, <2>1
  <2>3. c \in targetRows /\ x \in targetRows
    BY <1>1, <2>2
  <2>4. c.name = t /\ x.name = t
    BY <1>0, <1>4, <2>2, <2>3, RowOfUuid
  <2>5. c = x
    BY <1>0, <2>3, <2>4, RowOfUuid
  <2>6. managedState'[t] = c.state
    BY <1>1, <1>4, <2>1
  <2> QED
    BY <2>4, <2>5, <2>6
<1>5. ASSUME NEW t \in Targets, Backing[t] \notin Uuids(xs)
      PROVE  managedState'[t] = managedState[t] /\ (t \in skipped => t \in skipped')
  BY <1>1, <1>5 DEF Uuids
<1>6. ManagedAgrees'
  <2>1. ASSUME NEW t \in Targets, Backing[t] \in Uuids(xs)
        PROVE  /\ HasRow(t) /\ managedState'[t] \in {"mounted", "unmounted"}
               /\ \A y \in targetRows : y.name = t => managedState'[t] = y.state
    <3>1. PICK x \in xs : x.uuid = Backing[t]
      BY <2>1 DEF Uuids
    <3>2. x \in targetRows /\ x.name = t /\ managedState'[t] = x.state
      BY <1>1, <1>4, <3>1
    <3>3. \A y \in targetRows : x.name = y.name => x = y
      BY <1>0, <3>2, RowOfUuid
    <3> QED
      BY <1>0, <3>2, <3>3 DEF HasRow, RowStates
  <2>2. ASSUME NEW t \in Targets, Backing[t] \notin Uuids(xs)
        PROVE  /\ ~HasRow(t) => managedState'[t] = "unmounted"
               /\ managedState'[t] \in {"mounted", "unmounted"}
               /\ t \in skipped' \/ \A y \in targetRows : y.name = t => managedState'[t] = y.state
    BY <1>0, <1>5, <2>2 DEF ManagedAgrees, TargetPending
  <2>3. managedState' \in [Targets -> {"mounted", "unmounted"}]
    BY <1>1, <2>1, <2>2
  <2> QED
    BY <1>1, <1>3, <2>1, <2>2, <2>3 DEF ManagedAgrees
<1>7. FsAgrees'
  <2> SUFFICES ASSUME NEW f \in Filesystems, ~FsPending(f)' PROVE FsDescribed(f)'
    BY DEF FsAgrees
  <2>1. \A x \in xs : f \notin x.filesystems
    BY <1>1 DEF FsPending
  <2>2. FsDescribed(f)
    BY <1>0, <1>1, <2>1 DEF FsAgrees, FsPending
  <2>3. ASSUME NEW t \in Members(f) PROVE Backing[t] \notin Uuids(xs)
    <3> SUFFICES ASSUME NEW x \in xs, x.uuid = Backing[t] PROVE FALSE
      BY DEF Uuids
    <3>1. x.name = t /\ t \in Targets /\ t # Mgs /\ FsOf[t] = f
      BY <1>4 DEF Members
    <3> QED
      BY <1>0, <1>1, <2>1, <3>1 DEF RowStates
  <2>4. f \in skipped => f \in skipped'
    BY <1>1, ScanAssumption
  <2>5. \A t \in Members(f) : t \in Targets
    BY DEF Members
  <2> QED
    BY <1>1, <1>3, <1>5, <2>2, <2>3, <2>4, <2>5, SameFs
<1> QED
  BY <1>2, <1>6, <1>7 DEF RowInv

(* update_managed_filesystems sets the state of the filesystems updated.   *)
LEMMA ManagesFilesystems ==
  ASSUME IndexInv, RowInv, UpdateManagedFilesystems
  PROVE  RowInv'
<1>0. RowsAreKeyed /\ RowStates /\ ManagedAgrees /\ FsAgrees
  BY DEF IndexInv, ScanInv, RowInv
<1>1. /\ handling.at = "filesystems" /\ handling' = Waiting
      /\ fsState' = [f \in Filesystems |-> IF FsTargets(f) = {} THEN fsState[f] ELSE FsFound(f)]
      /\ skipped' = {f \in skipped : f \in Filesystems => FsTargets(f) = {}}
      /\ UNCHANGED <<targetRows, managedState>>
  BY DEF UpdateManagedFilesystems
<1>2. RowStates'
  BY <1>0, <1>1 DEF RowStates, Waiting
<1>3. \A t : (HasRow(t)' <=> HasRow(t))
  BY <1>1 DEF HasRow
<1>4. \A t \in Targets : t \in skipped => t \in skipped'
  BY <1>1, ScanAssumption
<1>5. ManagedAgrees'
  <2>1. \A t : ~TargetPending(t)
    BY <1>1 DEF TargetPending
  <2> QED
    BY <1>0, <1>1, <1>3, <1>4, <2>1 DEF ManagedAgrees
<1>6. FsAgrees'
  <2> SUFFICES ASSUME NEW f \in Filesystems PROVE FsDescribed(f)'
    BY DEF FsAgrees
  <2>1. CASE f \notin handling.fses
    <3>1. FsTargets(f) = {}
      BY <2>1 DEF FsTargets
    <3>2. FsDescribed(f)
      BY <1>0, <1>1, <2>1 DEF FsAgrees, FsPending
    <3>3. fsState'[f] = fsState[f] /\ (f \in skipped => f \in skipped')
      BY <1>1, <3>1
    <3>4. \A t \in Members(f) : t \in Targets
      BY DEF Members
    <3> QED
      BY <1>1, <1>3, <1>4, <3>2, <3>3, <3>4, SameFs
  <2>2. CASE f \in handling.fses
    <3> DEFINE known == {t \in Members(f) : \E x \in targetRows : x.name = t}
    <3>1. \A x \in targetRows : x.name \in Members(f) => x \in FsTargets(f)
      BY <1>0, <2>2 DEF RowStates, Members, FsTargets
    <3>2. \A x \in FsTargets(f) : x.name \in Mdt0 => x.name \in known
      <4> SUFFICES ASSUME NEW x \in FsTargets(f), x.name \in Mdt0 PROVE x.name \in Members(f)
        BY DEF FsTargets
      <4>1. x \in targetRows /\ f \in x.filesystems /\ x.name \in Targets \ {Mgs}
        BY ScanAssumption DEF FsTargets
      <4> QED
        BY <1>0, <4>1 DEF RowStates, Members
    <3>3. CASE known = {}
      BY <1>1, <3>3 DEF FsDescribed, Members
    <3>4. CASE known # {}
      <4>1. FsTargets(f) # {}
        BY <3>1, <3>4
      <4>2. fsState'[f] = FsFound(f)
        BY <1>1, <4>1
      <4>3. FsFound(f) = "stopped" => \A t \in Members(f) : managedState[t] = "unmounted"
        <5>1. FsFound(f) = "stopped" => \A x \in FsTargets(f) : managedState[x.name] = "unmounted"
          BY DEF FsFound
        <5>2. \A t \in Members(f) : t \in Targets
          BY DEF Members
        <5> QED
          BY <1>0, <3>1, <5>1, <5>2 DEF ManagedAgrees, HasRow
      <4>4. FsFound(f) = "unavailable" => \E t \in known \cap Mdt0 : managedState[t] = "unmounted"
        <5>1. FsFound(f) = "unavailable" => \E x \in FsTargets(f) : x.name \in Mdt0 /\ managedState[x.name] = "unmounted"
          BY DEF FsFound
        <5> QED
          BY <3>2, <5>1
      <4>5. FsFound(f) = "available" => \A t \in known \cap Mdt0 : managedState[t] = "mounted"
        <5>1. FsFound(f) = "available" =>
                \A x \in FsTargets(f) : x.name \in Mdt0 => managedState[x.name] # "unmounted"
          BY DEF FsFound
        <5>2. \A t \in known : t \in Targets /\ \E x \in FsTargets(f) : x.name = t
          BY <3>1 DEF Members
        <5>3. \A t \in Targets : managedState[t] # "unmounted" => managedState[t] = "mounted"
          BY <1>0 DEF ManagedAgrees
        <5> QED
          BY <5>1, <5>2, <5>3
      <4> QED
        BY <1>1, <4>2, <4>3, <4>4, <4>5 DEF FsDescribed, Members
    <3> QED
      BY <3>3, <3>4
  <2> QED
    BY <2>1, <2>2
<1> QED
  BY <1>2, <1>5, <1>6 DEF RowInv

(* A restart skips what was about to be written.                           *)
LEMMA SkipsUpdates ==
  ASSUME IndexInv, RowInv, ScanRestart
  PROVE  RowInv'
<1>0. RowsAreKeyed /\ RowStates /\ ManagedAgrees /\ FsAgrees
  BY DEF IndexInv, ScanInv, RowInv
<1>1. /\ handling' = Waiting /\ skipped' = skipped \cup Unwritten
      /\ UNCHANGED <<targetRows, managedState, fsState>>
  BY DEF ScanRestart, rowVars
<1>2. RowStates'
  BY <1>0, <1>1 DEF RowStates, Waiting
<1>3. \A t : HasRow(t)' <=> HasRow(t)
  BY <1>1 DEF HasRow
<1>4. ASSUME NEW t \in Targets, TargetPending(t) PROVE t \in skipped'
  <2>1. PICK x \in handling.updates : x.uuid = Backing[t]
    BY <1>4 DEF TargetPending, Uuids
  <2>2. handling.at = "managed" /\ x \in targetRows
    BY <1>0, <1>4, <2>1 DEF TargetPending, RowStates
  <2>3. x.name = t
    BY <1>0, <2>1, <2>2, RowOfUuid
  <2>4. Unwritten = UNION {{y.name} \cup y.filesystems : y \in handling.updates}
    BY <2>2 DEF Unwritten
  <2>5. x.name \in Unwritten
    BY SMT, <2>1, <2>4
  <2> QED
    BY <1>1, <2>3, <2>5
<1>5. ASSUME NEW f \in Filesystems, FsPending(f) PROVE f \in skipped'
  <2>1. CASE handling.at = "managed"
    <3>1. Unwritten = UNION {{y.name} \cup y.filesystems : y \in handling.updates}
      BY <2>1 DEF Unwritten
    <3>2. PICK x \in handling.updates : f \in x.filesystems
      BY <1>5, <2>1 DEF FsPending
    <3>3. f \in Unwritten
      BY <3>1, <3>2
    <3> QED
      BY <1>1, <3>3
  <2>2. CASE handling.at = "filesystems"
    <3>1. Unwritten = handling.fses
      BY <2>2 DEF Unwritten
    <3> QED
      BY <1>1, <1>5, <2>2, <3>1 DEF FsPending
  <2> QED
    BY <1>5, <2>1, <2>2 DEF FsPending
<1>6. ManagedAgrees'
  BY <1>0, <1>1, <1>3, <1>4 DEF ManagedAgrees
<1>7. FsAgrees'
  <2> SUFFICES ASSUME NEW f \in Filesystems PROVE FsDescribed(f)'
    BY DEF FsAgrees
  <2>1. CASE FsPending(f)
    <3>1. ({f} \cup {t \in Targets \ {Mgs} : FsOf[t] = f}) \cap skipped' # {}
      BY <1>5, <2>1
    <3> QED
      BY <3>1 DEF FsDescribed
  <2>2. CASE FsDescribed(f)
    BY <1>1, <1>3, <2>2, SameFs
  <2> QED
    BY <1>0, <2>1, <2>2 DEF FsAgrees
<1> QED
  BY <1>2, <1>6, <1>7 DEF RowInv

(* Every step keeps managed targets and filesystems in line with rows.     *)
LEMMA StepKeepsRows ==
  ASSUME IndexInv, RowInv, [ScanNext]_scanVars
  PROVE  RowInv'
<1>1. CASE HostChange \/ (\E h \in Hosts : RemoveHost(h) \/ AgentStep(h) \/ SessionEnds(h)) \/ UNCHANGED scanVars
  <2>1. UNCHANGED <<targetRows, managedState, fsState, skipped, handling>>
    BY <1>1 DEF HostChange, RemoveHost, AgentStep, DeviceScanner, StartSession, UpdateSession, SessionEnds,
                ElsewhereUnchanged, rowVars, scanVars
  <2> QED
    BY <2>1, KeepsStates
<1>2. CASE UpdateDevices \/ UpdateClientMounts
  <2>1. UNCHANGED <<targetRows, managedState, fsState, skipped>> /\ ~Managing /\ ~Managing'
    <3>1. CASE UpdateDevices
      BY <3>1 DEF UpdateDevices, Waiting, Managing
    <3>2. CASE UpdateClientMounts
      <4>1. /\ handling.at = "clients" /\ handling' = [handling EXCEPT !.at = "targets"]
            /\ UNCHANGED <<targetRows, managedState, fsState, skipped>>
        BY <3>2 DEF UpdateClientMounts
      <4>2. handling = [at |-> handling.at, report |-> handling.report]
        BY <4>1 DEF IndexInv, ProcessInv
      <4> QED
        BY <4>1, <4>2 DEF Managing
    <3> QED
      BY <1>2, <3>1, <3>2
  <2> QED
    BY <2>1, KeepsStates
<1>3. CASE UpdateTargets
  BY <1>3, UpdatesPend
<1>4. CASE UpdateManagedTargets
  BY <1>4, ManagesTargets
<1>5. CASE UpdateManagedFilesystems
  BY <1>5, ManagesFilesystems
<1>6. CASE ScanRestart
  BY <1>6, SkipsUpdates
<1> QED
  BY <1>1, <1>2, <1>3, <1>4, <1>5, <1>6 DEF ScanNext, ScanStep, ScanFault

-----------------------------------------------------------------------------
SettleInv == IndexInv /\ SeenInv /\ RowInv

(* When all is quiet, the mounts cached are those of the hosts.            *)
LEMMA QuietMounts ==
  ASSUME SettleInv, ScanQuiet
  PROVE  /\ \A h \in DOMAIN mounts : h \in Hosts /\ mounts[h] = {t \in Targets : place[t] = h}
         /\ \A h \in managed \cap DOMAIN mounts :
              MountedClients(h) = {f \in Filesystems : <<h, f>> \in clientAt}
<1>1. DOMAIN reports = {}
  BY SMT DEF ScanQuiet
<1>2. \A h \in Hosts : UpToDate(h) /\ ~Queued(h) /\ ~InHand(h)
  BY <1>1 DEF ScanQuiet, UpToDate, Queued, InHand, Waiting
<1>3. \A h \in DOMAIN mounts : h \in Hosts
  BY DEF SettleInv, IndexInv, ProcessInv, DeviceCaches
<1>4. \A h \in Hosts : /\ scanned[h].mounts = {t \in Targets : place[t] = h}
                       /\ scanned[h].clients = {f \in Filesystems : <<h, f>> \in clientAt}
  <2> SUFFICES ASSUME NEW h \in Hosts
               PROVE  /\ scanned[h].mounts = {t \in Targets : place[t] = h}
                      /\ scanned[h].clients = {f \in Filesystems : <<h, f>> \in clientAt}
    OBVIOUS
  <2>1. scanned[h] = Visible(h)
    BY DEF ScanQuiet
  <2> QED
    BY SMT, <2>1 DEF Visible
<1>5. managed \subseteq Hosts
  BY DEF SettleInv, SeenInv, PluginInv
<1> QED
  BY <1>2, <1>3, <1>4, <1>5 DEF SettleInv, SeenInv, CacheIsSeen, ClientsAreSeen

(* So the rows and the managed target of a target say where it is.         *)
LEMMA TargetsSettle ==
  ASSUME SettleInv, ScanQuiet, NEW t \in Targets
  PROVE  Described(t)
<1>0. /\ RowsAreKeyed /\ RowsFollowReports /\ RowStates /\ ManagedAgrees
      /\ place[t] # NoServer => place[t] \in managed
      /\ NoServer \notin Hosts /\ managed \subseteq Hosts
  BY ScanAssumption DEF SettleInv, IndexInv, ScanInv, RowInv, SeenInv, PluginInv
<1>1. \A h \in DOMAIN mounts : h \in Hosts /\ mounts[h] = {u \in Targets : place[u] = h}
  BY QuietMounts
<1> SUFFICES ASSUME mounts # Nothing, place[t] \notin managed \ DOMAIN mounts PROVE Described(t)
  BY DEF Described
<1>2. /\ Claims(mounts, t) # {} => \E x \in targetRows : x.name = t /\ x.state = "mounted"
      /\ \A x \in targetRows : x.name = t /\ x.state = "mounted" =>
           x.active \in DOMAIN mounts /\ t \in mounts[x.active]
  BY <1>0 DEF RowsFollowReports
<1>3. ~TargetPending(t)
  BY DEF ScanQuiet, Waiting, TargetPending
<1>4. t \in skipped \/ \A x \in targetRows : x.name = t => managedState[t] = x.state
  BY <1>0, <1>3 DEF ManagedAgrees
<1>5. CASE place[t] \in managed
  <2>1. place[t] \in Claims(mounts, t)
    BY <1>1, <1>5 DEF Claims
  <2>2. PICK y \in targetRows : y.name = t /\ y.state = "mounted"
    BY <1>2, <2>1
  <2>3. \A x \in targetRows : x.name = t => x = y
    BY <1>0, <2>2, RowOfUuid
  <2>4. y.active \in DOMAIN mounts /\ t \in mounts[y.active]
    BY <1>2, <2>2
  <2>5. y.active = place[t]
    BY <1>1, <2>4
  <2>6. managedState[t] = "mounted" \/ t \in skipped
    BY <1>4, <2>2
  <2> QED
    BY <1>5, <2>2, <2>3, <2>5, <2>6 DEF Described
<1>6. CASE place[t] \notin managed
  <2>1. place[t] = NoServer
    BY <1>0, <1>6
  <2>2. \A x \in targetRows : x.name = t => x.state # "mounted"
    <3> SUFFICES ASSUME NEW x \in targetRows, x.name = t, x.state = "mounted" PROVE FALSE
      OBVIOUS
    <3>1. x.active \in DOMAIN mounts /\ t \in mounts[x.active]
      BY <1>2
    <3>2. x.active \in Hosts /\ place[t] = x.active
      BY <1>1, <3>1
    <3> QED
      BY <1>0, <2>1, <3>2
  <2>3. \A x \in targetRows : x.name = t => x.state = "unmounted"
    BY <1>0, <2>2 DEF RowStates
  <2>4. managedState[t] = "unmounted" \/ t \in skipped
    <3>1. CASE HasRow(t)
      BY <1>4, <2>3, <3>1 DEF HasRow
    <3>2. CASE ~HasRow(t)
      BY <1>0, <3>2 DEF ManagedAgrees
    <3> QED
      BY <3>1, <3>2
  <2> QED
    BY <1>6, <2>3, <2>4 DEF Described
<1> QED
  BY <1>5, <1>6

(* Whatever the hosts, the sessions and restarts of the service do, once   *)
(* everything seen is reported and handled the rows describe the hosts, up *)
(* to what restarts forgot or skipped.                                     *)
THEOREM RowsDescribeHosts == ScanSpec => []ScanSettles
<1>1. ScanInit => SettleInv
  BY InitIndex, InitSeen, InitRows DEF SettleInv
<1>2. SettleInv /\ [ScanNext]_scanVars => SettleInv'
  BY StepKeepsIndex, StepKeepsSeen, StepKeepsRows DEF SettleInv
<1>3. SettleInv => ScanSettles
  <2> SUFFICES ASSUME SettleInv, ScanQuiet
               PROVE  /\ \A t \in Targets : Described(t)
                      /\ \A f \in Filesystems : FsDescribed(f)
                      /\ \A h \in managed \cap DOMAIN mounts : ClientsDescribed(h)
    BY DEF ScanSettles
  <2>1. \A t \in Targets : Described(t)
    BY TargetsSettle
  <2>2. \A f \in Filesystems : ~FsPending(f)
    BY DEF ScanQuiet, Waiting, FsPending
  <2>3. \A f \in Filesystems : FsDescribed(f)
    BY <2>2 DEF SettleInv, RowInv, FsAgrees
  <2>4. \A h \in managed \cap DOMAIN mounts : ClientsDescribed(h)
    BY QuietMounts DEF ClientsDescribed, MountedClients
  <2> QED
    BY <2>1, <2>3, <2>4
<1> QED  BY <1>1, <1>2, <1>3, PTL DEF ScanSpec
=============================================================================
