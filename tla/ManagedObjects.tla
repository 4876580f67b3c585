--------------------------- MODULE ManagedObjects ---------------------------
(***************************************************************************)
(* The stateful objects of chroma_core/models: their states, the           *)
(* StateChangeJob classes that move them, what each state and each job     *)
(* depends on, and who may depend on whom.  Everything here is a function  *)
(* of the rows of the database, which the operators take as a record db:   *)
(*                                                                         *)
(*   db.state[o]   the state of each object                                *)
(*   db.deleted    the objects whose row has not_deleted = None            *)
(*   db.active[t]  the hosts on which the target table says t is mounted   *)
(*                 (active_host_id: at most one)                           *)
(***************************************************************************)
EXTENDS Naturals, Sequences

CONSTANTS
  Objects,       \* the rows that exist at the start
  Class,         \* Class[o]: its model class
  HostsOf,       \* HostsOf[o]: hosts of a target, or the one host of the others
  FilesystemOf,  \* FilesystemOf[o]: filesystem of an OST/MDT, mount or ticket
  MgsOf,         \* MgsOf[o]: MGS of a filesystem or of a master ticket
  Immutable      \* objects that are monitored only (immutable_state)

Classes == {"host", "lnet", "corosync", "pacemaker", "ntp", "mgs", "mdt", "ost",
            "filesystem", "client_mount", "master_ticket", "fs_ticket"}

ASSUME TopologyAssumption ==
  /\ Class \in [Objects -> Classes]
  /\ \A f \in {HostsOf, FilesystemOf, MgsOf} : f \in [Objects -> SUBSET Objects]
  /\ Immutable \subseteq Objects

ByClass == [c \in Classes |-> {o \in Objects : Class[o] = c}]
OfClass(c) == ByClass[c]
Members == OfClass("mdt") \cup OfClass("ost")   \* FilesystemMember
Targets == OfClass("mgs") \cup Members

-----------------------------------------------------------------------------
(* States and transitions *)

TargetStates == {"unformatted", "formatted", "registered", "unmounted",
                 "mounted", "removed", "forgotten"}
TicketStates == {"revoked", "granted", "forgotten"}
ServiceStates == {"unconfigured", "stopped", "started"}

States ==
  [host |-> {"undeployed", "unconfigured", "packages_installed", "managed",
             "monitored", "working", "removed"},
   lnet |-> {"unconfigured", "lnet_unloaded", "lnet_down", "lnet_up"},
   corosync |-> ServiceStates, pacemaker |-> ServiceStates,
   ntp |-> {"unconfigured", "configured"},
   mgs |-> TargetStates, mdt |-> TargetStates, ost |-> TargetStates,
   filesystem |-> {"unavailable", "stopped", "available", "removed", "forgotten"},
   client_mount |-> {"unmounted", "mounted", "removed", "forgotten"},
   master_ticket |-> TicketStates, fs_ticket |-> TicketStates]

\* state_transition of the StateChangeJob classes of each model
HostJobs == {<<"undeployed", "unconfigured">>,
             <<"unconfigured", "packages_installed">>,
             <<"packages_installed", "managed">>,
             <<"packages_installed", "monitored">>,
             <<"packages_installed", "working">>,
             <<"unconfigured", "removed">>, <<"monitored", "removed">>,
             <<"managed", "removed">>, <<"working", "removed">>}
LNetJobs == {<<"unconfigured", "lnet_unloaded">>, <<"lnet_unloaded", "unconfigured">>,
             <<"lnet_unloaded", "lnet_down">>, <<"lnet_down", "lnet_up">>,
             <<"lnet_up", "lnet_down">>, <<"lnet_down", "lnet_unloaded">>}
CorosyncJobs == {<<"unconfigured", "stopped">>, <<"stopped", "unconfigured">>,
                 <<"stopped", "started">>, <<"started", "stopped">>}
PacemakerJobs == {<<"unconfigured", "stopped">>, <<"stopped", "unconfigured">>,
                  <<"stopped", "started">>, <<"started", "stopped">>}
NtpJobs == {<<"unconfigured", "configured">>, <<"configured", "unconfigured">>}
TargetJobs == {<<"unmounted", "mounted">>, <<"mounted", "unmounted">>,
               <<"unmounted", "forgotten">>, <<"mounted", "forgotten">>}
FilesystemJobs == {<<"stopped", "available">>, <<"unavailable", "available">>,
                   <<"unavailable", "stopped">>, <<"available", "unavailable">>,
                   <<"unavailable", "forgotten">>, <<"stopped", "forgotten">>,
                   <<"available", "forgotten">>}
ClientMountJobs == {<<"unmounted", "mounted">>, <<"mounted", "unmounted">>,
                    <<"unmounted", "removed">>, <<"unmounted", "forgotten">>,
                    <<"mounted", "forgotten">>}
TicketJobs == {<<"revoked", "granted">>, <<"granted", "revoked">>,
               <<"granted", "forgotten">>, <<"revoked", "forgotten">>}

Jobs == [host |-> HostJobs, lnet |-> LNetJobs, corosync |-> CorosyncJobs,
         pacemaker |-> PacemakerJobs, ntp |-> NtpJobs, mgs |-> TargetJobs,
         mdt |-> TargetJobs, ost |-> TargetJobs, filesystem |-> FilesystemJobs,
         client_mount |-> ClientMountJobs, master_ticket |-> TicketJobs,
         fs_ticket |-> TicketJobs]

\* get_routes: every way to leave the last state of a path until it would
\* come back to a state of the path.  All prefixes are routes as well.
RECURSIVE RoutesFrom(_, _)
RoutesFrom(c, path) ==
  LET next == {t[2] : t \in {u \in Jobs[c] : u[1] = path[Len(path)]}}
                \ {path[n] : n \in DOMAIN path}
  IN  {path} \cup UNION {RoutesFrom(c, Append(path, s)) : s \in next}

\* route_map: the shortest routes between two states of a class.  The code
\* keeps one of them, whichever the iteration of a set yields first.
RouteMap ==
  [c \in Classes |->
    [a \in States[c] |->
      LET all == RoutesFrom(c, <<a>>)
      IN  [b \in {r[Len(r)] : r \in all} \ {a} |->
             LET to == {r \in all : r[Len(r)] = b}
             IN  {r \in to : \A q \in to : Len(r) <= Len(q)}]]]

HasRoute(c, a, b) == b \in DOMAIN RouteMap[c][a]

FirstStep(c, a, b, via) == SubSeq(CHOOSE r \in RouteMap[c][a][b] : TRUE, 1, 2)
\* get_route, where via says which of several shortest routes was kept
GetRoute(c, a, b, via) ==
  LET to == RouteMap[c][a][b]
  IN  CHOOSE r \in to : (\E q \in to : q[2] = via) => r[2] = via

-----------------------------------------------------------------------------
(* Dependencies *)

\* DependOn(stateful_object, preferred_state, acceptable_states, fix_state)
DependOn(o, preferred, acceptable, fix) ==
  [on |-> o, preferred |-> preferred,
   acceptable |-> acceptable \cup {preferred}, fix |-> fix]

AnyBut(o, states) == States[Class[o]] \ states

Live(db) == Objects \ db.deleted

\* The configuration objects of class c on some hosts
ConfigsOf(c, hosts) == {o \in OfClass(c) : HostsOf[o] \subseteq hosts}

LNetAndPacemaker(hosts, fix) ==
  {DependOn(l, "lnet_up", {}, fix) : l \in ConfigsOf("lnet", hosts)}
  \cup {DependOn(p, "started", {}, fix) : p \in ConfigsOf("pacemaker", hosts)}

\* ManagedTarget.get_deps
TargetDeps(db, t, s) ==
  LET remove == IF t \in Immutable THEN "forgotten" ELSE "removed"
      hosts  == HostsOf[t] \ db.deleted
  IN  (IF s = "mounted" /\ t \notin Immutable
       THEN LNetAndPacemaker(db.active[t], "unmounted") ELSE {})
      \cup
      (IF s \notin {"removed", "forgotten"}
       THEN {[d EXCEPT !.acceptable = AnyBut(d.on, {"unconfigured"})] :
               d \in LNetAndPacemaker(hosts, remove)}
       ELSE {})

\* ManagedFilesystem.get_deps
FilesystemDeps(f, s) ==
  IF s \in {"removed", "forgotten"} THEN {}
  ELSE {DependOn(g, "unmounted", AnyBut(g, {"removed", "forgotten"}),
                 IF f \in Immutable THEN "forgotten" ELSE "removed") :
          g \in MgsOf[f]}

\* LustreClientMount.get_deps
ClientMountDeps(db, m, s) ==
  LET lnets == ConfigsOf("lnet", HostsOf[m])
      fs    == FilesystemOf[m] \ db.deleted
  IN  (IF s = "mounted"
       THEN {DependOn(l, "lnet_up", {}, "unmounted") : l \in lnets} ELSE {})
      \cup
      (IF s # "removed"
       THEN {DependOn(f, "available", AnyBut(f, {"stopped", "removed"}),
                      "unmounted") : f \in fs}
            \cup {DependOn(f, "available", AnyBut(f, {"removed", "forgotten"}),
                           "forgotten") : f \in fs}
            \cup {DependOn(h, "lnet_up", AnyBut(h, {"removed"}), "removed") :
                    h \in HostsOf[m]}
       ELSE {})

\* StatefulObject.get_deps(state): what an object needs while it is in a state
StateDeps(db, o, s) ==
  CASE o \in Targets             -> TargetDeps(db, o, s)
    [] Class[o] = "filesystem"   -> FilesystemDeps(o, s)
    [] Class[o] = "client_mount" -> ClientMountDeps(db, o, s)
    [] OTHER                     -> {}

\* The get_ticket of an MGS, a filesystem or an OST/MDT's filesystem
TicketsOf(db, o) ==
  {k \in Live(db) : \/ Class[k] = "master_ticket" /\ MgsOf[k] = {o}
                    \/ Class[k] = "fs_ticket" /\ FilesystemOf[k] = {o}
                    \/ /\ o \in Members /\ Class[k] = "fs_ticket"
                       /\ FilesystemOf[k] = FilesystemOf[o]}

\* "basically the host must have had its packages installed"
PackagesInstalled(db, o) ==
  {DependOn(h, "packages_installed", {}, "none") :
     h \in {x \in HostsOf[o] : db.state[x] \in {"unconfigured", "undeployed"}}}

\* BaseSetupHostJob._common_deps
SetupHostDeps(h, lnetState, lnetStates) ==
  {DependOn(l, lnetState, lnetStates, "none") : l \in ConfigsOf("lnet", {h})}
  \cup {DependOn(p, "started", {}, "none") : p \in ConfigsOf("pacemaker", {h})}
  \cup {DependOn(n, "configured", {}, "none") : n \in ConfigsOf("ntp", {h})}

\* CommonRemoveHostJob.get_deps; RemoveUnconfiguredHostJob has none
RemoveHostDeps(h, from) ==
  IF from = "unconfigured" THEN {}
  ELSE {DependOn(c, "unconfigured", {}, "none") :
          c \in UNION {ConfigsOf(k, {h}) : k \in {"lnet", "corosync", "ntp"}}}

HostJobDeps(h, from, to) ==
  CASE to \in {"managed", "working"} -> SetupHostDeps(h, "lnet_up", {})
    [] to = "monitored" ->
         SetupHostDeps(h, "lnet_unloaded",
                       States["lnet"] \ {"unconfigured"})
    [] to = "removed" -> RemoveHostDeps(h, from)
    [] OTHER -> {}

\* get_deps of the jobs of CorosyncConfiguration and PacemakerConfiguration
CorosyncJobDeps(db, c, from, to) ==
  CASE from = "unconfigured" -> PackagesInstalled(db, c)
    [] from = "started" ->
         {DependOn(p, "stopped", AnyBut(p, {"started"}), "none") :
            p \in ConfigsOf("pacemaker", HostsOf[c])}
    [] OTHER -> {}

PacemakerJobDeps(db, p, from, to) ==
  IF from = "started" THEN {}
  ELSE {DependOn(c, "started", {}, "none") : c \in ConfigsOf("corosync", HostsOf[p])}
       \cup (IF to = "started" THEN {} ELSE PackagesInstalled(db, p))

\* get_deps of ForgetTargetJob, StartTargetJob and StopTargetJob
TargetJobDeps(db, t, from, to) ==
  LET tickets == TicketsOf(db, t)
      ticket(s, fix(_)) == {DependOn(k, s, {}, fix(k)) : k \in tickets}
  IN  CASE to = "forgotten" -> IF Class[t] = "mgs"
                               THEN ticket("forgotten", LAMBDA k : db.state[k])
                               ELSE {}
        [] to = "mounted"   -> IF tickets # {}
                               THEN ticket("granted", LAMBDA k : "unmounted")
                               ELSE LNetAndPacemaker(HostsOf[t] \ db.deleted,
                                                     "unmounted")
        [] to = "unmounted" -> IF Class[t] = "mgs"
                               THEN ticket("revoked", LAMBDA k : "mounted")
                               ELSE {}

MembersOf(db, f) == {t \in Members \ db.deleted : f \in FilesystemOf[t]}

\* get_deps of the jobs of ManagedFilesystem.  (MDTs other than the first do not
\* count for "available"; a filesystem here has one MDT.)
FilesystemJobDeps(db, f, from, to) ==
  LET tickets == TicketsOf(db, f)
      members == MembersOf(db, f)
      ticket(s, fix(_)) == {DependOn(k, s, {}, fix(k)) : k \in tickets}
  IN  CASE to = "available" ->
             IF tickets # {} THEN ticket("granted", LAMBDA k : "unavailable")
             ELSE {DependOn(t, "mounted", {}, "unavailable") :
                     t \in members \cup MgsOf[f]}
        [] to = "stopped" ->
             IF tickets # {} THEN ticket("revoked", LAMBDA k : "unavailable")
             ELSE {DependOn(t, "unmounted", AnyBut(t, {"mounted"}), "unavailable") :
                     t \in members}
        [] to = "forgotten" ->
             ticket("forgotten", LAMBDA k : db.state[k])
             \cup {DependOn(t, "forgotten", {}, "none") : t \in members}
        [] OTHER -> {}

\* get_deps of the job that takes o from one state to another
JobDeps(db, o, from, to) ==
  CASE Class[o] = "host"       -> HostJobDeps(o, from, to)
    [] Class[o] \in {"lnet", "ntp"} ->
         IF from = "unconfigured" THEN PackagesInstalled(db, o) ELSE {}
    [] Class[o] = "corosync"   -> CorosyncJobDeps(db, o, from, to)
    [] Class[o] = "pacemaker"  -> PacemakerJobDeps(db, o, from, to)
    [] o \in Targets           -> TargetJobDeps(db, o, from, to)
    [] Class[o] = "filesystem" -> FilesystemJobDeps(db, o, from, to)
    [] Class[o] = "client_mount" ->
         IF to = "mounted"
         THEN {DependOn(l, "lnet_up", {}, "none") : l \in ConfigsOf("lnet", HostsOf[o])}
         ELSE {}
    [] Class[o] = "fs_ticket" /\ to = "granted" ->
         {DependOn(k, "granted", {}, "none") :
            k \in {m \in OfClass("master_ticket") :
                     \E f \in FilesystemOf[o] : MgsOf[f] = MgsOf[m]}}
    [] OTHER -> {}

\* StartTargetJob without a ticket returns a DependAny, all others a DependAll.
DependsOnAny(db, o, to) ==
  o \in Targets /\ to = "mounted" /\ TicketsOf(db, o) = {}

\* UnconfigurePacemakerJob.get_deps names an undefined variable for each target
\* of its host.
GetDepsRaises(db, o, from, to) ==
  /\ Class[o] = "pacemaker" /\ from = "stopped" /\ to = "unconfigured"
  /\ \E t \in Targets \ db.deleted : HostsOf[o] \subseteq HostsOf[t]

Satisfied(db, d) == db.state[d.on] \in d.acceptable

-----------------------------------------------------------------------------
(* Who may depend on whom *)

TargetsOn(db, hosts) == {t \in Targets \ db.deleted : hosts \subseteq HostsOf[t]}
MountsOn(db, hosts) == {m \in OfClass("client_mount") \ db.deleted :
                          HostsOf[m] = hosts /\ FilesystemOf[m] \ db.deleted # {}}

NoDependentObjects(db, o) == {}
\* get_dependent_objects: reverse_deps of all the classes
DependentObjects(db, o) ==
  CASE Class[o] = "host" ->
         UNION {ConfigsOf(c, {o}) \ db.deleted : c \in {"lnet", "pacemaker", "ntp"}}
         \cup TargetsOn(db, {o})
         \cup (IF o \in Immutable THEN {} ELSE MountsOn(db, {o}))
    [] Class[o] = "lnet" ->
         TargetsOn(db, HostsOf[o])
         \cup {m \in MountsOn(db, HostsOf[o]) : FilesystemOf[m] \cap Immutable = {}}
    [] Class[o] = "pacemaker" ->
         TargetsOn(db, HostsOf[o])
         \cup (ConfigsOf("corosync", HostsOf[o]) \ db.deleted)
    [] Class[o] = "filesystem" ->
         MembersOf(db, o)
         \cup {x \in Live(db) : Class[x] \in {"client_mount", "fs_ticket"}
                                /\ FilesystemOf[x] = {o}}
    [] Class[o] = "mgs" -> {f \in OfClass("filesystem") \ db.deleted : MgsOf[f] = {o}}
    [] o \in Members -> FilesystemOf[o] \ db.deleted
    [] OTHER -> {}

-----------------------------------------------------------------------------
(* What may be asked of an object *)

Reachable(o, s) == DOMAIN RouteMap[Class[o]][s]

\* get_available_states
AvailableStates(db, o) ==
  LET s  == db.state[o]
      fs == {f \in OfClass("filesystem") \ db.deleted : o \in MgsOf[f]}
  IN  CASE Class[o] = "host" /\ s = "undeployed" ->
             {IF o \in Immutable THEN "monitored" ELSE "managed"}
        [] Class[o] = "host" /\ s = "unconfigured" ->
             {"removed", "packages_installed", "monitored", "managed", "working"}
        [] Class[o] = "host" /\ s = "packages_installed" ->
             {"removed", "monitored", "managed", "working"}
        [] Class[o] = "host" /\ o \in Immutable -> {"removed"}
        [] Class[o] = "filesystem" /\ o \in Immutable -> {"forgotten"}
        [] Class[o] = "mgs" /\ o \in Immutable ->
             IF fs = {} THEN {"forgotten"} ELSE {}
        [] Class[o] # "host" /\ o \in Immutable -> {}
        [] Class[o] = "ost" -> Reachable(o, s) \ {"forgotten"}
        [] Class[o] = "mdt" -> Reachable(o, s) \ {"removed", "forgotten"}
        [] Class[o] = "mgs" ->
             Reachable(o, s)
               \ ((IF fs # {} THEN {"forgotten", "removed"} ELSE {})
                  \cup (IF TicketsOf(db, o) # {} THEN {"removed"} ELSE {}))
        [] Class[o] = "filesystem" ->
             Reachable(o, s)
               \ ((IF s = "unavailable" /\ \A t \in MembersOf(db, o) :
                                             db.state[t] # "mounted"
                   THEN {"stopped"} ELSE {})
                  \cup (IF TicketsOf(db, o) # {} THEN {"removed"} ELSE {}))
        [] OTHER -> Reachable(o, s)
=============================================================================
