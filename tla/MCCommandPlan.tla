--------------------------- MODULE MCCommandPlan ---------------------------
(* One site with three independent parts, and a scenario for each of them. *)
EXTENDS CommandPlan, TLC

\* A server: the host H1 with LNet, Corosync, Pacemaker and NTP
Server == {"H1", "L1", "C1", "P1", "N1"}

\* A filesystem F2 with MGS G2, MDT D2 and a client mount M2, all on host H2
Storage == {"H2", "L2", "C2", "P2", "G2", "D2", "F2", "M2"}

\* Such a filesystem under tickets: K3 for the MGS, J3 for the filesystem
Ticket == {"H3", "L3", "G3", "D3", "F3", "K3", "J3"}

SiteObjects == Server \cup Storage \cup Ticket
SiteClass ==
  [H1 |-> "host", L1 |-> "lnet", C1 |-> "corosync", P1 |-> "pacemaker", N1 |-> "ntp",
   H2 |-> "host", L2 |-> "lnet", C2 |-> "corosync", P2 |-> "pacemaker",
   G2 |-> "mgs", D2 |-> "mdt", F2 |-> "filesystem", M2 |-> "client_mount",
   H3 |-> "host", L3 |-> "lnet", G3 |-> "mgs", D3 |-> "mdt", F3 |-> "filesystem",
   K3 |-> "master_ticket", J3 |-> "fs_ticket"]

Functional(pairs) == [o \in Objects |-> {p[2] : p \in {q \in pairs : q[1] = o}}]
SiteHosts == Functional(
  {<<o, "H1">> : o \in {"L1", "C1", "P1", "N1"}}
  \cup {<<o, "H2">> : o \in {"L2", "C2", "P2", "G2", "D2", "M2"}}
  \cup {<<o, "H3">> : o \in {"L3", "G3", "D3"}})
SiteFilesystem == Functional({<<"D2", "F2">>, <<"M2", "F2">>, <<"D3", "F3">>, <<"J3", "F3">>})
SiteMgs == Functional({<<"F2", "G2">>, <<"F3", "G3">>, <<"K3", "G3">>})

SiteState ==
  [H1 |-> "unconfigured", L1 |-> "unconfigured", C1 |-> "unconfigured",
   P1 |-> "unconfigured", N1 |-> "unconfigured",
   H2 |-> "managed", L2 |-> "lnet_up", C2 |-> "started", P2 |-> "started",
   G2 |-> "unmounted", D2 |-> "unmounted", F2 |-> "stopped", M2 |-> "unmounted",
   H3 |-> "managed", L3 |-> "lnet_up", G3 |-> "unmounted", D3 |-> "unmounted",
   F3 |-> "stopped", K3 |-> "revoked", J3 |-> "revoked"]

Forwards == <<"H1", "L1", "C1", "P1", "N1", "H2", "L2", "C2", "P2", "G2", "D2", "F2",
              "M2", "H3", "L3", "G3", "D3", "F3", "K3", "J3">>
SiteOrders == {Forwards, [i \in DOMAIN Forwards |-> Forwards[Len(Forwards) + 1 - i]]}

Part(objects, vias, r, f, m) ==
  [objects |-> objects, vias |-> vias, requests |-> r, failures |-> f, moves |-> m]
SiteScenarios ==
  [server    |-> Part(Server, {"managed", "monitored"}, 2, 1, 0),
   storage   |-> Part(Storage, {"managed"}, 2, 1, 0),
   ticket    |-> Part(Ticket, {"managed"}, 2, 1, 0),
   disturbed |-> Part(Storage, {"managed"}, 1, 1, 2)]
StorageOnly == [storage |-> Part(Storage, {"managed"}, 2, 0, 0)]

\* Requests whose plans are known to go wrong
KnownGaps == {<<"host", "packages_installed", "removed">>,
              <<"filesystem", "stopped", "forgotten">>}
NoObjects == {}
=============================================================================
