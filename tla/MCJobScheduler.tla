--------------------------- MODULE MCJobScheduler ---------------------------
(* A manager with one LNet object L and one target T that needs L up: the  *)
(* smallest system in which jobs chain on one item, hold each other's      *)
(* items and cascade when one of them is cancelled.                        *)
EXTENDS JobScheduler

CONSTANTS L, T

MCItems == {L, T}
MCStates == {"up", "down"}
LUp == [on |-> L, accept |-> {"up"}, prefer |-> "up", fix |-> "down"]
MCStaticDeps ==
  [i \in MCItems |-> [s \in MCStates |->
     IF i = T /\ s = "up" THEN {LUp} ELSE {}]]
MCDependents == [i \in MCItems |-> IF i = L THEN {T} ELSE {}]

Change(i, from, to) ==
  [obj |-> i, old |-> from, new |-> to, deps |-> {}, reads |-> {},
   writes |-> {}, steps |-> TRUE, flaky |-> FALSE]
(* A job with no stateful object that needs and writes T.                  *)
Maintain == [obj |-> NoItem, old |-> "up", new |-> "up", deps |-> {},
             reads |-> {}, writes |-> {T}, steps |-> TRUE, flaky |-> TRUE]
(* What the completion hooks add when the target changed.                 *)
ApplyConfParams == [obj |-> NoItem, old |-> "up", new |-> "up",
           deps |-> {[on |-> T, accept |-> {"up"}, prefer |-> "up",
                      fix |-> "down"]},
           reads |-> {}, writes |-> {}, steps |-> FALSE, flaky |-> FALSE]

MCJobSpecs == {Change(i, s, t) : i \in MCItems, s, t \in MCStates}
                \cup {Maintain, ApplyConfParams}

Set(i, s) == [op |-> "set_state", item |-> i, to |-> s]
Run == [op |-> "run_jobs", item |-> T, to |-> "up"]
TargetChanges == {Set(T, "up"), Set(T, "down")}
TargetRequests == TargetChanges \cup {Run}
StopRequests == {Set(L, "down"), Set(T, "up")}
AllRequests == StopRequests \cup TargetRequests

Seqs(ss) == [specs |-> ss, after |-> [x \in DOMAIN ss |-> {}], attach |-> {}]
MCPlanFor(r, actual, expected) ==
  CASE r.op = "run_jobs" -> Seqs(<<Maintain>>)
    [] r.to = expected[r.item] ->
         [Seqs(<<>>) EXCEPT !.attach = IF actual[r.item] = r.to THEN {}
                                       ELSE {r.item}]
    [] r.item = T /\ r.to = "up" /\ expected[L] = "down" ->
         Seqs(<<Change(L, "down", "up"), Change(T, "down", "up")>>)
    [] r.item = L /\ r.to = "down" /\ expected[T] = "up" ->
         Seqs(<<Change(T, "up", "down"), Change(L, "up", "down")>>)
    [] OTHER -> Seqs(<<Change(r.item, expected[r.item], r.to)>>)

AttrReports == {[item |-> T, to |-> NoState, from |-> {}]}
MCReports == AttrReports \cup {[item |-> T, to |-> "down", from |-> {"up"}]}
=============================================================================
