---------------------------- MODULE ActionRunner ----------------------------
(***************************************************************************)
(* Remote actions: the manager's action runner (iml-action-runner), which  *)
(* answers an HTTP request once the agent has run the action, and the      *)
(* action_runner plugin of one agent.  Between them lies the agent link,   *)
(* taken here at the level of SessionStream: AgentLink is how it works.    *)
(*                                                                         *)
(* The service's two maps, `sessions' and `rpcs', have a lock each.  One   *)
(* task consumes the queue rust_agent_action_runner_rx; every request is a *)
(* task of its own, and awaits its answer without a time limit.            *)
(***************************************************************************)
EXTENDS Naturals, Sequences, FiniteSets

CONSTANTS
  Actions,       \* the ids of the actions requested
  NoAction,      \* no action (a message about a session)
  MaxSessions,   \* bound: sessions the link opens
  MaxCancels,    \* bound: actions that are cancelled
  MaxFaults      \* bound: faults of any kind

ASSUME BoundsAssumption == {MaxSessions, MaxCancels, MaxFaults} \subseteq Nat

NoSession == 0   \* no session: ids are issued from 1

VARIABLES
  \* the service
  sessions,   \* the session held for the host, or NoSession
  rpcs,       \* session -> the actions in flight under it
  moving,     \* create_session, between its lock sections
  resends,    \* spawned tasks that send an action again
  alive,      \* the consumer task has not panicked
  call,       \* action -> its ActionStart request
  cancel,     \* action -> its ActionCancel request
  gone,       \* actions whose receiver was dropped
  \* the link
  cur,        \* the comms process's current session
  issued,     \* the number of sessions opened
  owed,       \* a SessionCreateResponse not published yet, or NoSession
  rx,         \* messages to the service
  down,       \* messages to the agent
  \* the agent
  active,     \* the session the agent has Active, or NoSession
  runs,       \* the actions running, with the session each runs under
  posts,      \* results being posted
  \* history
  ran,        \* actions that ran to their end
  torn,       \* actions cut short by a teardown
  raced,      \* requests whose session was no longer held when they registered
  overtook,   \* requests that registered under a session still being moved into
  early,      \* requests sent under a session the agent did not have Active
  lost,       \* actions one of whose results was lost
  faults

serviceVars == <<sessions, rpcs, moving, resends, alive>>
callVars == <<call, cancel, gone>>
linkVars == <<cur, issued, owed>>
agentVars == <<active, runs, posts>>
historyVars == <<ran, torn, raced, overtook, early, lost>>
vars == <<sessions, rpcs, moving, resends, alive, call, cancel, gone, cur, issued, owed, rx, down,
          active, runs, posts, ran, torn, raced, overtook, early, lost, faults>>

Request(k, s, o) == [at |-> k, id |-> s, outcome |-> o]
NewRequest == Request("new", NoSession, "none")
NotMoving == [at |-> "none", old |-> NoSession, xs |-> {}]

\* to the agent: an action to start, one to cancel, or a new session
ManagerMessage(t, s, a) == [type |-> t, id |-> s, action |-> a]
\* to the service; r is the result of action a, if there is one
PluginMessage(t, s, a, r) == [type |-> t, id |-> s, action |-> a, result |-> r]

Init ==
  /\ sessions = NoSession
  /\ rpcs = <<>>
  /\ moving = NotMoving
  /\ resends = {}
  /\ alive = TRUE
  /\ call = [a \in Actions |-> NewRequest]
  /\ cancel = [a \in Actions |-> NewRequest]
  /\ gone = {}
  /\ cur = NoSession /\ issued = 0 /\ owed = NoSession
  /\ rx = <<>> /\ down = <<>>
  /\ active = NoSession /\ runs = {} /\ posts = {}
  /\ ran = {} /\ torn = {} /\ raced = {} /\ overtook = {} /\ early = {} /\ lost = {}
  /\ faults = 0

Fault == faults < MaxFaults /\ faults' = faults + 1

-----------------------------------------------------------------------------
(* ActionInFlight: the map of maps, and completing a request.              *)

RpcsOf(s) == IF s \in DOMAIN rpcs THEN rpcs[s] ELSE {}

HasActionInFlight(s, a) == a \in RpcsOf(s)

InsertActionInFlight(s, a) ==
  rpcs' = [t \in DOMAIN rpcs \cup {s} |-> IF t = s THEN RpcsOf(s) \cup {a} ELSE rpcs[t]]

RemoveActionInFlight(s, a) == [t \in DOMAIN rpcs |-> IF t = s THEN rpcs[t] \ {a} ELSE rpcs[t]]

Without(s) == [t \in DOMAIN rpcs \ {s} |-> rpcs[t]]

(***************************************************************************)
(* complete: the requests of xs get outcome o.  A receiver that is gone    *)
(* makes send return an error, which the caller of complete unwraps.       *)
(***************************************************************************)
Complete(xs, o) ==
  call' = [a \in Actions |-> IF a \in xs \ gone THEN Request("done", call[a].id, o) ELSE call[a]]

-----------------------------------------------------------------------------
(* A request to start an action: remote_action::run.                       *)

AwaitSession(a) ==
  /\ call[a].at = "new"
  /\ call' = [call EXCEPT ![a] = IF sessions = NoSession
                                   THEN Request("done", NoSession, "error")
                                   ELSE Request("ready", sessions, "none")]
  /\ UNCHANGED <<serviceVars, cancel, gone, linkVars, rx, down, agentVars, historyVars, faults>>

Insert(a) ==
  /\ call[a].at = "ready"
  /\ InsertActionInFlight(call[a].id, a)
  /\ call' = [call EXCEPT ![a].at = "inserted"]
  /\ raced' = IF call[a].id = sessions THEN raced ELSE raced \cup {a}
  /\ overtook' = IF moving.at # "none" /\ call[a].id = sessions THEN overtook \cup {a} ELSE overtook
  /\ UNCHANGED <<sessions, moving, resends, alive, cancel, gone, linkVars, rx, down, agentVars, ran, torn, early, lost, faults>>

Send(a) ==
  /\ call[a].at = "inserted"
  /\ down' = Append(down, ManagerMessage("ActionStart", call[a].id, a))
  /\ call' = [call EXCEPT ![a].at = "waiting"]
  /\ early' = IF call[a].id = active THEN early ELSE early \cup {a}
  /\ UNCHANGED <<serviceVars, cancel, gone, linkVars, rx, agentVars, ran, torn, raced, overtook, lost, faults>>

(* Variant: the request ends without an answer.                            *)
SendFailsUnanswered(a) ==
  /\ call[a].at = "inserted"
  /\ Fault
  /\ rpcs' = RemoveActionInFlight(call[a].id, a)
  /\ call' = [call EXCEPT ![a].at = "done"]
  /\ gone' = gone \cup {a}
  /\ UNCHANGED <<sessions, moving, resends, alive, cancel, linkVars, rx, down, agentVars, historyVars>>

SendFails(a) ==
  /\ call[a].at = "inserted"
  /\ Fault
  /\ rpcs' = RemoveActionInFlight(call[a].id, a)
  /\ call' = [call EXCEPT ![a] = Request("done", @.id, "error")]
  /\ gone' = gone \cup {a}
  /\ UNCHANGED <<sessions, moving, resends, alive, cancel, linkVars, rx, down, agentVars, historyVars>>

(***************************************************************************)
(* The client of a request closes its connection: the request is dropped.  *)
(***************************************************************************)
Disconnect(a) ==
  /\ call[a].at \in {"inserted", "waiting"}
  /\ Fault
  /\ call' = [call EXCEPT ![a] = Request("done", @.id, "dropped")]
  /\ gone' = gone \cup {a}
  /\ UNCHANGED <<serviceVars, cancel, linkVars, rx, down, agentVars, historyVars>>

-----------------------------------------------------------------------------
(* A request to cancel an action: cancel_running_action.                   *)

CancelAwait(a) ==
  /\ cancel[a].at = "new" /\ call[a].at = "waiting"
  /\ Cardinality({b \in Actions : cancel[b].at # "new"}) < MaxCancels
  /\ sessions # NoSession
  /\ cancel' = [cancel EXCEPT ![a] = Request("ready", sessions, "none")]
  /\ UNCHANGED <<serviceVars, call, gone, linkVars, rx, down, agentVars, historyVars, faults>>

CancelSend(a) ==
  /\ cancel[a].at = "ready"
  /\ IF HasActionInFlight(cancel[a].id, a)
       THEN /\ down' = Append(down, ManagerMessage("ActionCancel", cancel[a].id, a))
            /\ cancel' = [cancel EXCEPT ![a].at = "sent"]
       ELSE /\ cancel' = [cancel EXCEPT ![a].at = "done"]
            /\ UNCHANGED down
  /\ UNCHANGED <<serviceVars, call, gone, linkVars, rx, agentVars, historyVars, faults>>

CancelRemove(a) ==
  /\ cancel[a].at = "sent"
  /\ cancel' = [cancel EXCEPT ![a].at = "done"]
  /\ IF HasActionInFlight(cancel[a].id, a)
       THEN /\ rpcs' = RemoveActionInFlight(cancel[a].id, a)
            /\ Complete({a}, "null")
       ELSE UNCHANGED <<rpcs, call>>
  /\ UNCHANGED <<sessions, moving, resends, alive, gone, linkVars, rx, down, agentVars, historyVars, faults>>

-----------------------------------------------------------------------------
(* The consumer of rust_agent_action_runner_rx: handle_agent_data.         *)

(* Variant: the actions in flight are left behind.                         *)
TerminateSessionOnly ==
  /\ sessions' = NoSession
  /\ UNCHANGED <<rpcs, call, alive>>

(* Variant: the requests are told that all is well.                        *)
TerminateSessionOk ==
  /\ sessions' = NoSession
  /\ rpcs' = Without(sessions)
  /\ Complete(RpcsOf(sessions), "null")
  /\ alive' = (RpcsOf(sessions) \cap gone = {})

(***************************************************************************)
(* terminate_session: an unwrap that fails ends the consumer; the senders  *)
(* it had not come to are dropped, which their requests see as an error.   *)
(***************************************************************************)
TerminateSession ==
  /\ sessions' = NoSession
  /\ rpcs' = Without(sessions)
  /\ Complete(RpcsOf(sessions), "error")
  /\ alive' = (RpcsOf(sessions) \cap gone = {})

HandleCreate(s) ==
  /\ sessions' = s
  /\ moving' = IF sessions = NoSession THEN NotMoving ELSE [NotMoving EXCEPT !.at = "take", !.old = sessions]
  /\ UNCHANGED <<rpcs, alive, call>>

HandleTerminate(s) ==
  /\ IF sessions = s THEN TerminateSession ELSE UNCHANGED <<sessions, rpcs, alive, call>>
  /\ UNCHANGED moving

HandleData(s, a, r) ==
  /\ CASE sessions = s ->
            /\ rpcs' = RemoveActionInFlight(s, a)
            /\ IF HasActionInFlight(s, a)
                 THEN Complete({a}, r) /\ alive' = (a \notin gone)
                 ELSE UNCHANGED <<call, alive>>
            /\ UNCHANGED sessions
       [] sessions # s /\ sessions # NoSession -> TerminateSession
       [] OTHER -> UNCHANGED <<sessions, rpcs, alive, call>>
  /\ UNCHANGED moving

HandleAgentData ==
  /\ alive /\ moving.at = "none" /\ rx # <<>>
  /\ rx' = Tail(rx)
  /\ LET m == Head(rx)
     IN CASE m.type = "SessionCreate" -> HandleCreate(m.id)
          [] m.type = "SessionTerminate" -> HandleTerminate(m.id)
          [] m.type = "Data" -> HandleData(m.id, m.action, m.result)
  /\ UNCHANGED <<resends, cancel, gone, linkVars, down, agentVars, historyVars, faults>>

(***************************************************************************)
(* The rest of create_session, when a session was held before: its actions *)
(* are taken, a task is spawned to send each of them again, and they are   *)
(* put under the new session.                                              *)
(***************************************************************************)
TakeRpcs ==
  /\ moving.at = "take"
  /\ moving' = IF moving.old \in DOMAIN rpcs
                 THEN [moving EXCEPT !.at = "put", !.xs = RpcsOf(moving.old)]
                 ELSE NotMoving
  /\ rpcs' = Without(moving.old)
  /\ resends' = resends \cup {[action |-> a, id |-> sessions] : a \in RpcsOf(moving.old)}
  /\ UNCHANGED <<sessions, alive, callVars, linkVars, rx, down, agentVars, historyVars, faults>>

(* Variant: the actions taken are dropped, those already there stay.       *)
PutRpcsDropsTaken ==
  /\ moving.at = "put"
  /\ moving' = NotMoving
  /\ Complete(moving.xs, "dropped")
  /\ UNCHANGED <<sessions, rpcs, resends, alive, cancel, gone, linkVars, rx, down, agentVars, historyVars, faults>>

PutRpcs ==
  /\ moving.at = "put"
  /\ moving' = NotMoving
  /\ rpcs' = [s \in DOMAIN rpcs \cup {sessions} |-> IF s = sessions THEN moving.xs ELSE rpcs[s]]
  /\ Complete(RpcsOf(sessions), "dropped")
  /\ UNCHANGED <<sessions, resends, alive, cancel, gone, linkVars, rx, down, agentVars, historyVars, faults>>

(***************************************************************************)
(* Such a task sends its message, or logs that it could not.               *)
(***************************************************************************)
Resend(x) ==
  /\ resends' = resends \ {x}
  /\ \/ /\ down' = Append(down, ManagerMessage("ActionStart", x.id, x.action))
        /\ early' = IF x.id = active THEN early ELSE early \cup {x.action}
        /\ UNCHANGED lost
     \/ /\ lost' = lost \cup {x.action}
        /\ UNCHANGED <<down, early>>
  /\ UNCHANGED <<sessions, rpcs, moving, alive, callVars, linkVars, rx, agentVars, ran, torn, raced, overtook,
                 faults>>

-----------------------------------------------------------------------------
(* The link.                                                               *)

(***************************************************************************)
(* The agent has no session and asks for one: the service is told of the   *)
(* end of the old one and of the new one, and then the agent.              *)
(***************************************************************************)
Open ==
  /\ active = NoSession /\ owed = NoSession
  /\ issued < MaxSessions
  /\ issued' = issued + 1
  /\ cur' = issued'
  /\ owed' = issued'
  /\ rx' = rx \o (IF cur = NoSession THEN <<>>
                  ELSE <<PluginMessage("SessionTerminate", cur, NoAction, "none")>>)
              \o <<PluginMessage("SessionCreate", issued', NoAction, "none")>>
  /\ UNCHANGED <<serviceVars, callVars, down, agentVars, historyVars, faults>>

Respond ==
  /\ owed # NoSession
  /\ down' = Append(down, ManagerMessage("SessionCreateResponse", owed, NoAction))
  /\ owed' = NoSession
  /\ UNCHANGED <<serviceVars, callVars, cur, issued, rx, agentVars, historyVars, faults>>

(***************************************************************************)
(* Teardown of the plugin ends its actions; each posts a null result under *)
(* the session it was started in.                                          *)
(***************************************************************************)
Result(x, r) == [action |-> x.action, id |-> x.id, result |-> r]

Teardown ==
  /\ active' = NoSession
  /\ runs' = {x \in runs : x.id # active}
  /\ posts' = posts \cup {Result(x, "null") : x \in runs \ runs'}
  /\ torn' = torn \cup {x.action : x \in runs \ runs'}

(***************************************************************************)
(* The agent's GET fails; what was drained for it may be lost.             *)
(***************************************************************************)
Lose ==
  /\ active # NoSession
  /\ Fault
  /\ Teardown
  /\ down' \in {down, <<>>}
  /\ UNCHANGED <<serviceVars, callVars, linkVars, rx, ran, raced, overtook, early, lost>>

(***************************************************************************)
(* The comms process restarts, and the agent's GET fails with it.          *)
(***************************************************************************)
Forget ==
  /\ Fault
  /\ cur' = NoSession
  /\ owed' = NoSession
  /\ Teardown
  /\ UNCHANGED <<serviceVars, callVars, issued, rx, down, ran, raced, overtook, early, lost>>

AgentDies ==
  /\ Fault
  /\ active' = NoSession
  /\ runs' = {}
  /\ posts' = {}
  /\ UNCHANGED <<serviceVars, callVars, linkVars, rx, down, historyVars>>

-----------------------------------------------------------------------------
(* The agent's action_runner plugin: on_message.                           *)

(***************************************************************************)
(* A message of a session that is not current is dropped by the comms      *)
(* process, one that finds no Active session by the agent.  A cancel ends  *)
(* the action if it runs; both then answer null under one id, which is one *)
(* post here, since the service ignores the second.                        *)
(***************************************************************************)
OnMessage ==
  /\ down # <<>>
  /\ down' = Tail(down)
  /\ LET m == Head(down)
         x == [action |-> m.action, id |-> active]
     IN CASE m.id # cur -> UNCHANGED agentVars
          [] m.id = cur /\ m.type = "SessionCreateResponse" ->
               active' = m.id /\ UNCHANGED <<runs, posts>>
          [] m.id = cur /\ m.type = "ActionStart" /\ active # NoSession ->
               runs' = runs \cup {x} /\ UNCHANGED <<active, posts>>
          [] m.id = cur /\ m.type = "ActionCancel" /\ active # NoSession ->
               /\ runs' = runs \ {x}
               /\ posts' = posts \cup {Result(x, "null")}
               /\ UNCHANGED active
          [] OTHER -> UNCHANGED agentVars
  /\ UNCHANGED <<serviceVars, callVars, linkVars, rx, historyVars, faults>>

(* Variant: only the result of a cancelled action is posted.               *)
FinishUncancelled(x) ==
  /\ runs' = runs \ {x}
  /\ posts' = IF cancel[x.action].at = "new" THEN posts ELSE posts \cup {Result(x, "value")}
  /\ ran' = ran \cup {x.action}
  /\ UNCHANGED <<serviceVars, callVars, linkVars, rx, down, active, torn, raced, overtook, early, lost, faults>>

Finish(x) ==
  /\ runs' = runs \ {x}
  /\ posts' = posts \cup {Result(x, "value")}
  /\ ran' = ran \cup {x.action}
  /\ UNCHANGED <<serviceVars, callVars, linkVars, rx, down, active, torn, raced, overtook, early, lost, faults>>

(***************************************************************************)
(* The result is posted: forwarded if its session is current.  A POST that *)
(* fails is only logged.                                                   *)
(***************************************************************************)
Post(x) ==
  /\ posts' = posts \ {x}
  /\ \/ /\ rx' = IF x.id = cur THEN Append(rx, PluginMessage("Data", x.id, x.action, x.result)) ELSE rx
        /\ UNCHANGED <<faults, lost>>
     \/ /\ Fault
        /\ lost' = lost \cup {x.action}
        /\ UNCHANGED rx
  /\ UNCHANGED <<serviceVars, callVars, linkVars, down, active, runs, ran, torn, raced, overtook, early>>

Next ==
  \/ \E a \in Actions :
       \/ AwaitSession(a) \/ Insert(a) \/ Send(a) \/ SendFails(a) \/ Disconnect(a)
       \/ CancelAwait(a) \/ CancelSend(a) \/ CancelRemove(a)
  \/ HandleAgentData \/ TakeRpcs \/ PutRpcs
  \/ \E x \in resends : Resend(x)
  \/ Open \/ Respond \/ Lose \/ Forget \/ AgentDies
  \/ OnMessage
  \/ \E x \in runs : Finish(x)
  \/ \E x \in posts : Post(x)

Spec == Init /\ [][Next]_vars

-----------------------------------------------------------------------------
(* Properties.                                                             *)

(***************************************************************************)
(* Every variable has its type, and a request ends with an outcome.        *)
(***************************************************************************)
TypeOK ==
  /\ sessions \in 0..issued
  /\ DOMAIN rpcs \subseteq 1..issued
  /\ \A s \in DOMAIN rpcs : rpcs[s] \subseteq Actions
  /\ moving.at \in {"none", "take", "put"}
  /\ \A a \in Actions : /\ call[a].at \in {"new", "ready", "inserted", "waiting", "done"}
                        /\ call[a].id \in 0..issued
                        /\ (call[a].at = "done") = (call[a].outcome # "none")

Registered(a) == {s \in DOMAIN rpcs : a \in rpcs[s]}

(***************************************************************************)
(* A request that waits can be answered: its action is in flight under the *)
(* session held (or is being moved there), unless it registered under a    *)
(* session that had been replaced or ended while it got there              *)
(* (remote_action.rs reads the session under one lock and registers under  *)
(* another).                                                               *)
(***************************************************************************)
WaitingIsReachable ==
  \A a \in Actions :
    (call[a].at \in {"inserted", "waiting"} /\ a \notin raced) =>
      \/ Registered(a) = {sessions}
      \/ moving.at = "take" /\ Registered(a) = {moving.old}
      \/ a \in moving.xs /\ Registered(a) = {}

(***************************************************************************)
(* A request is dropped without an answer only if its client went away or  *)
(* it registered under a new session before the old one's actions were put *)
(* there; and the consumer task, without which nobody is answered, ends    *)
(* only over a request whose receiver was dropped.                         *)
(***************************************************************************)
DroppedOnlyInMove ==
  /\ \A a \in Actions : call[a].outcome = "dropped" => (a \in gone \/ a \in overtook)
  /\ gone = {} => alive

(***************************************************************************)
(* A request is answered with a value only if the action ran to its end,   *)
(* and with null only if it was cancelled, or cut short by a teardown.     *)
(***************************************************************************)
AnswerIsEarned ==
  \A a \in Actions :
    /\ call[a].outcome = "value" => a \in ran
    /\ call[a].outcome = "null" => (cancel[a].at \in {"sent", "done"} \/ a \in torn)

(***************************************************************************)
(* A request in flight under a session that the service, the comms process *)
(* and the agent agree on is being worked on, moved from an older session  *)
(* or not: its message, its run, its result or the service's copy of that  *)
(* exists.  What breaks this is known: a POST or a resend that failed (it  *)
(* is not repeated), or a message sent before the agent had the session,   *)
(* which comms announces to the service first (main.rs).                   *)
(***************************************************************************)
InTheWorks(a, s) ==
  \/ \E x \in resends : x.action = a /\ x.id = s
  \/ \E i \in DOMAIN down : down[i] = ManagerMessage("ActionStart", s, a)
  \/ \E x \in runs \cup posts : x.action = a /\ x.id = s
  \/ \E i \in DOMAIN rx : rx[i].type = "Data" /\ rx[i].action = a /\ rx[i].id = s

RequestIsInTheWorks ==
  \A a \in Actions :
    (/\ call[a].at = "waiting" /\ a \notin (early \cup lost) /\ alive
     /\ cur = sessions /\ active = sessions /\ Registered(a) = {sessions})
      => InTheWorks(a, sessions)
=============================================================================
