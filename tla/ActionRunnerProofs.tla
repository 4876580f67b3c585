------------------------- MODULE ActionRunnerProofs -------------------------
(***************************************************************************)
(* Requests for remote actions, for any number of actions, sessions,       *)
(* cancellations and faults: who can still be answered, what an answer     *)
(* means, and who works on a request that waits.                           *)
(***************************************************************************)
EXTENDS ActionRunner, TLAPS

USE ZenonT(20)

(* What travels in both directions.                                        *)
Notices ==
  [type : {"SessionCreate", "SessionTerminate"}, id : Nat, action : {NoAction}, result : {"none"}]
Results == [type : {"Data"}, id : Nat, action : Actions, result : {"value", "null"}]
Orders == [type : {"ActionStart", "ActionCancel"}, id : Nat, action : Actions]
Responses == [type : {"SessionCreateResponse"}, id : Nat, action : {NoAction}]

Requests(places) ==
  [at : places, id : Nat, outcome : {"none", "error", "null", "value", "dropped"}]

(* The maps of the service, and the requests.                              *)
MapsInv ==
  /\ issued \in Nat /\ sessions \in 0..issued
  /\ DOMAIN rpcs \subseteq 1..issued
  /\ rpcs \in [DOMAIN rpcs -> SUBSET Actions]
  /\ moving \in [at : {"none", "take", "put"}, old : Nat, xs : SUBSET Actions]
  /\ moving.at # "put" => moving.xs = {}
  /\ moving.at # "none" => sessions # NoSession
CallsInv ==
  /\ call \in [Actions -> Requests({"new", "ready", "inserted", "waiting", "done"})]
  /\ \A a \in Actions :
       /\ call[a].id <= issued
       /\ (call[a].at = "done") = (call[a].outcome # "none")
       /\ call[a].at \in {"ready", "inserted", "waiting"} => call[a].id # NoSession
  /\ cancel \in [Actions -> Requests({"new", "ready", "sent", "done"})]
  /\ gone \subseteq Actions /\ \A a \in gone : call[a].at = "done"
LinkInv ==
  /\ cur \in 0..issued /\ owed \in 0..issued /\ active \in {NoSession, cur}
  /\ rx \in Seq(Notices \cup Results) /\ down \in Seq(Orders \cup Responses)
  /\ resends \subseteq [action : Actions, id : Nat \ {NoSession}]
  /\ runs \subseteq [action : Actions, id : Nat]
  /\ posts \subseteq [action : Actions, id : Nat, result : {"value", "null"}]

(* A request that has not registered is nowhere in the maps.               *)
NotYet ==
  \A a \in Actions :
    call[a].at \in {"new", "ready"} => a \notin moving.xs /\ \A s \in DOMAIN rpcs : a \notin rpcs[s]

ShapeInv == MapsInv /\ CallsInv /\ LinkInv /\ NotYet

(* A session that the service has still to learn of is younger than all it *)
(* knows.                                                                  *)
IsCreate(m) == m.type = "SessionCreate"
Fresh(n) ==
  /\ n <= issued /\ sessions < n
  /\ \A s \in DOMAIN rpcs : s < n
  /\ \A a \in Actions : call[a].id < n
FreshInv ==
  /\ \A i \in 1..Len(rx) : IsCreate(rx[i]) => Fresh(rx[i].id)
  /\ \A i, j \in 1..Len(rx) :
       i < j /\ IsCreate(rx[i]) /\ IsCreate(rx[j]) => rx[i].id < rx[j].id

(* What is found under the new session while actions are moved to it came  *)
(* there during the move.                                                  *)
MoveInv == moving.at # "none" => \A a \in RpcsOf(sessions) : a \in overtook

(* Results on their way are as earned as the answers they become.          *)
Earned(a, r) ==
  /\ r = "value" => a \in ran
  /\ r = "null" => (cancel[a].at \in {"sent", "done"} \/ a \in torn)
EarnedInv ==
  /\ \A i \in 1..Len(down) :
       down[i].type = "ActionCancel" => cancel[down[i].action].at \in {"sent", "done"}
  /\ \A x \in posts : Earned(x.action, x.result)
  /\ \A i \in 1..Len(rx) : rx[i].type = "Data" => Earned(rx[i].action, rx[i].result)

(* The response that makes s the agent's session is not to come any more;  *)
(* if s is not that session, it will never be.                             *)
Spent(s) ==
  /\ s \in 1..issued /\ s # owed
  /\ \A i \in 1..Len(down) : down[i].type = "SessionCreateResponse" => down[i].id # s
Dead(s) == Spent(s) /\ active # s

AgentInv ==
  /\ active # NoSession => Spent(active)
  /\ \A x \in runs \cup posts : Spent(x.id)
  /\ \A i \in 1..Len(down) :
       /\ down[i].type = "SessionCreateResponse" => down[i].id \in 1..issued /\ down[i].id # owed
       /\ down[i].type = "ActionStart" /\ down[i].action \notin early => Spent(down[i].id)
  /\ \A i, j \in 1..Len(down) :
       down[i].type = "SessionCreateResponse" /\ down[j].type = "SessionCreateResponse"
         /\ down[i].id = down[j].id => i = j

(* An action under the session held, other than one still to be sent, or   *)
(* on its way there is worked on, or that session is over at the agent.    *)
Sent(a) == call[a].at = "waiting" \/ call[a].id # sessions
WorksInv ==
  alive => \A a \in Actions \ (early \cup lost) :
    ((a \in RpcsOf(sessions) /\ Sent(a)) \/ a \in moving.xs) =>
      InTheWorks(a, sessions) \/ Dead(sessions)

RunnerInv ==
  /\ ShapeInv /\ WaitingIsReachable /\ FreshInv /\ MoveInv /\ DroppedOnlyInMove
  /\ EarnedInv /\ AnswerIsEarned /\ AgentInv /\ WorksInv

-----------------------------------------------------------------------------
(* One message consumed by each side.                                      *)

(* A result under the session held is handed to its request.               *)
Answer(m) ==
  /\ m \in Results /\ sessions = m.id
  /\ rpcs' = RemoveActionInFlight(m.id, m.action)
  /\ IF HasActionInFlight(m.id, m.action)
       THEN Complete({m.action}, m.result) /\ alive' = (m.action \notin gone)
       ELSE UNCHANGED <<call, alive>>
  /\ UNCHANGED <<sessions, moving>>

(* A queue after a message is appended.                                    *)
LEMMA Appended ==
  ASSUME NEW S, NEW q \in Seq(S), NEW m \in S
  PROVE  /\ Append(q, m) \in Seq(S)
         /\ Len(q) \in Nat /\ Len(Append(q, m)) = Len(q) + 1
         /\ \A i \in 1..Len(q) : Append(q, m)[i] = q[i]
         /\ Append(q, m)[Len(q) + 1] = m
         /\ \A i \in 1..(Len(q) + 1) : i \in 1..Len(q) \/ i = Len(q) + 1
BY SMT

(* handle_agent_data consumes the head of its queue: it opens a session,   *)
(* ends the one held, hands a result over, or ignores the message.         *)
LEMMA Handled ==
  ASSUME rx \in Seq(Notices \cup Results), HandleAgentData
  PROVE  /\ rx[1] \in Notices \cup Results
         /\ rx' \in Seq(Notices \cup Results)
         /\ Len(rx) \in Nat /\ Len(rx') = Len(rx) - 1 /\ Len(rx') \in Nat
         /\ \A i \in 1..Len(rx') : rx'[i] = rx[i + 1] /\ i + 1 \in 1..Len(rx)
         /\ 1 \in 1..Len(rx)
         /\ \/ IsCreate(rx[1]) /\ HandleCreate(rx[1].id)
            \/ TerminateSession /\ UNCHANGED moving
            \/ Answer(rx[1])
            \/ UNCHANGED <<sessions, rpcs, alive, call, moving>>
<1>1. rx # <<>> /\ rx' = Tail(rx)
  BY DEF HandleAgentData
<1>2. /\ Head(rx) = rx[1] /\ rx[1] \in Notices \cup Results
      /\ rx' \in Seq(Notices \cup Results)
      /\ Len(rx) \in Nat /\ Len(rx') = Len(rx) - 1 /\ Len(rx') \in Nat
      /\ \A i \in 1..Len(rx') : rx'[i] = rx[i + 1] /\ i + 1 \in 1..Len(rx)
      /\ 1 \in 1..Len(rx)
  BY SMT, <1>1
<1>3. CASE rx[1].type = "SessionCreate"
  BY <1>2, <1>3 DEF HandleAgentData, IsCreate
<1>4. CASE rx[1].type = "SessionTerminate"
  BY <1>2, <1>4 DEF HandleAgentData, HandleTerminate
<1>5. CASE rx[1].type = "Data"
  <2>1. HandleData(rx[1].id, rx[1].action, rx[1].result) /\ rx[1] \in Results
    BY <1>2, <1>5 DEF HandleAgentData, Notices
  <2>. QED  BY <1>2, <2>1 DEF HandleData, Answer
<1>. QED  BY <1>2, <1>3, <1>4, <1>5 DEF Notices, Results

(* The agent takes the head of its queue: it enters the session, starts or *)
(* cancels an action of the session, or drops the message.                 *)
Enter(m) == m \in Responses /\ active' = m.id /\ m.id = cur /\ UNCHANGED <<runs, posts>>
Start(m) ==
  /\ m \in Orders /\ m.type = "ActionStart" /\ m.id = cur /\ active # NoSession
  /\ runs' = runs \cup {[action |-> m.action, id |-> active]} /\ UNCHANGED <<active, posts>>
Cancel(m) ==
  /\ m \in Orders /\ m.type = "ActionCancel" /\ m.id = cur /\ active # NoSession
  /\ runs' = runs \ {[action |-> m.action, id |-> active]}
  /\ posts' = posts \cup {Result([action |-> m.action, id |-> active], "null")}
  /\ UNCHANGED active
Ignore(m) == (m.id # cur \/ active = NoSession) /\ UNCHANGED <<active, runs, posts>>

(* What the agent finds when it takes a message off the connection.        *)
LEMMA Delivered ==
  ASSUME down \in Seq(Orders \cup Responses), OnMessage
  PROVE  /\ down[1] \in Orders \cup Responses
         /\ down' \in Seq(Orders \cup Responses)
         /\ Len(down) \in Nat /\ Len(down') = Len(down) - 1 /\ Len(down') \in Nat
         /\ \A i \in 1..Len(down') : down'[i] = down[i + 1] /\ i + 1 \in 1..Len(down)
         /\ 1 \in 1..Len(down)
         /\ Enter(down[1]) \/ Start(down[1]) \/ Cancel(down[1]) \/ Ignore(down[1])
<1>1. down # <<>> /\ down' = Tail(down)
  BY DEF OnMessage
<1>2. /\ Head(down) = down[1] /\ down[1] \in Orders \cup Responses
      /\ down' \in Seq(Orders \cup Responses)
      /\ Len(down) \in Nat /\ Len(down') = Len(down) - 1 /\ Len(down') \in Nat
      /\ \A i \in 1..Len(down') : down'[i] = down[i + 1] /\ i + 1 \in 1..Len(down)
      /\ 1 \in 1..Len(down)
  BY SMT, <1>1
<1>3. CASE down[1].id # cur
  BY <1>2, <1>3 DEF OnMessage, agentVars, Ignore
<1>4. CASE down[1].id = cur /\ down[1].type = "SessionCreateResponse"
  BY <1>2, <1>4 DEF OnMessage, agentVars, Enter, Orders
<1>5. CASE down[1].id = cur /\ down[1].type = "ActionStart"
  BY <1>2, <1>5 DEF OnMessage, agentVars, Start, Ignore, Responses
<1>6. CASE down[1].id = cur /\ down[1].type = "ActionCancel"
  BY <1>2, <1>6 DEF OnMessage, agentVars, Cancel, Ignore, Responses
<1>. QED  BY <1>2, <1>3, <1>4, <1>5, <1>6 DEF Orders, Responses

(* The queue to the service after a session is opened.                     *)
LEMMA Opened ==
  ASSUME rx \in Seq(Notices \cup Results), cur \in Nat, issued \in Nat, Open
  PROVE  /\ rx' \in Seq(Notices \cup Results)
         /\ Len(rx) \in Nat /\ Len(rx') \in Nat /\ Len(rx) < Len(rx')
         /\ \A i \in 1..Len(rx) : i \in 1..Len(rx') /\ rx'[i] = rx[i]
         /\ \A i \in 1..Len(rx') :
              \/ i \in 1..Len(rx)
              \/ i = Len(rx') /\ IsCreate(rx'[i]) /\ rx'[i].id = issued + 1
              \/ rx'[i].type = "SessionTerminate"
<1>. DEFINE T == PluginMessage("SessionTerminate", cur, NoAction, "none")
            C == PluginMessage("SessionCreate", issued + 1, NoAction, "none")
<1>1. T \in Notices /\ C \in Notices /\ IsCreate(C) /\ C.id = issued + 1 /\ T.type = "SessionTerminate"
  BY SMT DEF PluginMessage, Notices, IsCreate
<1>2. rx' = rx \o (IF cur = NoSession THEN <<>> ELSE <<T>>) \o <<C>>
  BY DEF Open
<1>. HIDE DEF T, C
<1>3. CASE cur = NoSession
  <2>1. rx \o <<>> = rx
    BY SMT
  <2>2. rx' = Append(rx, C)
    BY SMT, <1>2, <1>3, <2>1, <1>1
  <2>. QED  BY SMT, <1>1, <2>2
<1>4. CASE cur # NoSession
  <2>1. rx \o <<T>> = Append(rx, T)
    BY SMT, <1>1
  <2>2. Append(rx, T) \in Seq(Notices \cup Results)
    BY SMT, <1>1
  <2>3. \A q \in Seq(Notices \cup Results) : q \o <<C>> = Append(q, C)
    BY SMT, <1>1
  <2>4. rx' = Append(Append(rx, T), C)
    BY <1>2, <1>4, <2>1, <2>2, <2>3
  <2>. QED  BY SMT, <1>1, <2>2, <2>4
<1>. QED  BY <1>3, <1>4

-----------------------------------------------------------------------------
(* The shape of the state.                                                 *)

(* The state the service, the comms process and the agent start in has     *)
(* these shapes.                                                           *)
LEMMA ShapeInit == Init => ShapeInv
<1>. SUFFICES ASSUME Init PROVE ShapeInv
  OBVIOUS
<1>1. MapsInv
  BY SMT DEF Init, MapsInv, NoSession, NotMoving
<1>2. CallsInv
  BY SMT DEF Init, CallsInv, NoSession, NewRequest, Request, Requests
<1>3. LinkInv
  BY SMT DEF Init, LinkInv, NoSession
<1>4. NotYet
  BY SMT DEF Init, NotYet, NotMoving
<1>. QED  BY <1>1, <1>2, <1>3, <1>4 DEF ShapeInv

(* The maps of the service hold one session and requests of it, whatever   *)
(* the step.                                                               *)
LEMMA MapsStep == ShapeInv /\ FreshInv /\ [Next]_vars => MapsInv'
<1>. SUFFICES ASSUME ShapeInv, FreshInv, [Next]_vars PROVE MapsInv'
  OBVIOUS
<1>. USE DEF ShapeInv, MapsInv
<1>1. ASSUME NEW a \in Actions, Insert(a) PROVE MapsInv'
  BY SMT, <1>1 DEF Insert, InsertActionInFlight, RpcsOf, CallsInv, Requests, NoSession, linkVars
<1>2. ASSUME NEW a \in Actions, SendFails(a) PROVE MapsInv'
  BY <1>2 DEF SendFails, RemoveActionInFlight, linkVars
<1>3. ASSUME NEW a \in Actions, CancelRemove(a) PROVE MapsInv'
  BY SMT, <1>3 DEF CancelRemove, RemoveActionInFlight, linkVars
<1>4. ASSUME HandleAgentData PROVE MapsInv'
  <2>1. issued' = issued /\ moving.at = "none" /\ rx \in Seq(Notices \cup Results)
    BY <1>4 DEF HandleAgentData, linkVars, LinkInv
  <2>2. ASSUME IsCreate(rx[1]), HandleCreate(rx[1].id) PROVE MapsInv'
    <3>1. rx[1].id \in Nat /\ rx[1].id <= issued /\ sessions < rx[1].id
      BY <1>4, <2>1, <2>2, Handled DEF FreshInv, Fresh, Notices, Results
    <3>2. /\ moving' \in [at : {"none", "take", "put"}, old : Nat, xs : SUBSET Actions]
          /\ moving'.at # "put" /\ moving'.xs = {}
      <4>1. CASE sessions = NoSession
        BY <2>2, <4>1 DEF HandleCreate, NotMoving, NoSession
      <4>2. CASE sessions # NoSession
        <5>1. moving' = [at |-> "take", old |-> sessions, xs |-> {}]
          BY <2>2, <4>2 DEF HandleCreate, NotMoving
        <5>. QED  BY SMT, <5>1
      <4>. QED  BY <4>1, <4>2
    <3>. QED  BY SMT, <2>1, <2>2, <3>1, <3>2 DEF HandleCreate, NoSession
  <2>3. ASSUME TerminateSession, UNCHANGED moving PROVE MapsInv'
    <3>1. rpcs' = [t \in DOMAIN rpcs \ {sessions} |-> rpcs[t]] /\ sessions' = 0
      BY <2>3 DEF TerminateSession, Without, NoSession
    <3>2. DOMAIN rpcs' \subseteq DOMAIN rpcs /\ rpcs' \in [DOMAIN rpcs' -> SUBSET Actions]
      BY <3>1
    <3>. QED  BY SMT, <2>1, <2>3, <3>1, <3>2
  <2>4. ASSUME Answer(rx[1]) PROVE MapsInv'
    BY <2>1, <2>4 DEF Answer, RemoveActionInFlight
  <2>5. ASSUME UNCHANGED <<sessions, rpcs, alive, call, moving>> PROVE MapsInv'
    BY <2>1, <2>5
  <2>. QED  BY <1>4, <2>1, <2>2, <2>3, <2>4, <2>5, Handled
<1>5. ASSUME TakeRpcs PROVE MapsInv'
  BY <1>5 DEF TakeRpcs, RpcsOf, Without, NotMoving, NoSession, linkVars
<1>6. ASSUME PutRpcs PROVE MapsInv'
  BY SMT, <1>6 DEF PutRpcs, NotMoving, NoSession, linkVars
<1>7. ASSUME Open PROVE MapsInv'
  BY SMT, <1>7 DEF Open, serviceVars
<1>8. ASSUME NEW a \in Actions,
             AwaitSession(a) \/ Send(a) \/ Disconnect(a) \/ CancelAwait(a) \/ CancelSend(a)
      PROVE  MapsInv'
  BY <1>8 DEF AwaitSession, Send, Disconnect, CancelAwait, CancelSend, serviceVars, linkVars
<1>9. ASSUME Respond \/ Lose \/ Forget \/ AgentDies \/ OnMessage PROVE MapsInv'
  BY <1>9 DEF Respond, Lose, Forget, AgentDies, OnMessage, serviceVars, linkVars
<1>10. ASSUME NEW x, Resend(x) \/ Finish(x) \/ Post(x) PROVE MapsInv'
  BY <1>10 DEF Resend, Finish, Post, serviceVars, linkVars
<1>11. ASSUME UNCHANGED vars PROVE MapsInv'
  BY <1>11 DEF vars
<1>. QED  BY <1>1, <1>2, <1>3, <1>4, <1>5, <1>6, <1>7, <1>8, <1>9, <1>10, <1>11 DEF Next

(* Every step leaves a request in a place of its protocol.                 *)
LEMMA CallsStep == ShapeInv /\ [Next]_vars => CallsInv'
<1>. SUFFICES ASSUME ShapeInv, [Next]_vars PROVE CallsInv'
  OBVIOUS
<1>. USE DEF ShapeInv, CallsInv, Requests, Request
<1>1. ASSUME NEW a \in Actions, AwaitSession(a) PROVE CallsInv'
  BY SMT, <1>1 DEF AwaitSession, MapsInv, NoSession, linkVars
<1>2. ASSUME NEW a \in Actions, Insert(a) PROVE CallsInv'
  BY SMT, <1>2 DEF Insert, linkVars
<1>3. ASSUME NEW a \in Actions, Send(a) PROVE CallsInv'
  BY SMT, <1>3 DEF Send, linkVars
<1>4. ASSUME NEW a \in Actions, SendFails(a) PROVE CallsInv'
  BY SMT, <1>4 DEF SendFails, linkVars
<1>5. ASSUME NEW a \in Actions, Disconnect(a) PROVE CallsInv'
  BY SMT, <1>5 DEF Disconnect, linkVars
<1>6. ASSUME NEW a \in Actions, CancelAwait(a) \/ CancelSend(a) PROVE CallsInv'
  <2>1. UNCHANGED <<issued, call, gone>>
    BY <1>6 DEF CancelAwait, CancelSend, linkVars
  <2>2. cancel' \in [Actions -> Requests({"new", "ready", "sent", "done"})]
    <3>1. CASE CancelAwait(a)
      BY SMT, <3>1 DEF CancelAwait, MapsInv
    <3>2. CASE CancelSend(a)
      <4>1. PICK k \in {"sent", "done"} : cancel' = [cancel EXCEPT ![a].at = k]
        BY <3>2 DEF CancelSend
      <4>. QED  BY SMT, <4>1
    <3>. QED  BY <1>6, <3>1, <3>2
  <2>. QED  BY <2>1, <2>2
<1>7. ASSUME NEW xs, NEW o \in {"error", "null", "value", "dropped"}, Complete(xs, o),
             UNCHANGED <<issued, gone>>, cancel' \in [Actions -> Requests({"new", "ready", "sent", "done"})]
      PROVE  CallsInv'
  BY <1>7 DEF Complete
<1>8. ASSUME NEW a \in Actions, CancelRemove(a) PROVE CallsInv'
  <2>1. UNCHANGED <<issued, gone>> /\ cancel' \in [Actions -> Requests({"new", "ready", "sent", "done"})]
    BY SMT, <1>8 DEF CancelRemove, linkVars
  <2>2. Complete({a}, "null") \/ UNCHANGED call
    BY <1>8 DEF CancelRemove
  <2>. QED  BY SMT, <2>1, <2>2, <1>7
<1>9. ASSUME HandleAgentData PROVE CallsInv'
  <2>1. /\ UNCHANGED <<issued, gone, cancel>> /\ rx \in Seq(Notices \cup Results)
        /\ cancel' \in [Actions -> Requests({"new", "ready", "sent", "done"})]
    BY <1>9 DEF HandleAgentData, linkVars, LinkInv
  <2>2. CASE UNCHANGED call
    BY <2>1, <2>2
  <2>3. CASE TerminateSession
    BY <2>1, <2>3, <1>7 DEF TerminateSession
  <2>4. CASE Answer(rx[1])
    BY SMTT(30), <2>1, <2>4, <2>2, <1>7 DEF Answer, Results
  <2>. QED  BY <1>9, <2>1, <2>2, <2>3, <2>4, Handled DEF HandleCreate
<1>10. ASSUME PutRpcs PROVE CallsInv'
  BY <1>10, <1>7 DEF PutRpcs, linkVars
<1>11. ASSUME Open PROVE CallsInv'
  BY SMT, <1>11 DEF Open, callVars, MapsInv
<1>12. ASSUME TakeRpcs \/ Respond \/ Lose \/ Forget \/ AgentDies \/ OnMessage PROVE CallsInv'
  BY SMT, <1>12 DEF TakeRpcs, Respond, Lose, Forget, AgentDies, OnMessage, callVars, linkVars
<1>13. ASSUME NEW x, Resend(x) \/ Finish(x) \/ Post(x) PROVE CallsInv'
  BY SMT, <1>13 DEF Resend, Finish, Post, callVars, linkVars
<1>14. ASSUME UNCHANGED vars PROVE CallsInv'
  BY <1>14 DEF vars
<1>. QED  BY <1>1, <1>2, <1>3, <1>4, <1>5, <1>6, <1>8, <1>9, <1>10, <1>11, <1>12, <1>13, <1>14 DEF Next

(* Every step leaves the queues and the connection well formed.            *)
LEMMA LinkStep == ShapeInv /\ [Next]_vars => LinkInv'
<1>. SUFFICES ASSUME ShapeInv, [Next]_vars PROVE LinkInv'
  OBVIOUS
<1>. USE DEF ShapeInv, LinkInv
<1>1. ASSUME NEW a \in Actions, Send(a) PROVE LinkInv'
  <2>1. ManagerMessage("ActionStart", call[a].id, a) \in Orders
    BY DEF CallsInv, Requests, ManagerMessage, Orders
  <2>. QED  BY SMT, <1>1, <2>1 DEF Send, serviceVars, linkVars, agentVars
<1>2. ASSUME NEW a \in Actions, CancelSend(a) PROVE LinkInv'
  <2>1. ManagerMessage("ActionCancel", cancel[a].id, a) \in Orders
    BY DEF CallsInv, Requests, ManagerMessage, Orders
  <2>2. down' \in Seq(Orders \cup Responses)
    <3>1. down' = down \/ down' = Append(down, ManagerMessage("ActionCancel", cancel[a].id, a))
      BY <1>2 DEF CancelSend
    <3>. QED  BY SMTT(30), <2>1, <3>1
  <2>. QED  BY <1>2, <2>2 DEF CancelSend, serviceVars, linkVars, agentVars
<1>3. ASSUME HandleAgentData PROVE LinkInv'
  BY <1>3, Handled DEF HandleAgentData, linkVars, agentVars
<1>4. ASSUME TakeRpcs PROVE LinkInv'
  <2>1. RpcsOf(moving.old) \subseteq Actions /\ sessions \in Nat \ {NoSession}
    BY SMT, <1>4 DEF TakeRpcs, RpcsOf, MapsInv
  <2>. QED  BY SMT, <1>4, <2>1 DEF TakeRpcs, linkVars, agentVars
<1>5. ASSUME NEW x \in resends, Resend(x) PROVE LinkInv'
  <2>1. ManagerMessage("ActionStart", x.id, x.action) \in Orders
    BY DEF ManagerMessage, Orders
  <2>2. down' \in Seq(Orders \cup Responses)
    <3>1. down' = down \/ down' = Append(down, ManagerMessage("ActionStart", x.id, x.action))
      BY <1>5 DEF Resend
    <3>2. down \in Seq(Orders \cup Responses)
      OBVIOUS
    <3>3. Append(down, ManagerMessage("ActionStart", x.id, x.action)) \in Seq(Orders \cup Responses)
      BY <2>1, <3>2, Appended
    <3>. QED  BY <3>1, <3>2, <3>3
  <2>. QED  BY <1>5, <2>2 DEF Resend, linkVars, agentVars
<1>6. ASSUME Open PROVE LinkInv'
  <2>1. rx' \in Seq(Notices \cup Results)
    BY SMT, <1>6, Opened DEF MapsInv
  <2>. QED  BY SMTT(30), <1>6, <2>1 DEF Open, serviceVars, agentVars, MapsInv
<1>7. ASSUME Respond PROVE LinkInv'
  <2>1. ManagerMessage("SessionCreateResponse", owed, NoAction) \in Responses
    BY SMT DEF ManagerMessage, Responses, MapsInv
  <2>. QED  BY SMT, <1>7, <2>1 DEF Respond, serviceVars, agentVars, MapsInv, NoSession
<1>8. ASSUME Lose \/ Forget PROVE LinkInv'
  <2>1. Teardown /\ UNCHANGED <<issued, rx, resends>>
    BY <1>8 DEF Lose, Forget, linkVars, serviceVars
  <2>2. active' = NoSession /\ runs' \subseteq runs
    BY <2>1 DEF Teardown
  <2>3. posts' \subseteq [action : Actions, id : Nat, result : {"value", "null"}]
    BY SMT, <2>1 DEF Teardown, Result
  <2>4. down' \in Seq(Orders \cup Responses)
    <3>1. down' = down \/ down' = <<>>
      BY <1>8 DEF Lose, Forget
    <3>2. <<>> \in Seq(Orders \cup Responses)
      BY SMT
    <3>3. down \in Seq(Orders \cup Responses)
      OBVIOUS
    <3>. QED  BY <3>1, <3>2, <3>3
  <2>5. cur' \in 0..issued /\ owed' \in 0..issued
    BY SMT, <1>8 DEF Lose, Forget, NoSession, linkVars, MapsInv
  <2>. QED  BY <2>1, <2>2, <2>3, <2>4, <2>5
<1>9. ASSUME AgentDies PROVE LinkInv'
  BY <1>9 DEF AgentDies, linkVars, serviceVars
<1>10. ASSUME OnMessage PROVE LinkInv'
  <2>1. UNCHANGED <<issued, cur, owed, rx, resends>>
    BY <1>10 DEF OnMessage, linkVars, serviceVars
  <2>2. /\ active' \in {NoSession, cur}
        /\ runs' \subseteq [action : Actions, id : Nat]
        /\ posts' \subseteq [action : Actions, id : Nat, result : {"value", "null"}]
    <3>1. active \in Nat
      BY SMT DEF NoSession, MapsInv
    <3>2. CASE Enter(down[1])
      BY <3>2 DEF Enter
    <3>3. CASE Start(down[1])
      BY SMT, <3>1, <3>3 DEF Start, Orders
    <3>4. CASE Cancel(down[1])
      BY SMT, <3>1, <3>4 DEF Cancel, Orders, Result
    <3>5. CASE Ignore(down[1])
      BY <3>5 DEF Ignore
    <3>. QED  BY <1>10, <3>2, <3>3, <3>4, <3>5, Delivered
  <2>. QED  BY <1>10, <2>1, <2>2, Delivered
<1>11. ASSUME NEW x \in runs, Finish(x) PROVE LinkInv'
  BY SMT, <1>11 DEF Finish, Result, linkVars, serviceVars
<1>12. ASSUME NEW x \in posts, Post(x) PROVE LinkInv'
  <2>1. PluginMessage("Data", x.id, x.action, x.result) \in Results
    BY DEF PluginMessage, Results
  <2>2. rx' \in Seq(Notices \cup Results)
    BY SMTT(30), <1>12, <2>1 DEF Post
  <2>. QED  BY <1>12, <2>2 DEF Post, linkVars, serviceVars
<1>13. ASSUME NEW a \in Actions,
              \/ AwaitSession(a) \/ Insert(a) \/ SendFails(a) \/ Disconnect(a)
              \/ CancelAwait(a) \/ CancelRemove(a)
       PROVE  LinkInv'
  BY <1>13 DEF AwaitSession, Insert, SendFails, Disconnect, CancelAwait, CancelRemove, serviceVars, linkVars,
               agentVars
<1>14. ASSUME PutRpcs \/ UNCHANGED vars PROVE LinkInv'
  BY <1>14 DEF PutRpcs, linkVars, agentVars, vars
<1>. QED
  BY <1>1, <1>2, <1>3, <1>4, <1>5, <1>6, <1>7, <1>8, <1>9, <1>10, <1>11, <1>12, <1>13, <1>14 DEF Next

(* No step puts a request into the maps before it registers.               *)
LEMMA NotYetStep == ShapeInv /\ [Next]_vars => NotYet'
<1>. SUFFICES ASSUME ShapeInv, [Next]_vars PROVE NotYet'
  OBVIOUS
<1>. USE DEF ShapeInv, NotYet
<1>1. ASSUME NEW a \in Actions, Insert(a) PROVE NotYet'
  BY SMT, <1>1 DEF Insert, InsertActionInFlight, RpcsOf, CallsInv, Requests
<1>2. ASSUME NEW a \in Actions, SendFails(a) PROVE NotYet'
  BY <1>2 DEF SendFails, RemoveActionInFlight, CallsInv, Requests, Request
(* Requests that are answered are not new, and registrations only go.      *)
<1>3. ASSUME UNCHANGED moving, DOMAIN rpcs' \subseteq DOMAIN rpcs,
             \A s \in DOMAIN rpcs' : rpcs'[s] \subseteq rpcs[s],
             \/ UNCHANGED call
             \/ \E xs, o : Complete(xs, o)
      PROVE  NotYet'
  BY SMT, <1>3 DEF Complete, Request, CallsInv
<1>4. ASSUME NEW a \in Actions, CancelRemove(a) PROVE NotYet'
  <2>1. UNCHANGED moving /\ (UNCHANGED call \/ Complete({a}, "null"))
    BY <1>4 DEF CancelRemove
  <2>2. DOMAIN rpcs' = DOMAIN rpcs /\ \A s \in DOMAIN rpcs' : rpcs'[s] \subseteq rpcs[s]
    BY <1>4 DEF CancelRemove, RemoveActionInFlight
  <2>. QED  BY <2>1, <2>2, <1>3
<1>5. ASSUME HandleAgentData PROVE NotYet'
  <2>1. CASE IsCreate(rx[1]) /\ HandleCreate(rx[1].id)
    BY <1>5, <2>1 DEF HandleAgentData, HandleCreate, NotMoving, MapsInv
  <2>2. CASE TerminateSession /\ UNCHANGED moving
    <3>1. Complete(RpcsOf(sessions), "error")
      BY <2>2 DEF TerminateSession
    <3>2. DOMAIN rpcs' \subseteq DOMAIN rpcs /\ \A s \in DOMAIN rpcs' : rpcs'[s] \subseteq rpcs[s]
      BY <2>2 DEF TerminateSession, Without
    <3>. QED  BY <2>2, <3>1, <3>2, <1>3
  <2>3. CASE Answer(rx[1])
    <3>1. UNCHANGED moving /\ (UNCHANGED call \/ Complete({rx[1].action}, rx[1].result))
      BY <2>3 DEF Answer
    <3>2. DOMAIN rpcs' = DOMAIN rpcs /\ \A s \in DOMAIN rpcs' : rpcs'[s] \subseteq rpcs[s]
      BY <2>3 DEF Answer, RemoveActionInFlight
    <3>. QED  BY <3>1, <3>2, <1>3
  <2>4. CASE UNCHANGED <<sessions, rpcs, alive, call, moving>>
    BY <2>4
  <2>. QED  BY <1>5, <2>1, <2>2, <2>3, <2>4, Handled DEF LinkInv
<1>6. ASSUME TakeRpcs PROVE NotYet'
  BY <1>6 DEF TakeRpcs, RpcsOf, Without, NotMoving, MapsInv, callVars
<1>7. ASSUME PutRpcs PROVE NotYet'
  BY <1>7 DEF PutRpcs, NotMoving, Complete, Request, CallsInv
<1>8. ASSUME NEW a \in Actions,
             AwaitSession(a) \/ Send(a) \/ Disconnect(a) \/ CancelAwait(a) \/ CancelSend(a)
      PROVE  NotYet'
  BY SMT, <1>8 DEF AwaitSession, Send, Disconnect, CancelAwait, CancelSend, serviceVars, CallsInv, Requests, Request
<1>9. ASSUME Open \/ Respond \/ Lose \/ Forget \/ AgentDies \/ OnMessage PROVE NotYet'
  BY <1>9 DEF Open, Respond, Lose, Forget, AgentDies, OnMessage, serviceVars, callVars
<1>10. ASSUME NEW x, Resend(x) \/ Finish(x) \/ Post(x) PROVE NotYet'
  BY <1>10 DEF Resend, Finish, Post, serviceVars, callVars
<1>11. ASSUME UNCHANGED vars PROVE NotYet'
  BY <1>11 DEF vars
<1>. QED  BY <1>1, <1>2, <1>4, <1>5, <1>6, <1>7, <1>8, <1>9, <1>10, <1>11 DEF Next

-----------------------------------------------------------------------------
(* Sessions still to be learnt of are young.                               *)

(* A session that the service has still to learn of stays younger than all *)
(* it knows.                                                               *)
LEMMA FreshStep == ShapeInv /\ FreshInv /\ [Next]_vars => FreshInv'
<1>. SUFFICES ASSUME ShapeInv, FreshInv, [Next]_vars PROVE FreshInv'
  OBVIOUS
<1>0. /\ issued \in Nat /\ sessions \in Nat /\ \A s \in DOMAIN rpcs : s \in Nat
      /\ \A a \in Actions : call[a].id \in Nat
      /\ rx \in Seq(Notices \cup Results) /\ Len(rx) \in Nat
      /\ \A i \in 1..Len(rx) : rx[i].id \in Nat
  <2>1. \A i \in 1..Len(rx) : rx[i] \in Notices \cup Results
    BY SMT DEF ShapeInv, LinkInv
  <2>. QED  BY SMTT(30), <2>1 DEF ShapeInv, MapsInv, CallsInv, LinkInv, Requests, Notices, Results
<1>1. ASSUME UNCHANGED rx, \A n \in Nat : Fresh(n) => Fresh(n)' PROVE FreshInv'
  BY <1>0, <1>1 DEF FreshInv
<1>2. ASSUME UNCHANGED <<rx, issued>>, sessions' \in {sessions, NoSession},
             DOMAIN rpcs' \subseteq DOMAIN rpcs, \A a \in Actions : call'[a].id = call[a].id
      PROVE  FreshInv'
  BY SMT, <1>0, <1>1, <1>2 DEF Fresh, NoSession
<1>3. ASSUME NEW xs, NEW o, Complete(xs, o) PROVE \A a \in Actions : call'[a].id = call[a].id
  BY <1>3 DEF Complete, Request
<1>4. ASSUME NEW a \in Actions, AwaitSession(a) PROVE FreshInv'
  <2>1. \A b \in Actions : call'[b].id \in {call[b].id, sessions, NoSession}
    BY <1>4 DEF AwaitSession, Request, ShapeInv, CallsInv
  <2>. QED  BY SMT, <1>0, <1>1, <1>4, <2>1 DEF AwaitSession, Fresh, NoSession, serviceVars, linkVars
<1>5. ASSUME NEW a \in Actions, Insert(a) PROVE FreshInv'
  <2>1. \A b \in Actions : call'[b].id = call[b].id
    BY <1>5 DEF Insert, ShapeInv, CallsInv, Requests
  <2>2. DOMAIN rpcs' = DOMAIN rpcs \cup {call[a].id}
    BY <1>5 DEF Insert, InsertActionInFlight
  <2>. QED  BY <1>0, <1>1, <1>5, <2>1, <2>2 DEF Insert, Fresh, linkVars
<1>6. ASSUME NEW a \in Actions,
             \/ Send(a) \/ SendFails(a) \/ Disconnect(a) \/ CancelAwait(a) \/ CancelSend(a)
             \/ CancelRemove(a)
      PROVE  FreshInv'
  <2>1. UNCHANGED <<rx, issued, sessions>>
    BY <1>6 DEF Send, SendFails, Disconnect, CancelAwait, CancelSend, CancelRemove, serviceVars, linkVars
  <2>2. DOMAIN rpcs' = DOMAIN rpcs
    BY <1>6 DEF Send, SendFails, Disconnect, CancelAwait, CancelSend, CancelRemove, RemoveActionInFlight,
                serviceVars
  <2>3. \A b \in Actions : call'[b].id = call[b].id
    <3>1. CASE Send(a) \/ SendFails(a) \/ Disconnect(a)
      BY SMT, <3>1 DEF Send, SendFails, Disconnect, Request, ShapeInv, CallsInv, Requests
    <3>2. CASE CancelAwait(a) \/ CancelSend(a) \/ CancelRemove(a)
      BY <3>2, <1>3 DEF CancelAwait, CancelSend, CancelRemove
    <3>. QED  BY <1>6, <3>1, <3>2
  <2>. QED  BY <1>2, <2>1, <2>2, <2>3
<1>7. ASSUME HandleAgentData PROVE FreshInv'
  <2>1. issued' = issued
    BY <1>7 DEF HandleAgentData, linkVars
  <2>2. \A i \in 1..Len(rx') : /\ IsCreate(rx'[i]) => Fresh(rx'[i].id)
                               /\ IsCreate(rx[1]) /\ IsCreate(rx'[i]) => rx[1].id < rx'[i].id
                               /\ rx'[i].id \in Nat
    <3>1. /\ rx' \in Seq(Notices \cup Results) /\ Len(rx') \in Nat
          /\ \A i \in 1..Len(rx') : rx'[i] = rx[i + 1] /\ i + 1 \in 1..Len(rx)
          /\ 1 \in 1..Len(rx)
      BY <1>7, Handled, <1>0
    <3>2. \A i \in 1..Len(rx') : rx'[i] \in Notices \cup Results /\ 1 < i + 1
      BY SMT, <3>1
    <3>3. \A m \in Notices \cup Results : m.id \in Nat
      BY DEF Notices, Results
    <3>. QED  BY <3>1, <3>2, <3>3 DEF FreshInv
  <2>3. ASSUME \A n \in Nat : Fresh(n) /\ (IsCreate(rx[1]) => rx[1].id < n) => Fresh(n)' PROVE FreshInv'
    <3>1. \A i, j \in 1..Len(rx') :
            i < j /\ IsCreate(rx'[i]) /\ IsCreate(rx'[j]) => rx'[i].id < rx'[j].id
      <4>1. /\ \A i \in 1..Len(rx') : rx'[i] = rx[i + 1] /\ i + 1 \in 1..Len(rx)
            /\ Len(rx') \in Nat
        BY <1>7, Handled, <1>0
      <4>2. \A i, j \in 1..Len(rx') : i < j => i + 1 < j + 1
        BY SMT, <4>1
      <4>. QED  BY <4>1, <4>2 DEF FreshInv
    <3>. QED  BY <2>2, <2>3, <3>1 DEF FreshInv
  <2>4. CASE IsCreate(rx[1]) /\ HandleCreate(rx[1].id)
    <3>1. UNCHANGED <<rpcs, call>> /\ sessions' = rx[1].id
      BY <2>4 DEF HandleCreate
    <3>. QED  BY <1>0, <2>1, <2>3, <2>4, <3>1 DEF Fresh
  <2>5. CASE ~ (IsCreate(rx[1]) /\ HandleCreate(rx[1].id))
    <3>1. \A a \in Actions : call'[a].id = call[a].id
      BY <1>0, <1>3, <1>7, <2>5, Handled DEF TerminateSession, Answer
    <3>2. DOMAIN rpcs' \subseteq DOMAIN rpcs /\ sessions' \in {sessions, NoSession}
      BY <1>0, <1>7, <2>5, Handled DEF TerminateSession, Answer, Without, RemoveActionInFlight
    <3>. QED  BY SMT, <1>0, <2>1, <2>3, <3>1, <3>2 DEF Fresh, NoSession
  <2>. QED  BY <2>4, <2>5
<1>8. ASSUME TakeRpcs PROVE FreshInv'
  BY <1>2, <1>8 DEF TakeRpcs, Without, callVars, linkVars
<1>9. ASSUME PutRpcs PROVE FreshInv'
  <2>1. \A b \in Actions : call'[b].id = call[b].id
    BY <1>3, <1>9 DEF PutRpcs
  <2>2. DOMAIN rpcs' = DOMAIN rpcs \cup {sessions}
    BY <1>9 DEF PutRpcs
  <2>. QED  BY <1>0, <1>1, <1>9, <2>1, <2>2 DEF PutRpcs, Fresh, linkVars
<1>10. ASSUME Open PROVE FreshInv'
  <2>1. UNCHANGED <<sessions, rpcs, call>> /\ issued' = issued + 1
    BY <1>10 DEF Open, serviceVars, callVars
  <2>2. \A n \in Nat : Fresh(n) => Fresh(n)'
    BY SMT, <1>0, <2>1 DEF Fresh
  <2>3. \A n \in Nat : n = issued + 1 => Fresh(n)'
    BY SMT, <1>0, <2>1 DEF Fresh, ShapeInv, MapsInv, CallsInv
  <2>4. \A i \in 1..Len(rx) : IsCreate(rx[i]) => rx[i].id < issued + 1
    BY SMT, <1>0 DEF FreshInv, Fresh
  <2>5. \A i \in 1..Len(rx') : IsCreate(rx'[i]) =>
          \/ i \in 1..Len(rx) /\ rx'[i] = rx[i]
          \/ i = Len(rx') /\ rx'[i].id = issued + 1
    BY SMTT(30), <1>0, <1>10, Opened DEF ShapeInv, LinkInv, MapsInv, IsCreate
  <2>6. Len(rx') \in Nat /\ Len(rx) < Len(rx')
    BY SMT, <1>0, <1>10, Opened DEF ShapeInv, LinkInv, MapsInv
  <2>7. \A i, j \in 1..Len(rx') :
          i < j /\ IsCreate(rx'[i]) /\ IsCreate(rx'[j]) => rx'[i].id < rx'[j].id
    <3>. TAKE i, j \in 1..Len(rx')
    <3>1. HAVE i < j /\ IsCreate(rx'[i]) /\ IsCreate(rx'[j])
    <3>2. i \in 1..Len(rx) /\ rx'[i] = rx[i]
      BY SMT, <2>5, <2>6, <3>1
    <3>3. CASE j \in 1..Len(rx) /\ rx'[j] = rx[j]
      BY <3>1, <3>2, <3>3 DEF FreshInv
    <3>4. CASE rx'[j].id = issued + 1
      BY <2>4, <3>1, <3>2, <3>4
    <3>. QED  BY <2>5, <3>1, <3>3, <3>4
  <2>8. \A i \in 1..Len(rx') : IsCreate(rx'[i]) => \A n \in Nat : n = rx'[i].id => Fresh(n)'
    BY <1>0, <2>2, <2>3, <2>5 DEF FreshInv
  <2>9. \A i \in 1..Len(rx') : IsCreate(rx'[i]) => rx'[i].id \in Nat
    BY SMT, <1>0, <2>5
  <2>. QED  BY <2>7, <2>8, <2>9 DEF FreshInv
<1>11. ASSUME NEW x \in posts, Post(x) PROVE FreshInv'
  <2>1. UNCHANGED <<sessions, rpcs, call, issued>>
    BY <1>11 DEF Post, serviceVars, callVars, linkVars
  <2>2. \A n \in Nat : Fresh(n) => Fresh(n)'
    BY <2>1 DEF Fresh
  <2>3. CASE rx' = Append(rx, PluginMessage("Data", x.id, x.action, x.result))
    <3>1. PluginMessage("Data", x.id, x.action, x.result) \in Results
      BY DEF PluginMessage, Results, ShapeInv, LinkInv
    <3>2. ~ IsCreate(PluginMessage("Data", x.id, x.action, x.result))
      BY DEF PluginMessage, IsCreate
    <3>3. \A i \in 1..Len(rx') : IsCreate(rx'[i]) => i \in 1..Len(rx) /\ rx'[i] = rx[i]
      BY SMT, <1>0, <2>3, <3>1, <3>2, Appended
    <3>. QED  BY <1>0, <2>2, <3>3 DEF FreshInv
  <2>. QED  BY <1>1, <1>11, <2>2, <2>3 DEF Post
<1>12. ASSUME Respond \/ Lose \/ Forget \/ AgentDies \/ OnMessage PROVE FreshInv'
  BY <1>12, <1>2 DEF Respond, Lose, Forget, AgentDies, OnMessage, serviceVars, callVars, linkVars
<1>13. ASSUME NEW x, Resend(x) \/ Finish(x) PROVE FreshInv'
  BY <1>13, <1>2 DEF Resend, Finish, serviceVars, callVars, linkVars
<1>14. ASSUME UNCHANGED vars PROVE FreshInv'
  BY <1>14, <1>2 DEF vars
<1>. QED
  BY <1>4, <1>5, <1>6, <1>7, <1>8, <1>9, <1>10, <1>11, <1>12, <1>13, <1>14 DEF Next

-----------------------------------------------------------------------------
(* A request that waits can be answered.                                   *)

(* No step strands a waiting request.                                      *)
LEMMA ReachStep == ShapeInv /\ FreshInv /\ WaitingIsReachable /\ [Next]_vars => WaitingIsReachable'
<1>. SUFFICES ASSUME ShapeInv, FreshInv, WaitingIsReachable, [Next]_vars PROVE WaitingIsReachable'
  OBVIOUS
<1>. DEFINE Waits(a) == call[a].at \in {"inserted", "waiting"} /\ a \notin raced
            Where(a) == \/ Registered(a) = {sessions}
                        \/ moving.at = "take" /\ Registered(a) = {moving.old}
                        \/ a \in moving.xs /\ Registered(a) = {}
<1>0. /\ \A a \in Actions : Waits(a) => Where(a)
      /\ \A s \in DOMAIN rpcs : s # NoSession
      /\ moving.at # "put" => moving.xs = {}
  BY SMT DEF WaitingIsReachable, ShapeInv, MapsInv, NoSession
<1>1. ASSUME \A a \in Actions : Waits(a)' => Where(a)' PROVE WaitingIsReachable'
  BY <1>1 DEF WaitingIsReachable
<1>2. ASSUME UNCHANGED <<sessions, moving, rpcs, raced>>,
             \A a \in Actions : call'[a].at \in {"inserted", "waiting"} => call[a].at \in {"inserted", "waiting"}
      PROVE  WaitingIsReachable'
  BY <1>0, <1>1, <1>2 DEF Registered
(* Completing a request ends its wait, unless its receiver was gone.       *)
<1>3. ASSUME NEW xs, NEW o, Complete(xs, o)
      PROVE  \A a \in Actions : call'[a].at \in {"inserted", "waiting"} =>
               a \notin xs /\ call[a].at \in {"inserted", "waiting"}
  BY <1>3 DEF Complete, Request, ShapeInv, CallsInv
<1>4. ASSUME NEW a \in Actions, AwaitSession(a) PROVE WaitingIsReachable'
  BY <1>2, <1>4 DEF AwaitSession, Request, ShapeInv, CallsInv, serviceVars, historyVars
<1>5. ASSUME NEW a \in Actions, Insert(a) PROVE WaitingIsReachable'
  <2>1. \A b \in Actions : b # a => call'[b] = call[b]
    BY <1>5 DEF Insert, ShapeInv, CallsInv
  <2>2. \A b \in Actions : b # a => Registered(b)' = Registered(b)
    BY <1>5 DEF Insert, InsertActionInFlight, RpcsOf, Registered
  <2>3. Registered(a)' = {call[a].id}
    BY <1>5 DEF Insert, InsertActionInFlight, RpcsOf, Registered, ShapeInv, NotYet
  <2>4. a \notin raced' => call[a].id = sessions
    BY <1>5 DEF Insert
  <2>5. UNCHANGED <<sessions, moving>> /\ \A b \in Actions : b # a => (b \in raced' <=> b \in raced)
    BY <1>5 DEF Insert
  <2>. QED  BY <1>0, <1>1, <2>1, <2>2, <2>3, <2>4, <2>5
<1>6. ASSUME NEW a \in Actions, Send(a) \/ Disconnect(a) PROVE WaitingIsReachable'
  BY <1>2, <1>6 DEF Send, Disconnect, Request, ShapeInv, CallsInv, Requests, serviceVars, historyVars
<1>7. ASSUME NEW a \in Actions, CancelAwait(a) \/ CancelSend(a) PROVE WaitingIsReachable'
  BY <1>2, <1>7 DEF CancelAwait, CancelSend, serviceVars, historyVars
(* An action leaves the map, and its request has ended.                    *)
<1>8. ASSUME NEW s, NEW a, rpcs' = RemoveActionInFlight(s, a), UNCHANGED <<sessions, moving, raced>>,
             \A b \in Actions : call'[b].at \in {"inserted", "waiting"} =>
               /\ call[b].at \in {"inserted", "waiting"}
               /\ b # a \/ ~ HasActionInFlight(s, a)
      PROVE  WaitingIsReachable'
  <2>1. \A b \in Actions : call'[b].at \in {"inserted", "waiting"} => Registered(b)' = Registered(b)
    BY <1>8 DEF RemoveActionInFlight, HasActionInFlight, RpcsOf, Registered
  <2>. QED  BY <1>0, <1>1, <1>8, <2>1
<1>9. ASSUME NEW a \in Actions, SendFails(a) PROVE WaitingIsReachable'
  BY SMT, <1>8, <1>9 DEF SendFails, Request, ShapeInv, CallsInv, historyVars
<1>10. ASSUME NEW a \in Actions, CancelRemove(a) PROVE WaitingIsReachable'
  <2>1. CASE HasActionInFlight(cancel[a].id, a)
    BY <1>3, <1>8, <1>10, <2>1 DEF CancelRemove, historyVars
  <2>2. CASE ~ HasActionInFlight(cancel[a].id, a)
    BY <1>2, <1>10, <2>2 DEF CancelRemove, historyVars
  <2>. QED  BY <2>1, <2>2
<1>11. ASSUME HandleAgentData PROVE WaitingIsReachable'
  <2>1. UNCHANGED raced /\ moving.at = "none" /\ rx \in Seq(Notices \cup Results)
    BY <1>11 DEF HandleAgentData, historyVars, ShapeInv, LinkInv
  <2>2. \A a \in Actions : Waits(a) => Registered(a) = {sessions}
    BY <1>0, <2>1
  <2>3. CASE IsCreate(rx[1]) /\ HandleCreate(rx[1].id)
    <3>1. UNCHANGED <<rpcs, call>>
      BY <2>3 DEF HandleCreate
    <3>2. CASE sessions = NoSession
      <4>1. \A a \in Actions : ~ Waits(a)
        BY <1>0, <2>2, <3>2 DEF Registered
      <4>. QED  BY <1>1, <2>1, <3>1, <4>1
    <3>3. CASE sessions # NoSession
      <4>1. moving'.at = "take" /\ moving'.old = sessions
        BY <2>3, <3>3 DEF HandleCreate, NotMoving
      <4>. QED  BY <1>1, <2>1, <2>2, <3>1, <4>1 DEF Registered
    <3>. QED  BY <3>2, <3>3
  <2>4. CASE TerminateSession
    <3>1. \A a \in Actions : call'[a].at \in {"inserted", "waiting"} =>
            a \notin RpcsOf(sessions) /\ call[a].at \in {"inserted", "waiting"}
      BY <1>3, <2>4 DEF TerminateSession
    <3>2. \A a \in Actions : Registered(a) = {sessions} => a \in RpcsOf(sessions)
      BY DEF Registered, RpcsOf
    <3>. QED  BY <1>1, <2>1, <2>2, <3>1, <3>2
  <2>5. CASE Answer(rx[1])
    <3>1. CASE HasActionInFlight(rx[1].id, rx[1].action)
      BY SMT, <1>3, <1>8, <2>1, <2>5, <3>1 DEF Answer
    <3>2. CASE ~ HasActionInFlight(rx[1].id, rx[1].action)
      BY <1>8, <2>1, <2>5, <3>2 DEF Answer
    <3>. QED  BY <3>1, <3>2
  <2>6. CASE UNCHANGED <<sessions, rpcs, alive, call, moving>>
    BY <1>2, <2>1, <2>6
  <2>. QED  BY <1>11, <2>1, <2>3, <2>4, <2>5, <2>6, Handled
<1>12. ASSUME TakeRpcs PROVE WaitingIsReachable'
  <2>1. UNCHANGED <<sessions, call, raced>> /\ moving.at = "take"
    BY <1>12 DEF TakeRpcs, callVars, historyVars
  <2>2. \A a \in Actions : Registered(a)' = Registered(a) \ {moving.old}
    BY <1>12 DEF TakeRpcs, Without, Registered
  <2>3. \A a \in Actions : Registered(a) = {moving.old} => a \in moving'.xs
    BY <1>12 DEF TakeRpcs, RpcsOf, Registered, ShapeInv, MapsInv
  <2>4. \A a \in Actions : Waits(a) => Registered(a) = {sessions} \/ Registered(a) = {moving.old}
    BY <1>0, <2>1
  <2>5. \A a \in Actions : Waits(a)' => Waits(a)
    BY <2>1
  <2>. QED  BY <1>1, <2>1, <2>2, <2>3, <2>4, <2>5
<1>13. ASSUME PutRpcs PROVE WaitingIsReachable'
  <2>1. UNCHANGED <<sessions, raced>> /\ moving.at = "put"
    BY <1>13 DEF PutRpcs, historyVars
  <2>2. \A a \in Actions : Waits(a)' => Waits(a) /\ a \notin RpcsOf(sessions)
    BY <1>3, <1>13, <2>1 DEF PutRpcs
  <2>3. \A a \in Actions : Registered(a) = {sessions} => a \in RpcsOf(sessions)
    BY DEF Registered, RpcsOf
  <2>4. \A a \in Actions : a \in moving.xs /\ Registered(a) = {} => Registered(a)' = {sessions}
    BY <1>13 DEF PutRpcs, Registered
  <2>. QED  BY <1>0, <1>1, <2>1, <2>2, <2>3, <2>4
<1>14. ASSUME Open \/ Respond \/ Lose \/ Forget \/ AgentDies \/ OnMessage PROVE WaitingIsReachable'
  BY <1>2, <1>14 DEF Open, Respond, Lose, Forget, AgentDies, OnMessage, serviceVars, callVars, historyVars
<1>15. ASSUME NEW x, Resend(x) \/ Finish(x) \/ Post(x) PROVE WaitingIsReachable'
  BY <1>2, <1>15 DEF Resend, Finish, Post, serviceVars, callVars
<1>16. ASSUME UNCHANGED vars PROVE WaitingIsReachable'
  BY <1>2, <1>16 DEF vars
<1>. QED
  BY <1>4, <1>5, <1>6, <1>7, <1>9, <1>10, <1>11, <1>12, <1>13, <1>14, <1>15, <1>16 DEF Next

-----------------------------------------------------------------------------
(* Requests dropped by a move.                                             *)

(* No step puts a request under a session that is being replaced without   *)
(* its having overtaken the move.                                          *)
LEMMA MoveStep == ShapeInv /\ FreshInv /\ MoveInv /\ [Next]_vars => MoveInv'
<1>. SUFFICES ASSUME ShapeInv, FreshInv, MoveInv, [Next]_vars PROVE MoveInv'
  OBVIOUS
<1>1. ASSUME UNCHANGED <<sessions, moving>>, overtook \subseteq overtook',
             DOMAIN rpcs' \subseteq DOMAIN rpcs, \A s \in DOMAIN rpcs' : rpcs'[s] \subseteq rpcs[s]
      PROVE  MoveInv'
  BY <1>1 DEF MoveInv, RpcsOf
<1>2. ASSUME NEW a \in Actions, Insert(a) PROVE MoveInv'
  BY <1>2 DEF Insert, InsertActionInFlight, MoveInv, RpcsOf
<1>3. ASSUME NEW a \in Actions, SendFails(a) \/ CancelRemove(a) PROVE MoveInv'
  BY <1>1, <1>3 DEF SendFails, CancelRemove, RemoveActionInFlight, historyVars
<1>4. ASSUME HandleAgentData PROVE MoveInv'
  <2>1. UNCHANGED overtook /\ moving.at = "none" /\ rx \in Seq(Notices \cup Results)
    BY <1>4 DEF HandleAgentData, historyVars, ShapeInv, LinkInv
  <2>2. CASE IsCreate(rx[1]) /\ HandleCreate(rx[1].id)
    <3>1. Fresh(rx[1].id) /\ rx[1].id \in Nat
      BY <1>4, <2>1, <2>2, Handled DEF FreshInv, Notices, Results
    <3>2. rx[1].id \notin DOMAIN rpcs
      BY SMT, <3>1 DEF Fresh
    <3>. QED  BY <2>2, <3>2 DEF HandleCreate, MoveInv, RpcsOf
  <2>3. CASE ~ (IsCreate(rx[1]) /\ HandleCreate(rx[1].id))
    BY <1>4, <2>1, <2>3, Handled DEF MoveInv, Answer
  <2>. QED  BY <2>2, <2>3
<1>5. ASSUME TakeRpcs PROVE MoveInv'
  BY <1>5 DEF TakeRpcs, Without, NotMoving, MoveInv, RpcsOf, historyVars
<1>6. ASSUME PutRpcs PROVE MoveInv'
  BY <1>6 DEF PutRpcs, NotMoving, MoveInv
<1>7. ASSUME NEW a \in Actions,
             AwaitSession(a) \/ Send(a) \/ Disconnect(a) \/ CancelAwait(a) \/ CancelSend(a)
      PROVE  MoveInv'
  BY <1>1, <1>7 DEF AwaitSession, Send, Disconnect, CancelAwait, CancelSend, serviceVars, historyVars
<1>8. ASSUME Open \/ Respond \/ Lose \/ Forget \/ AgentDies \/ OnMessage PROVE MoveInv'
  BY <1>1, <1>8 DEF Open, Respond, Lose, Forget, AgentDies, OnMessage, serviceVars, historyVars
<1>9. ASSUME NEW x, Resend(x) \/ Finish(x) \/ Post(x) PROVE MoveInv'
  BY <1>1, <1>9 DEF Resend, Finish, Post, serviceVars
<1>10. ASSUME UNCHANGED vars PROVE MoveInv'
  BY <1>1, <1>10 DEF vars
<1>. QED  BY <1>2, <1>3, <1>4, <1>5, <1>6, <1>7, <1>8, <1>9, <1>10 DEF Next

(* Only the move of the actions of a session drops a request.              *)
LEMMA DropStep == ShapeInv /\ MoveInv /\ DroppedOnlyInMove /\ [Next]_vars => DroppedOnlyInMove'
<1>. SUFFICES ASSUME ShapeInv, MoveInv, DroppedOnlyInMove, [Next]_vars PROVE DroppedOnlyInMove'
  OBVIOUS
<1>. USE DEF DroppedOnlyInMove
<1>1. ASSUME gone \subseteq gone', overtook \subseteq overtook', gone' = {} => (alive => alive'),
             \A a \in Actions : call'[a].outcome = "dropped" =>
               call[a].outcome = "dropped" \/ a \in gone' \/ a \in overtook'
      PROVE  DroppedOnlyInMove'
  BY <1>1
<1>2. ASSUME NEW xs, NEW o, Complete(xs, o)
      PROVE  \A a \in Actions : call'[a].outcome = "dropped" =>
               call[a].outcome = "dropped" \/ (a \in xs /\ o = "dropped")
  BY <1>2 DEF Complete, Request
<1>3. ASSUME NEW a \in Actions,
             \/ AwaitSession(a) \/ Insert(a) \/ Send(a) \/ SendFails(a) \/ Disconnect(a)
      PROVE  DroppedOnlyInMove'
  <2>1. gone \subseteq gone' /\ overtook \subseteq overtook' /\ alive' = alive
    BY <1>3 DEF AwaitSession, Insert, Send, SendFails, Disconnect, serviceVars, historyVars
  <2>2. \A b \in Actions : call'[b].outcome = "dropped" => call[b].outcome = "dropped" \/ b \in gone'
    BY SMT, <1>3 DEF AwaitSession, Insert, Send, SendFails, Disconnect, Request, ShapeInv, CallsInv, Requests
  <2>. QED  BY <1>1, <2>1, <2>2
<1>4. ASSUME NEW a \in Actions, CancelAwait(a) \/ CancelSend(a) \/ CancelRemove(a) PROVE DroppedOnlyInMove'
  <2>1. UNCHANGED <<gone, overtook, alive>>
    BY <1>4 DEF CancelAwait, CancelSend, CancelRemove, serviceVars, historyVars
  <2>2. UNCHANGED call \/ Complete({a}, "null")
    BY <1>4 DEF CancelAwait, CancelSend, CancelRemove
  <2>. QED  BY <1>1, <1>2, <2>1, <2>2
<1>5. ASSUME HandleAgentData PROVE DroppedOnlyInMove'
  <2>1. UNCHANGED <<gone, overtook>> /\ rx \in Seq(Notices \cup Results)
    BY <1>5 DEF HandleAgentData, historyVars, ShapeInv, LinkInv
  <2>2. CASE UNCHANGED <<call, alive>>
    BY <1>1, <2>1, <2>2
  <2>3. CASE TerminateSession
    <3>1. Complete(RpcsOf(sessions), "error") /\ (gone = {} => alive')
      BY <2>3 DEF TerminateSession
    <3>2. \A a \in Actions : call'[a].outcome = "dropped" => call[a].outcome = "dropped"
      BY SMT, <1>2, <3>1
    <3>. QED  BY <1>1, <2>1, <3>1, <3>2
  <2>4. CASE Answer(rx[1])
    <3>1. CASE HasActionInFlight(rx[1].id, rx[1].action)
      <4>1. /\ Complete({rx[1].action}, rx[1].result) /\ rx[1].result # "dropped"
            /\ gone = {} => alive'
        BY <2>4, <3>1 DEF Answer, Results
      <4>2. \A a \in Actions : call'[a].outcome = "dropped" => call[a].outcome = "dropped"
        BY <1>2, <4>1
      <4>. QED  BY <1>1, <2>1, <4>1, <4>2
    <3>2. CASE ~ HasActionInFlight(rx[1].id, rx[1].action)
      BY <2>2, <2>4, <3>2 DEF Answer
    <3>. QED  BY <3>1, <3>2
  <2>. QED  BY <1>5, <2>1, <2>2, <2>3, <2>4, Handled DEF HandleCreate
<1>6. ASSUME PutRpcs PROVE DroppedOnlyInMove'
  <2>1. UNCHANGED <<gone, overtook, alive>> /\ Complete(RpcsOf(sessions), "dropped")
    BY <1>6 DEF PutRpcs, historyVars
  <2>2. \A a \in RpcsOf(sessions) : a \in overtook
    BY <1>6 DEF PutRpcs, MoveInv
  <2>. QED  BY <1>1, <1>2, <2>1, <2>2
<1>7. ASSUME TakeRpcs \/ Open \/ Respond \/ Lose \/ Forget \/ AgentDies \/ OnMessage
      PROVE  DroppedOnlyInMove'
  BY <1>1, <1>7 DEF TakeRpcs, Open, Respond, Lose, Forget, AgentDies, OnMessage, serviceVars, callVars, historyVars
<1>8. ASSUME NEW x, Resend(x) \/ Finish(x) \/ Post(x) PROVE DroppedOnlyInMove'
  BY <1>1, <1>8 DEF Resend, Finish, Post, serviceVars, callVars
<1>9. ASSUME UNCHANGED vars PROVE DroppedOnlyInMove'
  BY <1>1, <1>9 DEF vars
<1>. QED  BY <1>3, <1>4, <1>5, <1>6, <1>7, <1>8, <1>9 DEF Next

-----------------------------------------------------------------------------
(* Answers are earned.                                                     *)

(* Nothing that earns an answer is taken back.                             *)
LEMMA EarnedStays ==
  ASSUME ShapeInv, [Next]_vars
  PROVE  /\ ran \subseteq ran' /\ torn \subseteq torn'
         /\ \A a \in Actions : cancel[a].at \in {"sent", "done"} => cancel'[a].at \in {"sent", "done"}
<1>1. ASSUME NEW a \in Actions, CancelAwait(a) \/ CancelSend(a) \/ CancelRemove(a)
      PROVE  \A b \in Actions : cancel[b].at \in {"sent", "done"} => cancel'[b].at \in {"sent", "done"}
  <2>1. \/ cancel[a].at = "new" /\ cancel' = [cancel EXCEPT ![a] = Request("ready", sessions, "none")]
        \/ \E k \in {"sent", "done"} : cancel' = [cancel EXCEPT ![a].at = k]
    BY <1>1 DEF CancelAwait, CancelSend, CancelRemove
  <2>. QED  BY SMTT(30), <2>1 DEF ShapeInv, CallsInv, Requests
<1>2. ASSUME NEW a \in Actions, CancelAwait(a) \/ CancelSend(a) \/ CancelRemove(a)
      PROVE  UNCHANGED <<ran, torn>>
  BY <1>2 DEF CancelAwait, CancelSend, CancelRemove, historyVars
<1>3. ASSUME NEW a \in Actions,
             \/ AwaitSession(a) \/ Insert(a) \/ Send(a) \/ SendFails(a) \/ Disconnect(a)
      PROVE  UNCHANGED <<ran, torn, cancel>>
  BY <1>3 DEF AwaitSession, Insert, Send, SendFails, Disconnect, historyVars
<1>4. ASSUME HandleAgentData \/ TakeRpcs \/ PutRpcs \/ Open \/ Respond \/ AgentDies \/ OnMessage
      PROVE  UNCHANGED <<ran, torn, cancel>>
  BY <1>4 DEF HandleAgentData, TakeRpcs, PutRpcs, Open, Respond, AgentDies, OnMessage, callVars, historyVars
<1>5. ASSUME Lose \/ Forget PROVE UNCHANGED <<ran, cancel>> /\ torn \subseteq torn'
  BY <1>5 DEF Lose, Forget, Teardown, callVars
<1>6. ASSUME NEW x, Resend(x) \/ Finish(x) \/ Post(x)
      PROVE  ran \subseteq ran' /\ UNCHANGED <<torn, cancel>>
  BY <1>6 DEF Resend, Finish, Post, callVars
<1>7. ASSUME UNCHANGED vars PROVE UNCHANGED <<ran, torn, cancel>>
  BY <1>7 DEF vars
<1>. QED  BY <1>1, <1>2, <1>3, <1>4, <1>5, <1>6, <1>7 DEF Next

(* No step puts a result on its way that no run produced.                  *)
LEMMA EarnedStep == ShapeInv /\ EarnedInv /\ [Next]_vars => EarnedInv'
<1>. SUFFICES ASSUME ShapeInv, EarnedInv, [Next]_vars PROVE EarnedInv'
  OBVIOUS
<1>0. /\ down \in Seq(Orders \cup Responses) /\ rx \in Seq(Notices \cup Results)
      /\ \A i \in 1..Len(down) : down[i].type = "ActionCancel" => down[i].action \in Actions
      /\ \A i \in 1..Len(rx) : rx[i].type = "Data" => rx[i].action \in Actions
      /\ \A x \in posts : x.action \in Actions
  <2>1. /\ \A i \in 1..Len(down) : down[i] \in Orders \cup Responses
        /\ \A i \in 1..Len(rx) : rx[i] \in Notices \cup Results
        /\ \A x \in posts : x.action \in Actions
    BY SMT DEF ShapeInv, LinkInv
  <2>2. \A i \in 1..Len(down) : down[i].type = "ActionCancel" => down[i].action \in Actions
    BY <2>1 DEF Orders, Responses
  <2>3. \A i \in 1..Len(rx) : rx[i].type = "Data" => rx[i].action \in Actions
    BY <2>1 DEF Notices, Results
  <2>. QED  BY <2>1, <2>2, <2>3 DEF ShapeInv, LinkInv
<1>1. \A a \in Actions : \A r : Earned(a, r) => Earned(a, r)'
  BY EarnedStays DEF Earned
<1>2. \A a \in Actions : cancel[a].at \in {"sent", "done"} => cancel'[a].at \in {"sent", "done"}
  BY EarnedStays
(* Each piece of evidence was there before the step, or is earned by it.   *)
<1>. DEFINE D == \A i \in 1..Len(down') : down'[i].type = "ActionCancel" =>
                   \/ \E j \in 1..Len(down) : down'[i] = down[j]
                   \/ cancel'[down'[i].action].at \in {"sent", "done"}
            P == \A x \in posts' : x \in posts \/ \E a \in Actions : \E r : x.action = a /\ x.result = r /\ Earned(a, r)'
            R == \A i \in 1..Len(rx') : rx'[i].type = "Data" =>
                   \/ \E j \in 1..Len(rx) : rx'[i] = rx[j]
                   \/ \E x \in posts : rx'[i].action = x.action /\ rx'[i].result = x.result
<1>3. ASSUME D, P, R PROVE EarnedInv'
  <2>1. \A i \in 1..Len(down') :
          down'[i].type = "ActionCancel" => cancel'[down'[i].action].at \in {"sent", "done"}
    BY <1>0, <1>2, <1>3 DEF EarnedInv
  <2>2. \A x \in posts' : \A a, r : a = x.action /\ r = x.result => Earned(a, r)'
    BY <1>0, <1>1, <1>3 DEF EarnedInv
  <2>3. \A i \in 1..Len(rx') : rx'[i].type = "Data" =>
          \A a, r : a = rx'[i].action /\ r = rx'[i].result => Earned(a, r)'
    BY SMTT(30), <1>0, <1>1, <1>3 DEF EarnedInv
  <2>. QED  BY <2>1, <2>2, <2>3 DEF EarnedInv
<1>4. /\ UNCHANGED down => D
      /\ UNCHANGED posts => P
      /\ UNCHANGED rx => R
  OBVIOUS
<1>5. ASSUME NEW m \in Orders, down' = Append(down, m),
             m.type = "ActionCancel" => cancel'[m.action].at \in {"sent", "done"}
      PROVE  D
  BY SMT, <1>0, <1>5, Appended
<1>. HIDE DEF D, P, R
<1>6. ASSUME NEW a \in Actions, Send(a) PROVE EarnedInv'
  <2>1. /\ ManagerMessage("ActionStart", call[a].id, a) \in Orders
        /\ ManagerMessage("ActionStart", call[a].id, a).type # "ActionCancel"
    BY DEF ManagerMessage, Orders, ShapeInv, CallsInv, Requests
  <2>. QED  BY <1>3, <1>4, <1>5, <1>6, <2>1 DEF Send, agentVars
<1>7. ASSUME NEW a \in Actions, CancelSend(a) PROVE EarnedInv'
  <2>1. CASE UNCHANGED down
    BY <1>3, <1>4, <1>7, <2>1 DEF CancelSend, agentVars
  <2>2. CASE HasActionInFlight(cancel[a].id, a)
    <3>1. /\ ManagerMessage("ActionCancel", cancel[a].id, a) \in Orders
          /\ ManagerMessage("ActionCancel", cancel[a].id, a).action = a
      BY DEF ManagerMessage, Orders, ShapeInv, CallsInv, Requests
    <3>2. cancel'[a].at = "sent" /\ down' = Append(down, ManagerMessage("ActionCancel", cancel[a].id, a))
      BY <1>7, <2>2 DEF CancelSend, ShapeInv, CallsInv, Requests
    <3>3. D
      BY <1>5, <3>1, <3>2
    <3>. QED  BY <1>3, <1>4, <1>7, <3>3 DEF CancelSend, agentVars
  <2>. QED  BY <1>7, <2>1, <2>2 DEF CancelSend
<1>8. ASSUME HandleAgentData PROVE EarnedInv'
  <2>1. R
    BY <1>0, <1>8, Handled DEF R
  <2>. QED  BY <1>3, <1>4, <1>8, <2>1 DEF HandleAgentData, agentVars
<1>9. ASSUME NEW x \in resends, Resend(x) PROVE EarnedInv'
  <2>1. /\ ManagerMessage("ActionStart", x.id, x.action) \in Orders
        /\ ManagerMessage("ActionStart", x.id, x.action).type # "ActionCancel"
    BY DEF ManagerMessage, Orders, ShapeInv, LinkInv
  <2>2. D
    BY <1>4, <1>5, <1>9, <2>1 DEF Resend
  <2>. QED  BY <1>3, <1>4, <1>9, <2>2 DEF Resend, agentVars
<1>10. ASSUME Open PROVE EarnedInv'
  <2>1. R
    BY SMTT(30), <1>0, <1>10, Opened DEF R, ShapeInv, MapsInv, LinkInv, IsCreate
  <2>. QED  BY <1>3, <1>4, <1>10, <2>1 DEF Open, agentVars
<1>11. ASSUME Respond PROVE EarnedInv'
  <2>1. /\ ManagerMessage("SessionCreateResponse", owed, NoAction) \in Orders \cup Responses
        /\ ManagerMessage("SessionCreateResponse", owed, NoAction).type # "ActionCancel"
    BY SMT DEF ManagerMessage, Responses, ShapeInv, MapsInv, LinkInv
  <2>2. D
    BY SMT, <1>0, <1>11, <2>1, Appended DEF D, Respond
  <2>. QED  BY <1>3, <1>4, <1>11, <2>2 DEF Respond, agentVars
<1>12. ASSUME Lose \/ Forget PROVE EarnedInv'
  <2>1. UNCHANGED rx /\ Teardown
    BY <1>12 DEF Lose, Forget
  <2>2. down' = down \/ down' = <<>>
    BY <1>12 DEF Lose, Forget
  <2>3. D
    BY SMT, <1>4, <2>2 DEF D
  <2>4. P
    <3>1. \A x \in posts' : x \in posts \/ \E y \in runs : x.action = y.action /\ x.result = "null" /\ y.action \in torn'
      BY SMT, <2>1 DEF Teardown, Result
    <3>2. \A y \in runs : y.action \in torn' => y.action \in Actions /\ Earned(y.action, "null")'
      BY DEF Earned, ShapeInv, LinkInv
    <3>. QED  BY <3>1, <3>2 DEF P
  <2>. QED  BY <1>3, <1>4, <2>1, <2>3, <2>4
<1>13. ASSUME AgentDies PROVE EarnedInv'
  BY <1>3, <1>4, <1>13 DEF AgentDies, P
<1>14. ASSUME OnMessage PROVE EarnedInv'
  <2>1. D
    BY <1>0, <1>14, Delivered DEF D
  <2>2. P
    <3>1. CASE Cancel(down[1])
      <4>1. /\ down[1].action \in Actions /\ cancel[down[1].action].at \in {"sent", "done"}
            /\ posts' = posts \cup {Result([action |-> down[1].action, id |-> active], "null")}
        BY <1>0, <1>14, <3>1, Delivered DEF Cancel, EarnedInv, Orders
      <4>2. \A a : a = down[1].action => Earned(a, "null")'
        BY <1>2, <4>1 DEF Earned
      <4>3. \A x \in posts' : x \in posts \/ (x.action = down[1].action /\ x.result = "null")
        BY SMT, <4>1 DEF Result
      <4>. QED  BY <4>1, <4>2, <4>3 DEF P
    <3>2. CASE ~ Cancel(down[1])
      BY <1>0, <1>4, <1>14, <3>2, Delivered DEF Enter, Start, Ignore
    <3>. QED  BY <3>1, <3>2
  <2>. QED  BY <1>3, <1>4, <1>14, <2>1, <2>2 DEF OnMessage
<1>15. ASSUME NEW x \in runs, Finish(x) PROVE EarnedInv'
  <2>1. x.action \in Actions /\ x.action \in ran' /\ posts' = posts \cup {Result(x, "value")}
    BY <1>15 DEF Finish, ShapeInv, LinkInv
  <2>2. \A a : a = x.action => Earned(a, "value")'
    BY <2>1 DEF Earned
  <2>3. P
    BY SMT, <2>1, <2>2 DEF P, Result
  <2>. QED  BY <1>3, <1>4, <1>15, <2>3 DEF Finish
<1>16. ASSUME NEW x \in posts, Post(x) PROVE EarnedInv'
  <2>1. P
    BY <1>16 DEF P, Post
  <2>2. R
    <3>1. CASE UNCHANGED rx
      BY <1>4, <3>1
    <3>2. CASE rx' = Append(rx, PluginMessage("Data", x.id, x.action, x.result))
      <4>1. /\ PluginMessage("Data", x.id, x.action, x.result) \in Results
            /\ PluginMessage("Data", x.id, x.action, x.result).action = x.action
            /\ PluginMessage("Data", x.id, x.action, x.result).result = x.result
        BY DEF PluginMessage, Results, ShapeInv, LinkInv
      <4>. QED  BY SMT, <1>0, <3>2, <4>1, Appended DEF R
    <3>. QED  BY <1>16, <3>1, <3>2 DEF Post
  <2>. QED  BY <1>3, <1>4, <1>16, <2>1, <2>2 DEF Post
<1>17. ASSUME NEW a \in Actions,
              \/ AwaitSession(a) \/ Insert(a) \/ SendFails(a) \/ Disconnect(a)
              \/ CancelAwait(a) \/ CancelRemove(a)
       PROVE  EarnedInv'
  BY <1>3, <1>4, <1>17 DEF AwaitSession, Insert, SendFails, Disconnect, CancelAwait, CancelRemove, agentVars
<1>18. ASSUME TakeRpcs \/ PutRpcs \/ UNCHANGED vars PROVE EarnedInv'
  BY <1>3, <1>4, <1>18 DEF TakeRpcs, PutRpcs, agentVars, vars
<1>. QED
  BY <1>6, <1>7, <1>8, <1>9, <1>10, <1>11, <1>12, <1>13, <1>14, <1>15, <1>16, <1>17, <1>18 DEF Next

(* No step answers a request with what it did not earn.                    *)
LEMMA AnswerStep == ShapeInv /\ EarnedInv /\ AnswerIsEarned /\ [Next]_vars => AnswerIsEarned'
<1>. SUFFICES ASSUME ShapeInv, EarnedInv, AnswerIsEarned, [Next]_vars PROVE AnswerIsEarned'
  OBVIOUS
<1>1. ASSUME \A a \in Actions : \A r \in {"value", "null"} : call'[a].outcome = r =>
               call[a].outcome = r \/ Earned(a, r)'
      PROVE  AnswerIsEarned'
  BY <1>1, EarnedStays DEF AnswerIsEarned, Earned
<1>2. ASSUME NEW xs, NEW o, Complete(xs, o)
      PROVE  \A a \in Actions : call'[a].outcome = call[a].outcome \/ (a \in xs /\ call'[a].outcome = o)
  BY <1>2 DEF Complete, Request
<1>3. ASSUME UNCHANGED call PROVE AnswerIsEarned'
  BY <1>1, <1>3
<1>4. ASSUME NEW a \in Actions,
             \/ AwaitSession(a) \/ Insert(a) \/ Send(a) \/ SendFails(a) \/ Disconnect(a)
      PROVE  AnswerIsEarned'
  <2>1. \A b \in Actions : call'[b].outcome \in {call[b].outcome, "none", "error", "dropped"}
    <3>1. CASE AwaitSession(a) \/ SendFails(a) \/ Disconnect(a)
      BY SMT, <3>1 DEF AwaitSession, SendFails, Disconnect, Request, ShapeInv, CallsInv
    <3>2. CASE Insert(a) \/ Send(a)
      <4>1. PICK k : call' = [call EXCEPT ![a].at = k]
        BY <3>2 DEF Insert, Send
      <4>. QED  BY SMT, <4>1 DEF ShapeInv, CallsInv, Requests
    <3>. QED  BY <1>4, <3>1, <3>2
  <2>. QED  BY <1>1, <2>1
<1>5. ASSUME NEW a \in Actions, CancelRemove(a) PROVE AnswerIsEarned'
  <2>1. Earned(a, "null")'
    BY <1>5 DEF CancelRemove, Earned, ShapeInv, CallsInv, Requests
  <2>2. UNCHANGED call \/ Complete({a}, "null")
    BY <1>5 DEF CancelRemove
  <2>. QED  BY SMT, <1>1, <1>2, <1>3, <2>1, <2>2
<1>6. ASSUME HandleAgentData PROVE AnswerIsEarned'
  <2>1. rx \in Seq(Notices \cup Results)
    BY DEF ShapeInv, LinkInv
  <2>2. CASE TerminateSession
    BY SMTT(30), <1>1, <1>2, <2>2 DEF TerminateSession
  <2>3. CASE Answer(rx[1])
    <3>1. rx[1].action \in Actions /\ Earned(rx[1].action, rx[1].result)
      BY <1>6, <2>1, <2>3, Handled DEF EarnedInv, Answer, Results
    <3>2. \A a, r : a = rx[1].action /\ r = rx[1].result => Earned(a, r)'
      BY <3>1, EarnedStays DEF Earned
    <3>3. UNCHANGED call \/ Complete({rx[1].action}, rx[1].result)
      BY <2>3 DEF Answer
    <3>. QED  BY SMT, <1>1, <1>2, <1>3, <3>1, <3>2, <3>3
  <2>. QED  BY <1>3, <1>6, <2>1, <2>2, <2>3, Handled DEF HandleCreate
<1>7. ASSUME PutRpcs PROVE AnswerIsEarned'
  BY SMT, <1>1, <1>2, <1>7 DEF PutRpcs
<1>8. ASSUME NEW a \in Actions, CancelAwait(a) \/ CancelSend(a) PROVE AnswerIsEarned'
  BY <1>3, <1>8 DEF CancelAwait, CancelSend
<1>9. ASSUME TakeRpcs \/ Open \/ Respond \/ Lose \/ Forget \/ AgentDies \/ OnMessage PROVE AnswerIsEarned'
  BY <1>3, <1>9 DEF TakeRpcs, Open, Respond, Lose, Forget, AgentDies, OnMessage, callVars
<1>10. ASSUME NEW x, Resend(x) \/ Finish(x) \/ Post(x) PROVE AnswerIsEarned'
  BY <1>3, <1>10 DEF Resend, Finish, Post, callVars
<1>11. ASSUME UNCHANGED vars PROVE AnswerIsEarned'
  BY <1>3, <1>11 DEF vars
<1>. QED  BY <1>4, <1>5, <1>6, <1>7, <1>8, <1>9, <1>10, <1>11 DEF Next

-----------------------------------------------------------------------------
(* The agent's sessions.                                                   *)

(* What a step may do to the queue to the agent.                           *)
NewDown(m) ==
  /\ m \in Orders \cup Responses /\ UNCHANGED <<active, issued>>
  /\ \/ m.type = "ActionCancel"
     \/ m.type = "ActionStart" /\ (m.action \in early' \/ (m.id = active /\ active # NoSession))
     \/ m.type = "SessionCreateResponse" /\ m.id = owed /\ owed # NoSession /\ owed' = NoSession
(* What a step does to the connection to the agent and to its session.     *)
LEMMA DownStep ==
  ASSUME ShapeInv, [Next]_vars
  PROVE  /\ early \subseteq early' /\ lost \subseteq lost'
         /\ \/ UNCHANGED <<down, owed, issued>> /\ (active' = active \/ active' = NoSession)
            \/ UNCHANGED <<down, active>> /\ Open
            \/ UNCHANGED issued /\ (down' = down \/ down' = <<>>) /\ active' = NoSession /\ owed' \in {owed, NoSession}
            \/ UNCHANGED <<owed, issued>> /\ OnMessage
            \/ owed' \in {owed, NoSession} /\ \E m : NewDown(m) /\ down' = Append(down, m)
<1>1. ASSUME NEW a \in Actions, Send(a)
      PROVE  NewDown(ManagerMessage("ActionStart", call[a].id, a)) /\ UNCHANGED owed /\ early \subseteq early'
  <2>1. call[a].id \in Nat \ {NoSession}
    BY <1>1 DEF Send, ShapeInv, CallsInv, Requests
  <2>2. a \in early' \/ call[a].id = active
    BY <1>1 DEF Send
  <2>. QED  BY <1>1, <2>1, <2>2 DEF Send, NewDown, ManagerMessage, Orders, agentVars, linkVars
<1>2. ASSUME NEW a \in Actions, CancelSend(a)
      PROVE  /\ UNCHANGED <<owed, issued, active, early, lost>>
             /\ \/ UNCHANGED down
                \/ /\ NewDown(ManagerMessage("ActionCancel", cancel[a].id, a))
                   /\ down' = Append(down, ManagerMessage("ActionCancel", cancel[a].id, a))
  <2>1. cancel[a].id \in Nat
    BY DEF ShapeInv, CallsInv, Requests
  <2>2. UNCHANGED <<owed, issued, active, early, lost>>
    BY <1>2 DEF CancelSend, agentVars, linkVars, historyVars
  <2>3. NewDown(ManagerMessage("ActionCancel", cancel[a].id, a))
    BY <2>1, <2>2 DEF NewDown, ManagerMessage, Orders
  <2>. QED  BY <1>2, <2>2, <2>3 DEF CancelSend
<1>3. ASSUME NEW x \in resends, Resend(x)
      PROVE  /\ UNCHANGED <<owed, issued, active>> /\ early \subseteq early' /\ lost \subseteq lost'
             /\ \/ UNCHANGED down
                \/ /\ NewDown(ManagerMessage("ActionStart", x.id, x.action))
                   /\ down' = Append(down, ManagerMessage("ActionStart", x.id, x.action))
  <2>1. x.id \in Nat \ {NoSession} /\ x.action \in Actions
    BY DEF ShapeInv, LinkInv
  <2>2. UNCHANGED <<owed, issued, active>> /\ early \subseteq early' /\ lost \subseteq lost'
    BY <1>3 DEF Resend, agentVars, linkVars
  <2>3. CASE down' = Append(down, ManagerMessage("ActionStart", x.id, x.action)) /\ (x.action \in early' \/ x.id = active)
    BY <2>1, <2>2, <2>3 DEF NewDown, ManagerMessage, Orders
  <2>. QED  BY <1>3, <2>2, <2>3 DEF Resend
<1>4. ASSUME Respond
      PROVE  /\ NewDown(ManagerMessage("SessionCreateResponse", owed, NoAction)) /\ owed' = NoSession
             /\ UNCHANGED <<early, lost>>
  BY SMT, <1>4 DEF Respond, NewDown, ManagerMessage, Responses, agentVars, historyVars, ShapeInv, LinkInv, MapsInv
<1>5. ASSUME NEW a \in Actions,
             \/ AwaitSession(a) \/ Insert(a) \/ SendFails(a) \/ Disconnect(a)
             \/ CancelAwait(a) \/ CancelRemove(a)
      PROVE  UNCHANGED <<down, owed, issued, active, early, lost>>
  BY <1>5 DEF AwaitSession, Insert, SendFails, Disconnect, CancelAwait, CancelRemove, agentVars, linkVars, historyVars
<1>6. ASSUME HandleAgentData \/ TakeRpcs \/ PutRpcs
      PROVE  UNCHANGED <<down, owed, issued, active, early, lost>>
  BY <1>6 DEF HandleAgentData, TakeRpcs, PutRpcs, agentVars, linkVars, historyVars
<1>7. ASSUME NEW x, Finish(x) \/ Post(x)
      PROVE  UNCHANGED <<down, owed, issued, active, early>> /\ lost \subseteq lost'
  BY <1>7 DEF Finish, Post, linkVars
<1>8. ASSUME Lose \/ Forget \/ AgentDies
      PROVE  /\ UNCHANGED <<issued, early, lost>> /\ active' = NoSession
             /\ down' = down \/ down' = <<>>
             /\ owed' \in {owed, NoSession}
  BY <1>8 DEF Lose, Forget, AgentDies, Teardown, linkVars, historyVars
<1>9. ASSUME OnMessage PROVE UNCHANGED <<owed, issued, early, lost>>
  BY <1>9 DEF OnMessage, linkVars, historyVars
<1>10. ASSUME Open PROVE UNCHANGED <<down, active, early, lost>>
  BY <1>10 DEF Open, agentVars, historyVars
<1>11. ASSUME UNCHANGED vars PROVE UNCHANGED <<down, owed, issued, active, early, lost>>
  BY <1>11 DEF vars
<1>12. \A a \in Actions : Send(a) =>
         down' = Append(down, ManagerMessage("ActionStart", call[a].id, a)) /\ UNCHANGED lost
  BY DEF Send
<1>13. Respond => down' = Append(down, ManagerMessage("SessionCreateResponse", owed, NoAction))
  BY DEF Respond
<1>. QED
  BY <1>1, <1>2, <1>3, <1>4, <1>5, <1>6, <1>7, <1>8, <1>9, <1>10, <1>11, <1>12, <1>13 DEF Next

(* A response that will not come does not come later either.               *)
LEMMA SpentStays ==
  ASSUME ShapeInv, AgentInv, [Next]_vars, NEW s, Spent(s)
  PROVE  Spent(s)'
<1>0. down \in Seq(Orders \cup Responses) /\ issued \in Nat /\ owed \in Nat /\ s \in 1..issued
  BY SMT DEF ShapeInv, MapsInv, LinkInv, Spent
<1>1. CASE UNCHANGED <<down, owed, issued>>
  BY <1>1 DEF Spent
<1>2. CASE UNCHANGED <<down, active>> /\ Open
  BY SMT, <1>0, <1>2 DEF Spent, Open
<1>3. CASE UNCHANGED issued /\ (down' = down \/ down' = <<>>) /\ owed' \in {owed, NoSession}
  BY SMT, <1>0, <1>3 DEF Spent, NoSession
<1>4. CASE UNCHANGED <<owed, issued>> /\ OnMessage
  BY <1>0, <1>4, Delivered DEF Spent
<1>5. ASSUME owed' \in {owed, NoSession}, NEW m, NewDown(m), down' = Append(down, m) PROVE Spent(s)'
  <2>1. m \in Orders \cup Responses /\ issued' = issued
    BY <1>5 DEF NewDown
  <2>2. m.type = "SessionCreateResponse" => m.id # s
    BY <1>5 DEF NewDown, Spent
  <2>3. \A i \in 1..Len(down') : down'[i].type = "SessionCreateResponse" => down'[i].id # s
    BY SMT, <1>0, <1>5, <2>1, <2>2, Appended DEF Spent
  <2>. QED  BY SMT, <1>0, <1>5, <2>1, <2>3 DEF Spent, NoSession
<1>. QED  BY <1>1, <1>2, <1>3, <1>4, <1>5, DownStep

(* A session that is over at the agent stays over.                         *)
LEMMA DeadStays ==
  ASSUME ShapeInv, AgentInv, [Next]_vars, NEW s, Dead(s)
  PROVE  Dead(s)'
<1>1. Spent(s)' /\ s # NoSession
  BY SMT, SpentStays DEF Dead, Spent, NoSession
<1>2. active' # s
  <2>1. ASSUME OnMessage PROVE active' # s
    BY <1>1, <2>1, Delivered DEF Dead, Spent, ShapeInv, LinkInv, Enter, Start, Cancel, Ignore, Responses
  <2>2. Open => active' = active
    BY DEF Open, agentVars
  <2>. QED  BY <1>1, <2>1, <2>2, DownStep DEF Dead, NewDown
<1>. QED  BY <1>1, <1>2 DEF Dead

(* No step brings back a session that the agent has left.                  *)
LEMMA AgentStep == ShapeInv /\ AgentInv /\ [Next]_vars => AgentInv'
<1>. SUFFICES ASSUME ShapeInv, AgentInv, [Next]_vars PROVE AgentInv'
  OBVIOUS
<1>0. /\ down \in Seq(Orders \cup Responses) /\ Len(down) \in Nat /\ issued \in Nat /\ owed \in 0..issued
      /\ active \in {NoSession, cur} /\ cur \in Nat
      /\ \A i \in 1..Len(down) : down[i].id \in Nat
  <2>1. \A i \in 1..Len(down) : down[i] \in Orders \cup Responses
    BY SMT DEF ShapeInv, LinkInv
  <2>. QED  BY SMT, <2>1 DEF ShapeInv, MapsInv, LinkInv, Orders, Responses
<1>1. \A s : Spent(s) => Spent(s)'
  BY SpentStays
<1>2. active' # NoSession => \A s : s = active' => Spent(s)'
  <2>1. ASSUME OnMessage PROVE active' # NoSession => \A s : s = active' => Spent(s)'
    <3>1. CASE Enter(down[1])
      <4>1. /\ active' = down[1].id /\ down[1].type = "SessionCreateResponse"
            /\ down[1].id \in 1..issued /\ down[1].id # owed
        BY <1>0, <2>1, <3>1, Delivered DEF Enter, Responses, AgentInv
      <4>2. \A i \in 1..Len(down') : down'[i].type = "SessionCreateResponse" => down'[i].id # down[1].id
        BY SMT, <1>0, <2>1, <4>1, Delivered DEF AgentInv
      <4>3. UNCHANGED <<issued, owed>>
        BY <2>1 DEF OnMessage, linkVars
      <4>. QED  BY <4>1, <4>2, <4>3 DEF Spent
    <3>2. CASE ~ Enter(down[1])
      BY <1>0, <1>1, <2>1, <3>2, Delivered DEF AgentInv, Start, Cancel, Ignore
    <3>. QED  BY <3>1, <3>2
  <2>2. ASSUME active' = active PROVE active' # NoSession => \A s : s = active' => Spent(s)'
    BY <1>1, <2>2 DEF AgentInv
  <2>. QED  BY <2>1, <2>2, DownStep DEF NewDown
<1>3. ASSUME NEW x \in (runs \cup posts)' PROVE \A s : s = x.id => Spent(s)'
  <2>1. (\E y \in runs \cup posts : x.id = y.id) \/ (x.id = active /\ active # NoSession)
    <3>1. ASSUME NEW y \in runs, Finish(y)
          PROVE  \E z \in runs \cup posts : x.id = z.id
      BY SMT, <1>3, <3>1 DEF Finish, Result
    <3>2. ASSUME NEW y \in posts, Post(y)
          PROVE  \E z \in runs \cup posts : x.id = z.id
      BY <1>3, <3>2 DEF Post
    <3>3. ASSUME Lose \/ Forget PROVE \E z \in runs \cup posts : x.id = z.id
      BY SMTT(30), <1>3, <3>3 DEF Lose, Forget, Teardown, Result
    <3>4. ASSUME OnMessage
          PROVE (\E z \in runs \cup posts : x.id = z.id) \/ (x.id = active /\ active # NoSession)
      BY SMT, <1>0, <1>3, <3>4, Delivered DEF Enter, Start, Cancel, Ignore, Result
    <3>5. ASSUME AgentDies PROVE FALSE
      BY <1>3, <3>5 DEF AgentDies
    <3>6. ASSUME UNCHANGED <<runs, posts>> PROVE \E z \in runs \cup posts : x.id = z.id
      BY <1>3, <3>6
    <3>7. ASSUME NEW a \in Actions,
                 \/ AwaitSession(a) \/ Insert(a) \/ Send(a) \/ SendFails(a) \/ Disconnect(a)
                 \/ CancelAwait(a) \/ CancelSend(a) \/ CancelRemove(a)
          PROVE  UNCHANGED <<runs, posts>>
      BY <3>7 DEF AwaitSession, Insert, Send, SendFails, Disconnect, CancelAwait, CancelSend, CancelRemove, agentVars
    <3>8. ASSUME HandleAgentData \/ TakeRpcs \/ PutRpcs \/ Open \/ Respond \/ UNCHANGED vars
          PROVE  UNCHANGED <<runs, posts>>
      BY <3>8 DEF HandleAgentData, TakeRpcs, PutRpcs, Open, Respond, agentVars, vars
    <3>9. ASSUME NEW y, Resend(y) PROVE UNCHANGED <<runs, posts>>
      BY <3>9 DEF Resend, agentVars
    <3>. QED  BY <3>1, <3>2, <3>3, <3>4, <3>5, <3>6, <3>7, <3>8, <3>9 DEF Next
  <2>. QED  BY <1>1, <2>1 DEF AgentInv
(* The queue to the agent.                                                 *)
<1>. DEFINE Good(m) == /\ m.type = "SessionCreateResponse" => m.id \in 1..issued' /\ m.id # owed'
                       /\ m.type = "ActionStart" /\ m.action \notin early' => \A s : s = m.id => Spent(s)'
            Unique == \A i, j \in 1..Len(down') :
                        down'[i].type = "SessionCreateResponse" /\ down'[j].type = "SessionCreateResponse"
                          /\ down'[i].id = down'[j].id => i = j
<1>4. ASSUME NEW i \in 1..Len(down) PROVE Good(down[i])
  <2>1. /\ down[i].type = "SessionCreateResponse" => down[i].id \in 1..issued /\ down[i].id # owed
        /\ down[i].type = "ActionStart" /\ down[i].action \notin early' => Spent(down[i].id)
    BY DownStep DEF AgentInv
  <2>2. /\ issued' \in Nat /\ issued <= issued'
        /\ owed' \in {owed, NoSession} \/ owed' = issued + 1
    BY SMT, <1>0, DownStep DEF Open, NewDown
  <2>. QED  BY SMT, <1>0, <1>1, <2>1, <2>2 DEF NoSession
<1>5. (\A i \in 1..Len(down') : Good(down'[i])) /\ Unique
  <2>1. CASE UNCHANGED down
    BY <1>4, <2>1 DEF AgentInv
  <2>2. CASE down' = <<>>
    BY SMT, <2>2
  <2>3. CASE OnMessage
    <3>1. Unique
      <4>1. /\ \A i \in 1..Len(down') : down'[i] = down[i + 1] /\ i + 1 \in 1..Len(down)
            /\ Len(down') \in Nat
        BY <1>0, <2>3, Delivered
      <4>2. \A i, j \in 1..Len(down') : i + 1 = j + 1 => i = j
        BY SMT, <4>1
      <4>. QED  BY <4>1, <4>2 DEF AgentInv
    <3>2. \A i \in 1..Len(down') : Good(down'[i])
      <4>. HIDE DEF Good
      <4>. QED  BY <1>0, <1>4, <2>3, Delivered
    <3>. QED  BY <3>1, <3>2
  <2>4. ASSUME NEW m, NewDown(m), down' = Append(down, m) PROVE (\A i \in 1..Len(down') : Good(down'[i])) /\ Unique
    <3>1. m \in Orders \cup Responses
      BY <2>4 DEF NewDown
    <3>2. Good(m)
      <4>1. m.type = "SessionCreateResponse" => m.id \in 1..issued' /\ m.id # owed'
        BY SMT, <1>0, <2>4 DEF NewDown, NoSession
      <4>2. m.type = "ActionStart" /\ m.action \notin early' => Spent(m.id)
        BY <2>4 DEF NewDown, AgentInv
      <4>. QED  BY <1>1, <4>1, <4>2
    <3>3. \A i \in 1..Len(down) : down[i].type = "SessionCreateResponse" /\ m.type = "SessionCreateResponse" => down[i].id # m.id
      BY <2>4 DEF NewDown, AgentInv
    <3>4. Unique
      BY SMTT(30), <1>0, <2>4, <3>1, <3>3, Appended DEF AgentInv
    <3>5. \A i \in 1..Len(down') : Good(down'[i])
      <4>. HIDE DEF Good
      <4>. QED  BY SMT, <1>0, <1>4, <2>4, <3>1, <3>2, Appended
    <3>. QED  BY <3>4, <3>5
  <2>. QED  BY <2>1, <2>2, <2>3, <2>4, DownStep
<1>. QED  BY <1>2, <1>3, <1>5 DEF AgentInv

-----------------------------------------------------------------------------
(* Somebody works on a request.                                            *)

(* Work on action a under session s goes on, until its result is consumed, *)
(* the session is over at the agent, or the work is lost.                  *)
Consumes(a, s) == HandleAgentData /\ rx[1].type = "Data" /\ rx[1].action = a /\ rx[1].id = s
(* A request that is being worked on stays so until the service takes its  *)
(* result, or its session is over.                                         *)
LEMMA WorkGoesOn ==
  ASSUME ShapeInv, AgentInv, [Next]_vars, NEW a \in Actions, a \notin early' \cup lost',
         NEW s, InTheWorks(a, s), ~ Consumes(a, s)
  PROVE  InTheWorks(a, s)' \/ Dead(s)'
<1>. DEFINE InResends == \E x \in resends : x.action = a /\ x.id = s
            InDown == \E i \in DOMAIN down : down[i] = ManagerMessage("ActionStart", s, a)
            InAgent == \E x \in runs \cup posts : x.action = a /\ x.id = s
            InRx == \E i \in DOMAIN rx : rx[i].type = "Data" /\ rx[i].action = a /\ rx[i].id = s
<1>0. /\ down \in Seq(Orders \cup Responses) /\ DOMAIN down = 1..Len(down)
      /\ rx \in Seq(Notices \cup Results) /\ DOMAIN rx = 1..Len(rx)
      /\ active \in {NoSession, cur} /\ cur \in Nat
      /\ a \notin early /\ a \notin lost
  BY SMT, DownStep DEF ShapeInv, LinkInv
<1>1. InResends \/ InDown \/ InAgent \/ InRx
  BY DEF InTheWorks
<1>2. ASSUME InResends' \/ InDown' \/ InAgent' \/ InRx' PROVE InTheWorks(a, s)'
  BY <1>2 DEF InTheWorks
<1>3. \A t : Spent(t) => Spent(t)'
  BY SpentStays
<1>4. Spent(s) /\ s # active' => Dead(s)'
  BY <1>3 DEF Dead
<1>. HIDE DEF InAgent
(* A message to start the action is delivered, or its session is over.     *)
<1>5. CASE InDown
  <2>1. PICK i \in 1..Len(down) : down[i] = ManagerMessage("ActionStart", s, a)
    BY <1>0, <1>5
  <2>2. down[i].type = "ActionStart" /\ down[i].id = s /\ down[i].action = a
    BY SMTT(30), <2>1 DEF ManagerMessage
  <2>3. Spent(s) /\ s # NoSession
    BY SMT, <1>0, <2>2 DEF AgentInv, Spent, NoSession
  <2>4. CASE UNCHANGED down
    BY <1>2, <1>5, <2>4
  <2>5. CASE active' = NoSession
    BY <1>4, <2>3, <2>5
  <2>6. CASE OnMessage
    <3>1. CASE i # 1
      <4>1. down' \in Seq(Orders \cup Responses) /\ i - 1 \in 1..Len(down') /\ down'[i - 1] = down[i]
        BY SMTT(30), <1>0, <2>1, <2>6, <3>1, Delivered
      <4>. QED  BY SMTT(30), <1>2, <2>1, <4>1
    <3>2. CASE i = 1 /\ Start(down[1])
      <4>1. [action |-> a, id |-> s] \in runs'
        BY <1>0, <2>2, <3>2 DEF Start
      <4>. QED  BY SMT, <1>2, <4>1 DEF InAgent
    <3>3. CASE i = 1 /\ Ignore(down[1])
      BY <1>0, <1>4, <2>2, <2>3, <3>3 DEF Ignore
    <3>. QED  BY <1>0, <2>2, <2>6, <3>1, <3>2, <3>3, Delivered DEF Enter, Cancel, Responses
  <2>7. ASSUME NEW m, NewDown(m), down' = Append(down, m) PROVE InTheWorks(a, s)'
    <3>1. m \in Orders \cup Responses
      BY <2>7 DEF NewDown
    <3>2. down' \in Seq(Orders \cup Responses) /\ i \in 1..Len(down') /\ down'[i] = down[i]
      BY SMT, <1>0, <2>1, <2>7, <3>1, Appended
    <3>. QED  BY SMT, <1>2, <2>1, <3>2
  <2>. QED  BY <2>4, <2>5, <2>6, <2>7, DownStep
(* A task that sends it again does so.                                     *)
<1>6. CASE InResends
  <2>1. CASE resends \subseteq resends'
    BY <1>2, <1>6, <2>1
  <2>2. ASSUME NEW x \in resends, Resend(x), x.action = a, x.id = s PROVE InTheWorks(a, s)'
    <3>1. down' = Append(down, ManagerMessage("ActionStart", s, a))
      BY <2>2 DEF Resend
    <3>2. ManagerMessage("ActionStart", s, a) \in Orders
      BY <2>2 DEF ManagerMessage, Orders, ShapeInv, LinkInv
    <3>3. down' \in Seq(Orders \cup Responses) /\ Len(down) + 1 \in 1..Len(down')
          /\ down'[Len(down) + 1] = ManagerMessage("ActionStart", s, a)
      BY SMT, <1>0, <3>1, <3>2, Appended
    <3>. QED  BY SMT, <1>2, <3>3
  <2>3. ASSUME NEW x \in resends, Resend(x), ~ (x.action = a /\ x.id = s) PROVE InTheWorks(a, s)'
    BY <1>2, <1>6, <2>3 DEF Resend
  <2>4. ASSUME NEW b \in Actions,
               \/ AwaitSession(b) \/ Insert(b) \/ Send(b) \/ SendFails(b) \/ Disconnect(b)
               \/ CancelAwait(b) \/ CancelSend(b) \/ CancelRemove(b)
        PROVE  UNCHANGED resends
    BY <2>4 DEF AwaitSession, Insert, Send, SendFails, Disconnect, CancelAwait, CancelSend, CancelRemove, serviceVars
  <2>5. HandleAgentData \/ TakeRpcs \/ PutRpcs \/ UNCHANGED vars => resends \subseteq resends'
    BY DEF HandleAgentData, TakeRpcs, PutRpcs, vars
  <2>6. Open \/ Respond \/ Lose \/ Forget \/ AgentDies \/ OnMessage => UNCHANGED resends
    BY DEF Open, Respond, Lose, Forget, AgentDies, OnMessage, serviceVars
  <2>7. ASSUME NEW x, Finish(x) \/ Post(x) PROVE UNCHANGED resends
    BY <2>7 DEF Finish, Post, serviceVars
  <2>. QED  BY <2>1, <2>2, <2>3, <2>4, <2>5, <2>6, <2>7 DEF Next
(* The agent runs it and posts its result, unless the agent dies.          *)
<1>7. CASE InAgent
  <2>1. PICK x \in runs \cup posts : x.action = a /\ x.id = s
    BY <1>7 DEF InAgent
  <2>2. Spent(s) /\ s # NoSession
    BY SMT, <2>1 DEF AgentInv, Spent, NoSession
  <2>3. CASE UNCHANGED <<runs, posts>>
    BY <1>2, <1>7, <2>3 DEF InAgent
  <2>4. CASE AgentDies
    BY <1>4, <2>2, <2>4 DEF AgentDies
  <2>5. ASSUME \E y \in (runs \cup posts)' : y.action = a /\ y.id = s PROVE InTheWorks(a, s)'
    BY <1>2, <2>5 DEF InAgent
  <2>6. CASE Lose \/ Forget
    <3>1. Teardown
      BY <2>6 DEF Lose, Forget
    <3>2. CASE x \in runs \ runs'
      <4>1. Result(x, "null") \in posts' /\ Result(x, "null").action = a /\ Result(x, "null").id = s
        BY <2>1, <3>1, <3>2 DEF Teardown, Result
      <4>. QED  BY <2>5, <4>1
    <3>3. CASE x \in runs' \/ x \in posts
      BY <2>1, <2>5, <3>1, <3>3 DEF Teardown
    <3>. QED  BY <2>1, <3>2, <3>3
  <2>7. CASE OnMessage
    <3>1. CASE Cancel(down[1])
      <4>. DEFINE y == [action |-> down[1].action, id |-> active]
      <4>1. runs' = runs \ {y} /\ posts' = posts \cup {Result(y, "null")}
        BY <3>1 DEF Cancel
      <4>2. Result(y, "null").action = y.action /\ Result(y, "null").id = y.id
        BY DEF Result
      <4>. HIDE DEF y
      <4>. QED  BY <2>1, <2>5, <4>1, <4>2
    <3>2. CASE ~ Cancel(down[1])
      <4>1. runs \subseteq runs' /\ posts' = posts
        BY <1>0, <2>7, <3>2, Delivered DEF Enter, Start, Ignore
      <4>. QED  BY <2>1, <2>5, <4>1
    <3>. QED  BY <3>1, <3>2
  <2>8. ASSUME NEW y \in runs, Finish(y) PROVE InTheWorks(a, s)'
    <3>1. runs' = runs \ {y} /\ posts' = posts \cup {Result(y, "value")}
      BY <2>8 DEF Finish
    <3>2. Result(y, "value").action = y.action /\ Result(y, "value").id = y.id
      BY DEF Result
    <3>. QED  BY <2>1, <2>5, <3>1, <3>2
  <2>9. ASSUME NEW y \in posts, Post(y) PROVE InTheWorks(a, s)' \/ Dead(s)'
    <3>1. posts' = posts \ {y} /\ runs' = runs /\ active' = active
      BY <2>9 DEF Post
    <3>2. CASE x # y
      BY <2>1, <2>5, <3>1, <3>2
    <3>3. CASE x = y /\ s = cur
      <4>. DEFINE m == PluginMessage("Data", y.id, y.action, y.result)
      <4>1. m \in Results /\ m.type = "Data" /\ m.action = y.action /\ m.id = y.id
        BY DEF PluginMessage, Results, ShapeInv, LinkInv
      <4>2. rx' = Append(rx, m)
        BY <2>1, <2>9, <3>3 DEF Post
      <4>. HIDE DEF m
      <4>3. rx' \in Seq(Notices \cup Results) /\ Len(rx) + 1 \in 1..Len(rx') /\ rx'[Len(rx) + 1] = m
        BY SMT, <1>0, <4>1, <4>2, Appended
      <4>. QED  BY SMT, <1>2, <2>1, <3>3, <4>1, <4>3
    <3>4. CASE s # cur
      BY <1>0, <1>4, <2>2, <3>1, <3>4
    <3>. QED  BY <3>2, <3>3, <3>4
  <2>10. ASSUME NEW b \in Actions,
                \/ AwaitSession(b) \/ Insert(b) \/ Send(b) \/ SendFails(b) \/ Disconnect(b)
                \/ CancelAwait(b) \/ CancelSend(b) \/ CancelRemove(b)
         PROVE  UNCHANGED <<runs, posts>>
    BY <2>10 DEF AwaitSession, Insert, Send, SendFails, Disconnect, CancelAwait, CancelSend, CancelRemove, agentVars
  <2>11. HandleAgentData \/ TakeRpcs \/ PutRpcs \/ Open \/ Respond \/ UNCHANGED vars => UNCHANGED <<runs, posts>>
    BY DEF HandleAgentData, TakeRpcs, PutRpcs, Open, Respond, agentVars, vars
  <2>12. ASSUME NEW y, Resend(y) PROVE UNCHANGED <<runs, posts>>
    BY <2>12 DEF Resend, agentVars
  <2>. QED  BY <2>3, <2>4, <2>6, <2>7, <2>8, <2>9, <2>10, <2>11, <2>12 DEF Next
(* Its result waits for the service.                                       *)
<1>8. CASE InRx
  <2>1. PICK i \in 1..Len(rx) : rx[i].type = "Data" /\ rx[i].action = a /\ rx[i].id = s
    BY <1>0, <1>8
  <2>2. CASE UNCHANGED rx
    BY <1>2, <1>8, <2>2
  <2>3. CASE HandleAgentData
    <3>1. i # 1
      BY <2>1, <2>3 DEF Consumes
    <3>2. rx' \in Seq(Notices \cup Results) /\ i - 1 \in 1..Len(rx') /\ rx'[i - 1] = rx[i]
      BY SMTT(30), <1>0, <2>1, <2>3, <3>1, Handled
    <3>. QED  BY SMT, <1>2, <2>1, <3>2
  <2>4. CASE Open
    <3>1. rx' \in Seq(Notices \cup Results) /\ i \in 1..Len(rx') /\ rx'[i] = rx[i]
      BY <1>0, <2>1, <2>4, Opened DEF ShapeInv, MapsInv
    <3>. QED  BY SMT, <1>2, <2>1, <3>1
  <2>5. ASSUME NEW y \in posts, Post(y) PROVE InTheWorks(a, s)'
    <3>1. PluginMessage("Data", y.id, y.action, y.result) \in Results
      BY DEF PluginMessage, Results, ShapeInv, LinkInv
    <3>2. rx' = rx \/ rx' = Append(rx, PluginMessage("Data", y.id, y.action, y.result))
      BY <2>5 DEF Post
    <3>3. rx' \in Seq(Notices \cup Results) /\ i \in 1..Len(rx') /\ rx'[i] = rx[i]
      BY SMTT(30), <1>0, <2>1, <3>1, <3>2, Appended
    <3>. QED  BY SMT, <1>2, <2>1, <3>3
  <2>6. ASSUME NEW b \in Actions,
               \/ AwaitSession(b) \/ Insert(b) \/ Send(b) \/ SendFails(b) \/ Disconnect(b)
               \/ CancelAwait(b) \/ CancelSend(b) \/ CancelRemove(b)
        PROVE  UNCHANGED rx
    BY <2>6 DEF AwaitSession, Insert, Send, SendFails, Disconnect, CancelAwait, CancelSend, CancelRemove
  <2>7. ASSUME TakeRpcs \/ PutRpcs \/ Respond \/ Lose \/ Forget \/ AgentDies \/ OnMessage \/ UNCHANGED vars
        PROVE  UNCHANGED rx
    BY <2>7 DEF TakeRpcs, PutRpcs, Respond, Lose, Forget, AgentDies, OnMessage, vars
  <2>8. ASSUME NEW y, Resend(y) \/ Finish(y) PROVE UNCHANGED rx
    BY <2>8 DEF Resend, Finish
  <2>. QED  BY <2>2, <2>3, <2>4, <2>5, <2>6, <2>7, <2>8 DEF Next
<1>. QED  BY <1>1, <1>5, <1>6, <1>7, <1>8

(* No step loses a request that was sent, unless it is recorded as sent    *)
(* too early or as lost.                                                   *)
LEMMA WorksStep == ShapeInv /\ FreshInv /\ AgentInv /\ WorksInv /\ [Next]_vars => WorksInv'
<1>. SUFFICES ASSUME ShapeInv, FreshInv, AgentInv, WorksInv, [Next]_vars PROVE WorksInv'
  OBVIOUS
<1>. DEFINE Covered(a) == (a \in RpcsOf(sessions) /\ Sent(a)) \/ a \in moving.xs
            Held(a) == InTheWorks(a, sessions) \/ Dead(sessions)
<1>0. early \subseteq early' /\ lost \subseteq lost'
  BY DownStep
<1>1. ASSUME alive' => \A a \in Actions \ (early' \cup lost') : Covered(a)' => Held(a)'
      PROVE  WorksInv'
  BY <1>1 DEF WorksInv
<1>2. ASSUME NEW a \in Actions \ (early' \cup lost'), alive, sessions' = sessions, Covered(a),
             ~ Consumes(a, sessions)
      PROVE  Held(a)'
  <2>1. Held(a)
    BY <1>0, <1>2 DEF WorksInv
  <2>2. CASE Dead(sessions)
    <3>1. \A s : Dead(s) => Dead(s)'
      BY DeadStays
    <3>. QED  BY <1>2, <2>2, <3>1
  <2>3. CASE InTheWorks(a, sessions)
    <3>1. \A s : InTheWorks(a, s) /\ ~ Consumes(a, s) => InTheWorks(a, s)' \/ Dead(s)'
      BY <1>2, WorkGoesOn
    <3>. QED  BY <1>2, <2>3, <3>1
  <2>. QED  BY <2>1, <2>2, <2>3
<1>. HIDE DEF Held
<1>3. ASSUME alive' => alive, sessions' = sessions, ~ HandleAgentData,
             \A a \in Actions \ (early' \cup lost') : Covered(a)' => Covered(a) \/ Held(a)'
      PROVE  WorksInv'
  BY <1>1, <1>2, <1>3 DEF Consumes
<1>4. ASSUME alive' => alive, UNCHANGED <<sessions, rpcs, moving, call>>, ~ HandleAgentData
      PROVE  WorksInv'
  BY <1>3, <1>4 DEF RpcsOf, Sent
<1>5. ASSUME HandleAgentData PROVE WorksInv'
  <2>1. /\ moving.at = "none" /\ moving.xs = {} /\ alive /\ rx \in Seq(Notices \cup Results)
        /\ NoSession \notin DOMAIN rpcs
    BY SMT, <1>5 DEF HandleAgentData, ShapeInv, MapsInv, LinkInv, NoSession
  <2>2. CASE IsCreate(rx[1]) /\ HandleCreate(rx[1].id)
    <3>1. Fresh(rx[1].id) /\ rx[1].id \in Nat
      BY <1>5, <2>1, <2>2, Handled DEF FreshInv, Notices, Results
    <3>2. rx[1].id \notin DOMAIN rpcs
      BY SMT, <3>1 DEF Fresh
    <3>3. moving'.xs = {}
      BY <2>2 DEF HandleCreate, NotMoving
    <3>. QED  BY <1>1, <2>2, <3>2, <3>3 DEF HandleCreate, RpcsOf
  <2>3. CASE TerminateSession /\ UNCHANGED moving
    <3>1. NoSession \notin DOMAIN rpcs' /\ sessions' = NoSession
      BY <2>1, <2>3 DEF TerminateSession, Without
    <3>. QED  BY <1>1, <2>1, <2>3, <3>1 DEF RpcsOf
  <2>4. CASE Answer(rx[1])
    <3>1. \A a \in Actions : a \in RpcsOf(sessions)' => a \in RpcsOf(sessions) /\ a # rx[1].action
      BY <2>4 DEF Answer, RemoveActionInFlight, RpcsOf
    <3>2. \A a \in Actions : a # rx[1].action => call'[a] = call[a]
      BY <2>4 DEF Answer, Complete
    <3>3. \A a \in Actions : Covered(a)' => Covered(a) /\ ~ Consumes(a, sessions)
      BY <2>1, <2>4, <3>1, <3>2 DEF Answer, Sent, Consumes
    <3>. QED  BY <1>1, <1>2, <2>1, <2>4, <3>3 DEF Answer
  <2>5. CASE UNCHANGED <<sessions, rpcs, alive, call, moving>> /\ ~ Answer(rx[1])
    <3>1. \A a \in Actions : Covered(a)' => Covered(a)
      BY <2>5 DEF RpcsOf, Sent
    <3>2. \A a \in Actions : Covered(a) => ~ Consumes(a, sessions)
      <4>. SUFFICES ASSUME NEW a \in Actions, Covered(a), Consumes(a, sessions) PROVE FALSE
        OBVIOUS
      <4>1. a \in RpcsOf(sessions) /\ sessions # NoSession
        BY <2>1 DEF RpcsOf
      <4>2. sessions = rx[1].id /\ a = rx[1].action /\ rx[1].type = "Data" /\ Head(rx) = rx[1]
        BY SMT, <1>5, <2>1 DEF Consumes
      <4>3. HandleData(sessions, a, rx[1].result)
        BY <1>5, <4>2 DEF HandleAgentData
      <4>4. rpcs' = RemoveActionInFlight(sessions, a)
        BY <4>3 DEF HandleData
      <4>5. a \notin RpcsOf(sessions)'
        BY <2>5, <4>4 DEF RemoveActionInFlight, RpcsOf
      <4>. QED  BY <2>5, <4>1, <4>5 DEF RpcsOf
    <3>. QED  BY <1>1, <1>2, <2>1, <2>5, <3>1, <3>2
  <2>. QED  BY <1>5, <2>1, <2>2, <2>3, <2>4, <2>5, Handled
<1>6. ASSUME ~ HandleAgentData PROVE WorksInv'
  <2>1. ASSUME NEW a \in Actions, AwaitSession(a) PROVE WorksInv'
    <3>1. UNCHANGED <<sessions, rpcs, moving, alive>> /\ a \notin RpcsOf(sessions)
      BY <2>1 DEF AwaitSession, serviceVars, RpcsOf, ShapeInv, NotYet
    <3>2. \A b \in Actions : b # a => call'[b] = call[b]
      BY <2>1 DEF AwaitSession, ShapeInv, CallsInv
    <3>3. \A b \in Actions : Covered(b)' => Covered(b)
      BY <3>1, <3>2 DEF RpcsOf, Sent
    <3>. QED  BY <1>3, <1>6, <3>1, <3>3
  <2>2. ASSUME NEW a \in Actions, Insert(a) PROVE WorksInv'
    <3>1. UNCHANGED <<sessions, moving, alive>>
      BY <2>2 DEF Insert
    <3>2. \A b \in Actions : b # a => call'[b] = call[b]
      BY <2>2 DEF Insert, ShapeInv, CallsInv
    <3>3. call'[a].at = "inserted" /\ call'[a].id = call[a].id
      BY <2>2 DEF Insert, ShapeInv, CallsInv, Requests
    <3>4. \A b \in Actions : b \in RpcsOf(sessions)' => b \in RpcsOf(sessions) \/ (b = a /\ call[a].id = sessions)
      BY <2>2, <3>1 DEF Insert, InsertActionInFlight, RpcsOf
    <3>5. a \notin RpcsOf(sessions) /\ a \notin moving.xs
      BY <2>2 DEF Insert, ShapeInv, NotYet, RpcsOf
    <3>6. \A b \in Actions : Covered(b)' => Covered(b)
      BY <3>1, <3>2, <3>3, <3>4, <3>5 DEF Sent
    <3>. QED  BY <1>3, <1>6, <3>1, <3>6
  <2>3. ASSUME NEW a \in Actions, Send(a) PROVE WorksInv'
    <3>1. UNCHANGED <<sessions, rpcs, moving, alive>>
      BY <2>3 DEF Send, serviceVars
    <3>2. (\A b \in Actions : b # a => call'[b] = call[b]) /\ call'[a].id = call[a].id
      BY <2>3 DEF Send, ShapeInv, CallsInv, Requests
    <3>3. call[a].id = sessions => InTheWorks(a, sessions)'
      <4>1. /\ ManagerMessage("ActionStart", call[a].id, a) \in Orders
            /\ down \in Seq(Orders \cup Responses)
        BY DEF ShapeInv, CallsInv, LinkInv, Requests, ManagerMessage, Orders
      <4>2. /\ down' \in Seq(Orders \cup Responses) /\ Len(down) + 1 \in 1..Len(down')
            /\ down'[Len(down) + 1] = ManagerMessage("ActionStart", call[a].id, a)
        BY SMT, <2>3, <4>1, Appended DEF Send
      <4>3. \E i \in DOMAIN down' : down'[i] = ManagerMessage("ActionStart", call[a].id, a)
        BY SMT, <4>2
      <4>. QED  BY <3>1, <4>3 DEF InTheWorks, ManagerMessage
    <3>4. \A b \in Actions : Covered(b)' => Covered(b) \/ (b = a /\ call[a].id = sessions)
      BY <3>1, <3>2 DEF RpcsOf, Sent
    <3>. QED  BY <1>3, <1>6, <3>1, <3>3, <3>4 DEF Held
  <2>4. ASSUME NEW a \in Actions, SendFails(a) \/ Disconnect(a) PROVE WorksInv'
    <3>1. UNCHANGED <<sessions, moving, alive>>
      BY <2>4 DEF SendFails, Disconnect, serviceVars
    <3>2. (\A b \in Actions : b # a => call'[b] = call[b]) /\ call'[a].id = call[a].id /\ call'[a].at = "done"
      BY SMT, <2>4 DEF SendFails, Disconnect, Request, ShapeInv, CallsInv
    <3>3. \A b \in Actions : b \in RpcsOf(sessions)' => b \in RpcsOf(sessions)
      BY <2>4, <3>1 DEF SendFails, Disconnect, RemoveActionInFlight, RpcsOf, serviceVars
    <3>4. \A b \in Actions : Covered(b)' => Covered(b)
      BY <3>1, <3>2, <3>3 DEF Sent
    <3>. QED  BY <1>3, <1>6, <3>1, <3>4
  <2>5. ASSUME NEW a \in Actions, CancelRemove(a) PROVE WorksInv'
    <3>1. UNCHANGED <<sessions, moving, alive>>
      BY <2>5 DEF CancelRemove
    <3>2. \A b \in Actions : call'[b] = call[b] \/ (call'[b].id = call[b].id /\ call'[b].at = "done")
      BY SMT, <2>5 DEF CancelRemove, Complete, Request
    <3>3. \A b \in Actions : b \in RpcsOf(sessions)' => b \in RpcsOf(sessions)
      BY <2>5, <3>1 DEF CancelRemove, RemoveActionInFlight, RpcsOf
    <3>4. \A b \in Actions : Covered(b)' => Covered(b)
      BY <3>1, <3>2, <3>3 DEF Sent
    <3>. QED  BY <1>3, <1>6, <3>1, <3>4
  <2>6. ASSUME TakeRpcs PROVE WorksInv'
    <3>1. UNCHANGED <<sessions, call, alive>> /\ moving.at = "take"
      BY <2>6 DEF TakeRpcs, callVars
    <3>2. \A a \in Actions : a \in RpcsOf(sessions)' => a \in RpcsOf(sessions)
      BY <2>6, <3>1 DEF TakeRpcs, Without, RpcsOf
    <3>3. \A a \in moving'.xs : [action |-> a, id |-> sessions] \in resends'
      BY <2>6 DEF TakeRpcs, NotMoving, ShapeInv, MapsInv
    <3>4. \A a \in moving'.xs : InTheWorks(a, sessions)'
      BY <3>1, <3>3 DEF InTheWorks
    <3>5. \A a \in Actions : Covered(a)' => Covered(a) \/ Held(a)'
      BY <3>1, <3>2, <3>4 DEF Sent, Held
    <3>. QED  BY <1>3, <1>6, <3>1, <3>5
  <2>7. ASSUME PutRpcs PROVE WorksInv'
    <3>1. UNCHANGED <<sessions, alive>> /\ moving'.xs = {}
      BY <2>7 DEF PutRpcs, NotMoving
    <3>2. RpcsOf(sessions)' = moving.xs
      BY <2>7 DEF PutRpcs, RpcsOf
    <3>3. \A a \in Actions : Covered(a)' => Covered(a)
      BY <3>1, <3>2
    <3>. QED  BY <1>3, <1>6, <3>1, <3>3
  <2>8. ASSUME NEW a \in Actions, CancelAwait(a) \/ CancelSend(a) PROVE WorksInv'
    BY <1>4, <1>6, <2>8 DEF CancelAwait, CancelSend, serviceVars
  <2>9. ASSUME Open \/ Respond \/ Lose \/ Forget \/ AgentDies \/ OnMessage PROVE WorksInv'
    BY <1>4, <1>6, <2>9 DEF Open, Respond, Lose, Forget, AgentDies, OnMessage, serviceVars, callVars
  <2>10. ASSUME NEW x, Resend(x) \/ Finish(x) \/ Post(x) PROVE WorksInv'
    BY <1>4, <1>6, <2>10 DEF Resend, Finish, Post, serviceVars, callVars
  <2>11. ASSUME UNCHANGED vars PROVE WorksInv'
    BY <1>4, <1>6, <2>11 DEF vars
  <2>. QED  BY <1>6, <2>1, <2>2, <2>3, <2>4, <2>5, <2>6, <2>7, <2>8, <2>9, <2>10, <2>11 DEF Next
<1>. QED  BY <1>5, <1>6

-----------------------------------------------------------------------------
(* The invariant holds, and what follows from it.                          *)

(* The invariant holds at first.                                           *)
LEMMA RunnerInit == Init => RunnerInv
<1>. SUFFICES ASSUME Init PROVE RunnerInv
  OBVIOUS
<1>1. ShapeInv
  BY ShapeInit
<1>2. WaitingIsReachable /\ DroppedOnlyInMove /\ AnswerIsEarned
  BY DEF Init, WaitingIsReachable, DroppedOnlyInMove, AnswerIsEarned, NewRequest, Request
<1>3. FreshInv /\ MoveInv /\ EarnedInv /\ AgentInv
  <2>1. 1..Len(rx) = {} /\ 1..Len(down) = {}
    BY SMT DEF Init
  <2>2. FreshInv /\ MoveInv
    BY <2>1 DEF Init, FreshInv, MoveInv, NotMoving
  <2>3. EarnedInv
    BY <2>1 DEF Init, EarnedInv
  <2>4. AgentInv
    BY <2>1 DEF Init, AgentInv
  <2>. QED  BY <2>2, <2>3, <2>4
<1>4. WorksInv
  BY SMT DEF Init, WorksInv, RpcsOf, NotMoving
<1>. QED  BY <1>1, <1>2, <1>3, <1>4 DEF RunnerInv

(* The invariant is inductive.                                             *)
LEMMA RunnerStep == RunnerInv /\ [Next]_vars => RunnerInv'
<1>. SUFFICES ASSUME RunnerInv, [Next]_vars PROVE RunnerInv'
  OBVIOUS
<1>1. ShapeInv' /\ FreshInv'
  BY MapsStep, CallsStep, LinkStep, NotYetStep, FreshStep DEF RunnerInv, ShapeInv
<1>2. WaitingIsReachable' /\ MoveInv' /\ DroppedOnlyInMove'
  BY ReachStep, MoveStep, DropStep DEF RunnerInv
<1>3. EarnedInv' /\ AnswerIsEarned' /\ AgentInv' /\ WorksInv'
  BY EarnedStep, AnswerStep, AgentStep, WorksStep DEF RunnerInv
<1>. QED  BY <1>1, <1>2, <1>3 DEF RunnerInv

(* The invariant holds always.                                             *)
LEMMA RunnerInvariant == Spec => []RunnerInv
  BY RunnerInit, RunnerStep, PTL DEF Spec

(***************************************************************************)
(* Every variable of the runner keeps its type, and a request ends with an *)
(* outcome.                                                                *)
(***************************************************************************)
THEOREM RunnerTypes == Spec => []TypeOK
<1>1. RunnerInv => TypeOK
  BY SMT DEF RunnerInv, ShapeInv, MapsInv, CallsInv, Requests, TypeOK
<1>. QED  BY <1>1, RunnerInvariant, PTL

(***************************************************************************)
(* However requests, cancellations, new sessions and lost connections      *)
(* interleave, a request that waits is under the session held or on its    *)
(* way there, unless its session changed while it registered.              *)
(***************************************************************************)
THEOREM WaitingStaysReachable == Spec => []WaitingIsReachable
<1>1. RunnerInv => WaitingIsReachable
  BY DEF RunnerInv
<1>. QED  BY <1>1, RunnerInvariant, PTL

(***************************************************************************)
(* The service drops a request unanswered only if it overtook the move of  *)
(* its session's actions, and its consumer survives while no client leaves.*)
(***************************************************************************)
THEOREM DropsAreExplained == Spec => []DroppedOnlyInMove
<1>1. RunnerInv => DroppedOnlyInMove
  BY DEF RunnerInv
<1>. QED  BY <1>1, RunnerInvariant, PTL

(***************************************************************************)
(* No sequence of resends, cancellations and teardowns makes the service   *)
(* answer with a value that no run produced, or with null for an action    *)
(* that nobody cut short.                                                  *)
(***************************************************************************)
THEOREM AnswersAreEarned == Spec => []AnswerIsEarned
<1>1. RunnerInv => AnswerIsEarned
  BY DEF RunnerInv
<1>. QED  BY <1>1, RunnerInvariant, PTL

(***************************************************************************)
(* Under a session on which service, comms process and agent agree, every  *)
(* request in flight is a message, a run or a result somewhere, unless it  *)
(* was sent too early or a POST or a resend of it failed.                  *)
(***************************************************************************)
THEOREM RequestsAreWorkedOn == Spec => []RequestIsInTheWorks
<1>1. RunnerInv => RequestIsInTheWorks
  <2>. SUFFICES ASSUME RunnerInv, NEW a \in Actions,
                       call[a].at = "waiting", a \notin (early \cup lost), alive,
                       active = sessions, Registered(a) = {sessions}
                PROVE  InTheWorks(a, sessions)
    BY DEF RequestIsInTheWorks
  <2>1. a \in RpcsOf(sessions) /\ Sent(a)
    BY DEF Registered, RpcsOf, Sent
  <2>. QED  BY <2>1 DEF RunnerInv, WorksInv, Dead
<1>. QED  BY <1>1, RunnerInvariant, PTL
=============================================================================
