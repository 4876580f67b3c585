-------------------------- MODULE AgentLinkProofs --------------------------
(***************************************************************************)
(* AgentLink implements SessionStream, for any plugins and any number of   *)
(* faults, requests and messages.                                          *)
(*                                                                         *)
(* The one step that does not map by itself is data_handler: SessionStream *)
(* sends data of a session only once its start is on the stream, whereas   *)
(* the code compares session ids.  So the invariant follows the ids: what  *)
(* the agent knows of a session, or is about to be told, exists only after *)
(* the session was announced.                                              *)
(*                                                                         *)
(* Two invariants of the agent follow from the same facts: at most one     *)
(* call of a plugin is under way (CallInv pairs every call with the        *)
(* Active session it is made for), and the agent enters a session only     *)
(* after the manager announced it (OrderInv).                              *)
(*                                                                         *)
(* The types need an invariant of their own (TypeInv): a request being     *)
(* handled is recognised by its task's number, so the tasks' numbers must  *)
(* differ, which rests on there always being a number left for a new task. *)
(***************************************************************************)
EXTENDS AgentLink, FiniteSetTheorems, TLAPS

USE ZenonT(20)

(* A message to the agent that opens a session names an announced one.     *)
MessagesOf(ids) ==
  [type : {"SessionCreateResponse"}, plugin : Plugins, id : ids]
    \cup [type : {"Data", "SessionTerminate", "SessionTerminateAll"}, plugin : Plugins, id : Nat]

(* A task that may post data has the id of an announced session.           *)
Kinds == {"create", "start", "poll", "message"}
IsTask(t, ids) ==
  /\ {"plugin", "kind", "id", "at", "linked"} \subseteq DOMAIN t
  /\ t.plugin \in Plugins /\ t.kind \in Kinds
  /\ t.kind \in {"start", "poll"} => t.id \in ids
  /\ t.kind = "message" /\ t.at = "post" => t.id \in ids

IsLate(m, ids) == m.plugin \in Plugins /\ m.kind \in Kinds /\ (m.kind # "create" => m.id \in ids)

(* The agent.                                                              *)
StatesInv ==
  /\ DOMAIN state = Plugins
  /\ \A p \in Plugins : {"kind", "id", "in_flight"} \subseteq DOMAIN state[p]
  /\ \A p \in Plugins : state[p].kind = "Active" => state[p].id \in announced
TasksInv == \A t \in tasks : IsTask(t, announced)
AgentInv == StatesInv /\ TasksInv /\ inbox \in Seq(MessagesOf(announced))

(* The comms process.                                                      *)
IsHost(h, ids) ==
  /\ {"known", "start_time", "stop", "sessions", "queue"} \subseteq DOMAIN h
  /\ h.sessions = [p \in Plugins |-> h.sessions[p]]
  /\ ~h.known => h.sessions = [p \in Plugins |-> NoSession]
  /\ h.queue \in Seq(MessagesOf(ids))
CreatingInv ==
  /\ creating = [at |-> creating.at, plugin |-> creating.plugin, old |-> creating.old,
                 id |-> creating.id, n |-> creating.n]
  /\ creating.plugin \in Plugins /\ creating.id \in Nat /\ creating.old \in Nat
  /\ creating.at = "response" => creating.id \in announced
LateInv == \A m \in late : IsLate(m, announced)
CommsInv == IsHost(host, announced) /\ CreatingInv /\ LateInv

PluginMessages == [type : {"SessionCreate", "SessionTerminate", "Data"}, id : Nat]

(* The queues and the services.                                            *)
QueueInv ==
  /\ agent_tx \in Seq(MessagesOf(announced))
  /\ rx = [p \in Plugins |-> rx[p]]
  /\ \A p \in Plugins : rx[p] \in Seq(PluginMessages)
  /\ held \in [Plugins -> Nat]
  /\ issued \in Nat /\ announced \subseteq Nat
  /\ \A p \in Plugins : host.sessions[p] \in Nat

LinkInv == AgentInv /\ CommsInv /\ QueueInv

-----------------------------------------------------------------------------
(* There is a plugin to stand in for none.                                 *)
LEMMA NotCreatingType ==
  /\ NotCreating.plugin \in Plugins /\ NotCreating.at = "none"
  /\ NotCreating.id = 0 /\ NotCreating.old = 0
  /\ NotCreating = [at |-> NotCreating.at, plugin |-> NotCreating.plugin, old |-> NotCreating.old,
                    id |-> NotCreating.id, n |-> NotCreating.n]
BY SMT, PluginsAssumption DEF NotCreating, NoSession

(* Nothing is known at the start.                                          *)
LEMMA InitLinkInv == Init => LinkInv
<1> SUFFICES ASSUME Init PROVE LinkInv
  OBVIOUS
<1>1. AgentInv
  BY SMT DEF Init, AgentInv, StatesInv, TasksInv, Empty, State, MessagesOf
<1>2. CommsInv
  BY SMT, NotCreatingType DEF Init, CommsInv, IsHost, CreatingInv, LateInv, NoHost, MessagesOf, NoSession
<1>3. QueueInv
  BY SMT DEF Init, QueueInv, NoHost, NoSession, MessagesOf, PluginMessages
<1> QED
  BY <1>1, <1>2, <1>3 DEF LinkInv

(* A queue of messages with one more is a queue of messages.               *)
LEMMA AppendType == ASSUME NEW S, NEW q \in Seq(S), NEW x \in S PROVE Append(q, x) \in Seq(S)
BY SMT

(* So are no messages, and a single one.                                   *)
LEMMA ShortSeqs == ASSUME NEW S PROVE <<>> \in Seq(S) /\ \A x \in S : <<x>> \in Seq(S)
BY SMT

(* More announced sessions allow more messages and tasks.                  *)
LEMMA Monotone ==
  ASSUME NEW A, NEW B, A \subseteq B
  PROVE  /\ \A q \in Seq(MessagesOf(A)) : q \in Seq(MessagesOf(B))
         /\ \A t : IsTask(t, A) => IsTask(t, B)
         /\ \A m : IsLate(m, A) => IsLate(m, B)
<1>1. MessagesOf(A) \subseteq MessagesOf(B)
  BY DEF MessagesOf
<1>2. \A q \in Seq(MessagesOf(A)) : q \in Seq(MessagesOf(B))
  BY SMT, <1>1
<1> QED
  BY <1>2 DEF IsTask, IsLate

(* A new task has the fields of one.                                       *)
LEMMA TaskIsTask ==
  ASSUME NEW p \in Plugins, NEW k \in Kinds, NEW s, NEW a,
         k \in {"start", "poll"} => s \in announced,
         k = "message" => a # "post"
  PROVE  IsTask(Task(p, k, s, a), announced)
BY DEF Task, IsTask

(* Unlinking and moving tasks keeps them tasks, unless a message that has  *)
(* not found its session were to be posted.                                *)
LEMMA ChangedTasks ==
  ASSUME NEW ts, \A t \in ts : IsTask(t, announced)
  PROVE  /\ \A ps : \A t \in Unlink(ts, ps) : IsTask(t, announced)
         /\ \A a : \A t \in ts : (t.kind = "message" => a # "post")
                                 => IsTask([t EXCEPT !.at = a], announced)
<1>1. ASSUME NEW ps, NEW x \in Unlink(ts, ps) PROVE IsTask(x, announced)
  <2>1. PICK t \in ts : x = IF t.plugin \in ps THEN [t EXCEPT !.linked = FALSE] ELSE t
    BY <1>1 DEF Unlink
  <2>2. IsTask(t, announced)
    OBVIOUS
  <2> QED
    BY <2>1, <2>2 DEF IsTask
<1>2. ASSUME NEW t \in ts, NEW a, t.kind = "message" => a # "post"
      PROVE  IsTask([t EXCEPT !.at = a], announced)
  BY <1>2 DEF IsTask
<1> QED
  BY <1>1, <1>2

-----------------------------------------------------------------------------
(* How a request ends, well or in an error, invents no session.            *)
LEMMA ResetActiveInv ==
  ASSUME StatesInv, NEW p \in Plugins, NEW ts, \A t \in ts : IsTask(t, announced),
         ResetActive(p, ts), UNCHANGED announced
  PROVE  StatesInv' /\ TasksInv'
<1>1. StatesInv'
  BY DEF ResetActive, StatesInv
<1>2. tasks' = ts \/ tasks' = Unlink(ts, {p})
  BY DEF ResetActive
<1>3. TasksInv'
  BY <1>2, ChangedTasks DEF TasksInv
<1> QED
  BY <1>1, <1>3

(* The states and tasks after all plugins of ps lost their sessions.       *)
LEMMA EmptiedInv ==
  ASSUME StatesInv, NEW ps \in SUBSET Plugins, NEW ts, \A t \in ts : IsTask(t, announced),
         DOMAIN state' = Plugins,
         \A p \in Plugins : state'[p] = Empty \/ state'[p] = state[p],
         tasks' = Unlink(ts, ps) \/ tasks' = ts, UNCHANGED announced
  PROVE  StatesInv' /\ TasksInv'
<1>1. {"kind", "id", "in_flight"} \subseteq DOMAIN Empty /\ Empty.kind # "Active"
  BY DEF Empty, State
<1>2. StatesInv'
  BY <1>1 DEF StatesInv
<1>3. TasksInv'
  BY ChangedTasks DEF TasksInv
<1> QED
  BY <1>2, <1>3

(* A task settles.                                                         *)
LEMMA SettleInv ==
  ASSUME StatesInv, TasksInv, NEW t \in tasks, SettleOk(t) \/ SettleErr(t), UNCHANGED announced
  PROVE  StatesInv' /\ TasksInv'
<1>1. IsTask(t, announced) /\ \A x \in tasks \ {t} : IsTask(x, announced)
  BY DEF TasksInv
<1>2. t.plugin \in Plugins
  BY <1>1 DEF IsTask
<1>3. CASE SettleOk(t)
  <2>1. CASE t.kind = "poll"
    BY <1>1, <1>2, <1>3, <2>1, ResetActiveInv DEF SettleOk
  <2>2. CASE t.kind # "poll"
    BY <1>1, <1>3, <2>2 DEF SettleOk, StatesInv, TasksInv
  <2> QED
    BY <2>1, <2>2
<1>4. CASE SettleErr(t)
  <2>1. CASE t.kind = "create"
    <3>1. /\ state' = [state EXCEPT ![t.plugin] = Empty]
          /\ tasks' = Unlink(tasks \ {t}, {t.plugin})
      BY <1>4, <2>1 DEF SettleErr
    <3>2. /\ DOMAIN state' = Plugins
          /\ \A p \in Plugins : state'[p] = Empty \/ state'[p] = state[p]
      BY <3>1 DEF StatesInv
    <3> QED
      BY <1>1, <1>2, <3>1, <3>2, EmptiedInv
  <2>2. CASE t.kind # "create"
    <3>1. state' = state /\ (tasks' = tasks \ {t} \/ tasks' = MoveTo(t, "term"))
      BY <1>4, <2>2 DEF SettleErr
    <3>2. \A x \in MoveTo(t, "term") : IsTask(x, announced)
      BY SMT, <1>1, ChangedTasks DEF MoveTo, TasksInv
    <3> QED
      BY <1>1, <3>1, <3>2 DEF StatesInv, TasksInv
  <2> QED
    BY <2>1, <2>2
<1> QED
  BY <1>3, <1>4

(* The request being handled ends in an error.                             *)
LEMMA CreatingFailsInv ==
  ASSUME StatesInv, TasksInv, CreatingFails, UNCHANGED announced
  PROVE  StatesInv' /\ TasksInv'
<1>1. CASE \E t \in tasks : t.n = creating.n
  <2> DEFINE x == CHOOSE t \in tasks : t.n = creating.n
  <2>1. x \in tasks
    BY <1>1
  <2>2. SettleErr(x)
    BY <1>1 DEF CreatingFails
  <2> HIDE DEF x
  <2> QED
    BY <2>1, <2>2, SettleInv
<1>2. CASE ~\E t \in tasks : t.n = creating.n
  BY <1>2 DEF CreatingFails, StatesInv, TasksInv
<1> QED
  BY <1>1, <1>2

-----------------------------------------------------------------------------
(* The steps of the agent's poller.                                        *)
LEMMA PollerInv ==
  ASSUME LinkInv, NEW p \in Plugins, CreateSession(p) \/ StartPoll(p) \/ Deadline(p)
  PROVE  AgentInv'
<1>1. StatesInv /\ TasksInv /\ UNCHANGED <<announced, inbox>>
  BY DEF LinkInv, AgentInv, CreateSession, StartPoll, Deadline, historyVars
<1>2. CASE CreateSession(p)
  <2>1. IsTask(Task(p, "create", NoSession, "post"), announced)
    BY TaskIsTask DEF Kinds
  <2>2. TasksInv'
    BY <1>1, <1>2, <2>1 DEF CreateSession, TasksInv
  <2>3. StatesInv'
    BY <1>1, <1>2 DEF CreateSession, StatesInv, Pending, State
  <2> QED
    BY <1>1, <2>2, <2>3 DEF AgentInv, LinkInv
<1>3. CASE StartPoll(p)
  <2>1. IsTask(Task(p, "poll", state[p].id, "run"), announced)
    BY <1>1, <1>3, TaskIsTask DEF Kinds, StartPoll, StatesInv
  <2>2. TasksInv'
    BY <1>1, <1>3, <2>1 DEF StartPoll, TasksInv
  <2>3. StatesInv'
    BY <1>1, <1>3 DEF StartPoll, StatesInv
  <2> QED
    BY <1>1, <2>2, <2>3 DEF AgentInv, LinkInv
<1>4. CASE Deadline(p)
  BY <1>1, <1>4, ResetActiveInv DEF Deadline, AgentInv, LinkInv, TasksInv
<1> QED
  BY <1>2, <1>3, <1>4

(* The steps of the agent's tasks.                                         *)
LEMMA AgentTaskInv ==
  ASSUME LinkInv, NEW t \in tasks,
         TerminateSession(t) \/ Cancelled(t) \/ RunEnds(t) \/ RunFails(t) \/ Message(t) \/ OkReply(t)
  PROVE  AgentInv'
<1>1. /\ StatesInv /\ TasksInv /\ UNCHANGED <<announced, inbox>>
      /\ IsTask(t, announced) /\ t.plugin \in Plugins
  BY DEF LinkInv, AgentInv, TasksInv, IsTask, TerminateSession, Cancelled, RunEnds, RunFails, Message,
         OkReply, historyVars
<1>2. CASE TerminateSession(t)
  <2>1. /\ state' = [state EXCEPT ![t.plugin] = Empty]
        /\ tasks' = Unlink(tasks \ {t}, {t.plugin})
    BY <1>2 DEF TerminateSession
  <2>2. /\ DOMAIN state' = Plugins
        /\ \A p \in Plugins : state'[p] = Empty \/ state'[p] = state[p]
    BY <1>1, <2>1 DEF StatesInv
  <2>3. \A x \in tasks \ {t} : IsTask(x, announced)
    BY <1>1 DEF TasksInv
  <2>4. StatesInv' /\ TasksInv'
    BY <1>1, <2>1, <2>2, <2>3, EmptiedInv
  <2> QED
    BY <1>1, <2>4 DEF AgentInv, LinkInv
<1>3. CASE Cancelled(t) \/ RunFails(t) \/ OkReply(t)
  <2>1. StatesInv' /\ TasksInv'
    BY <1>1, <1>3, SettleInv DEF Cancelled, RunFails, OkReply
  <2> QED
    BY <1>1, <2>1 DEF AgentInv, LinkInv
<1>4. CASE RunEnds(t)
  <2>1. CASE SettleOk(t)
    <3>1. StatesInv' /\ TasksInv'
      BY <1>1, <2>1, SettleInv
    <3> QED
      BY <1>1, <3>1 DEF AgentInv, LinkInv
  <2>2. CASE tasks' = MoveTo(t, "post") /\ state' = state
    <3>1. t.kind # "message"
      BY <1>4 DEF RunEnds
    <3>2. \A x \in MoveTo(t, "post") : IsTask(x, announced)
      BY SMTT(30), <1>1, <3>1, ChangedTasks DEF MoveTo, TasksInv
    <3> QED
      BY <1>1, <2>2, <3>2 DEF AgentInv, LinkInv, StatesInv, TasksInv
  <2> QED
    BY <1>4, <2>1, <2>2 DEF RunEnds
<1>5. CASE Message(t)
  <2> DEFINE x == [t EXCEPT !.at = "post", !.id = state[t.plugin].id]
  <2>1. state' = state /\ (tasks' = tasks \ {t} \/ (/\ state[t.plugin].kind = "Active"
                                                   /\ tasks' = (tasks \ {t}) \cup {x}))
    BY <1>5 DEF Message
  <2>2. ASSUME state[t.plugin].kind = "Active" PROVE IsTask(x, announced)
    <3>1. state[t.plugin].id \in announced
      BY <1>1, <2>2 DEF StatesInv
    <3> QED
      BY <1>1, <3>1 DEF IsTask
  <2>3. TasksInv'
    BY <1>1, <2>1, <2>2 DEF TasksInv
  <2> QED
    BY <1>1, <2>1, <2>3 DEF AgentInv, LinkInv, StatesInv
<1> QED
  BY <1>2, <1>3, <1>4, <1>5

(* The step of the agent's reader.                                         *)
LEMMA ReaderInv == ASSUME LinkInv, HandleDelivery PROVE AgentInv'
<1> DEFINE m == Head(inbox)
<1>1. /\ StatesInv /\ TasksInv /\ UNCHANGED announced
      /\ inbox # <<>> /\ inbox' = Tail(inbox) /\ inbox \in Seq(MessagesOf(announced))
  BY DEF LinkInv, AgentInv, HandleDelivery, historyVars
<1>2. inbox' \in Seq(MessagesOf(announced)) /\ m \in MessagesOf(announced)
  BY SMT, <1>1
<1>3. /\ m.plugin \in Plugins
      /\ m.type = "SessionCreateResponse" => m.id \in announced
      /\ m.type \in {"SessionCreateResponse", "Data", "SessionTerminate", "SessionTerminateAll"}
  BY <1>2 DEF MessagesOf
<1> HIDE DEF m
<1>4. CASE m.type = "SessionCreateResponse"
  <2>1. /\ state' = [state EXCEPT ![m.plugin] = Active(m.id)]
        /\ tasks' = Unlink(tasks, {m.plugin}) \cup {Task(m.plugin, "start", m.id, "run")}
    BY <1>4 DEF HandleDelivery, m
  <2>2. IsTask(Task(m.plugin, "start", m.id, "run"), announced)
    BY <1>3, <1>4, TaskIsTask DEF Kinds
  <2>3. TasksInv'
    BY <1>1, <2>1, <2>2, ChangedTasks DEF TasksInv
  <2>4. StatesInv'
    BY <1>1, <1>3, <1>4, <2>1 DEF StatesInv, Active, State
  <2> QED
    BY <1>1, <1>2, <2>3, <2>4 DEF AgentInv
<1>5. CASE m.type = "Data"
  <2>1. state' = state /\ tasks' = tasks \cup {Task(m.plugin, "message", NoSession, "new")}
    BY <1>5 DEF HandleDelivery, m
  <2>2. IsTask(Task(m.plugin, "message", NoSession, "new"), announced)
    BY <1>3, TaskIsTask DEF Kinds
  <2> QED
    BY <1>1, <1>2, <2>1, <2>2 DEF AgentInv, StatesInv, TasksInv
<1>6. CASE m.type \in {"SessionTerminate", "SessionTerminateAll"}
  <2>1. \/ /\ state' = [state EXCEPT ![m.plugin] = IF @.id = m.id THEN Empty ELSE @]
           /\ tasks' = IF state[m.plugin].id = m.id THEN Unlink(tasks, {m.plugin}) ELSE tasks
        \/ state' = [p \in Plugins |-> Empty] /\ tasks' = Unlink(tasks, Plugins)
    BY <1>6 DEF HandleDelivery, m
  <2>2. /\ DOMAIN state' = Plugins
        /\ \A p \in Plugins : state'[p] = Empty \/ state'[p] = state[p]
    BY <1>1, <2>1 DEF StatesInv
  <2>3. \E ps \in SUBSET Plugins : tasks' = Unlink(tasks, ps) \/ tasks' = tasks
    BY <1>3, <2>1
  <2>4. StatesInv' /\ TasksInv'
    BY <1>1, <2>2, <2>3, EmptiedInv DEF TasksInv
  <2> QED
    BY <1>1, <1>2, <2>4 DEF AgentInv
<1> QED
  BY <1>3, <1>4, <1>5, <1>6

-----------------------------------------------------------------------------
(* What a step leaves alone stays as it was.                               *)
LEMMA Untouched ==
  ASSUME LinkInv, UNCHANGED announced
  PROVE  /\ UNCHANGED <<state, tasks, inbox>> => AgentInv'
         /\ UNCHANGED host => IsHost(host, announced)'
         /\ UNCHANGED creating => CreatingInv'
         /\ UNCHANGED late => LateInv'
         /\ UNCHANGED <<agent_tx, rx, held, issued>> /\ host'.sessions = host.sessions => QueueInv'
BY DEF LinkInv, AgentInv, StatesInv, TasksInv, CommsInv, CreatingInv, LateInv, QueueInv

(* The comms process finds its record of the host, or makes one.           *)
LEMMA GetOrInsertHost ==
  ASSUME LinkInv, NEW st
  PROVE  IsHost(GetOrInsert(st), announced) /\ GetOrInsert(st).sessions = host.sessions
<1>1. CASE host.known
  BY <1>1 DEF GetOrInsert, LinkInv, CommsInv
<1>2. CASE ~host.known
  BY SMT, <1>2 DEF GetOrInsert, LinkInv, CommsInv, IsHost, NoHost, MessagesOf
<1> QED
  BY <1>1, <1>2

(* data_handler forwards a message or asks for the session's end.          *)
LEMMA DataHandlerInv ==
  ASSUME LinkInv, NEW p \in Plugins, NEW s \in announced, NEW st, DataHandler(p, s, st),
         UNCHANGED <<held, announced>>
  PROVE  /\ IsHost(host, announced)' /\ host'.sessions = host.sessions
         /\ CreatingInv' /\ QueueInv'
<1>1. /\ host' = GetOrInsert(st) /\ UNCHANGED <<creating, issued>>
      /\ \/ /\ rx' = [rx EXCEPT ![p] = Append(@, PluginMessage("Data", s))]
            /\ agent_tx' = agent_tx
         \/ /\ agent_tx' = Append(agent_tx, ManagerMessage("SessionTerminate", p, s))
            /\ rx' = rx
  BY DEF DataHandler
<1>2. IsHost(host, announced)' /\ host'.sessions = host.sessions
  BY <1>1, GetOrInsertHost
<1>3. CreatingInv'
  BY <1>1, Untouched
<1>4. s \in Nat /\ QueueInv
  BY DEF LinkInv, QueueInv
<1>5. agent_tx' \in Seq(MessagesOf(announced))
  <2>1. ManagerMessage("SessionTerminate", p, s) \in MessagesOf(announced)
    BY <1>4 DEF ManagerMessage, MessagesOf
  <2>2. Append(agent_tx, ManagerMessage("SessionTerminate", p, s)) \in Seq(MessagesOf(announced))
    BY <1>4, <2>1, AppendType DEF QueueInv
  <2> QED
    BY <1>1, <1>4, <2>2 DEF QueueInv
<1>6. rx' = [q \in Plugins |-> rx'[q]] /\ \A q \in Plugins : rx'[q] \in Seq(PluginMessages)
  <2>1. PluginMessage("Data", s) \in PluginMessages
    BY <1>4 DEF PluginMessage, PluginMessages
  <2>2. Append(rx[p], PluginMessage("Data", s)) \in Seq(PluginMessages)
    BY <1>4, <2>1, AppendType DEF QueueInv
  <2> QED
    BY <1>1, <1>4, <2>2 DEF QueueInv
<1> QED
  BY <1>1, <1>2, <1>3, <1>4, <1>5, <1>6 DEF QueueInv

(* session_create_req_handler issues a session and has not told anybody.   *)
LEMMA CreateHandlerInv ==
  ASSUME LinkInv, NEW p \in Plugins, NEW n, NEW st, SessionCreateReqHandler(p, n, st),
         UNCHANGED <<held, announced>>
  PROVE  /\ IsHost(host, announced)' /\ host'.sessions = [host.sessions EXCEPT ![p] = issued + 1]
         /\ CreatingInv' /\ QueueInv'
<1> DEFINE h == GetOrInsert(st)
<1>1. IsHost(h, announced) /\ h.sessions = host.sessions
  BY GetOrInsertHost
<1>2. /\ issued' = issued + 1
      /\ host' = [h EXCEPT !.sessions[p] = issued']
      /\ creating' = [at |-> IF h.sessions[p] = NoSession THEN "create" ELSE "terminate",
                      plugin |-> p, old |-> h.sessions[p], id |-> issued', n |-> n]
      /\ UNCHANGED <<agent_tx, rx>>
  BY DEF SessionCreateReqHandler
<1> HIDE DEF h
<1>3. QueueInv
  BY DEF LinkInv
<1>4. host'.sessions = [host.sessions EXCEPT ![p] = issued + 1]
  BY <1>1, <1>2 DEF IsHost
<1>5. h.known
  BY DEF h, GetOrInsert, NoHost
<1>6. IsHost(host, announced)'
  BY <1>1, <1>2, <1>4, <1>5 DEF IsHost
<1>7. CreatingInv'
  BY SMTT(30), <1>1, <1>2, <1>3 DEF CreatingInv, QueueInv
<1>8. \A q \in Plugins : host'.sessions[q] \in Nat
  BY SMTT(30), <1>1, <1>3, <1>4 DEF QueueInv, IsHost
<1>9. QueueInv'
  BY SMTT(30), <1>2, <1>3, <1>8 DEF QueueInv
<1> QED
  BY <1>4, <1>6, <1>7, <1>9

(* A POST, on time, late or failed.                                        *)
LEMMA PostInv ==
  ASSUME LinkInv, NEW t \in tasks, PostFails(t) \/ ReceiveCreate(t) \/ ReceiveData(t)
  PROVE  LinkInv'
<1>1. /\ StatesInv /\ TasksInv /\ CommsInv /\ UNCHANGED <<announced, inbox, held>>
      /\ IsTask(t, announced) /\ t.plugin \in Plugins /\ t.kind \in Kinds
  BY DEF LinkInv, AgentInv, TasksInv, IsTask, PostFails, ReceiveCreate, ReceiveData, queueVars
<1>2. t.at = "post" => IsLate(t, announced)
  BY <1>1 DEF IsTask, IsLate, Kinds
<1>3. CASE PostFails(t)
  <2>1. StatesInv' /\ TasksInv'
    BY <1>1, <1>3, SettleInv DEF PostFails
  <2>2. LateInv'
    <3>1. CASE UNCHANGED late
      BY <1>1, <3>1, Untouched
    <3>2. CASE late' # late
      <4>1. t.at = "post" /\ late' = {[plugin |-> t.plugin, kind |-> t.kind, id |-> t.id,
                                       start_time |-> start_time]}
        BY <1>3, <3>2 DEF PostFails
      <4> QED
        BY SMTT(30), <1>1, <1>2, <4>1 DEF LateInv, IsLate
    <3> QED
      BY <3>1, <3>2
  <2>3. UNCHANGED <<host, creating, agent_tx, rx, held, issued>>
    BY <1>3 DEF PostFails, queueVars
  <2> QED
    BY <1>1, <2>1, <2>2, <2>3, Untouched DEF LinkInv, AgentInv, CommsInv
<1>4. CASE ReceiveCreate(t)
  <2>1. /\ SessionCreateReqHandler(t.plugin, t.n, start_time)
        /\ t.kind = "create" /\ tasks' = MoveTo(t, "handling") /\ UNCHANGED <<state, late>>
    BY <1>4 DEF ReceiveCreate
  <2>2. IsHost(host, announced)' /\ CreatingInv' /\ QueueInv'
    BY <1>1, <2>1, CreateHandlerInv
  <2>3. TasksInv'
    BY SMTT(30), <1>1, <2>1, ChangedTasks DEF MoveTo, TasksInv
  <2>4. StatesInv' /\ LateInv'
    BY <1>1, <2>1, Untouched DEF StatesInv
  <2> QED
    BY <1>1, <2>2, <2>3, <2>4 DEF LinkInv, AgentInv, CommsInv
<1>5. CASE ReceiveData(t)
  <2>1. t.id \in announced
    BY <1>2, <1>5 DEF ReceiveData, IsLate
  <2>2. DataHandler(t.plugin, t.id, start_time) /\ (SettleOk(t) \/ SettleErr(t)) /\ UNCHANGED late
    BY <1>5 DEF ReceiveData
  <2>3. IsHost(host, announced)' /\ CreatingInv' /\ QueueInv'
    BY <1>1, <2>1, <2>2, DataHandlerInv
  <2>4. StatesInv' /\ TasksInv'
    BY <1>1, <2>2, SettleInv
  <2>5. LateInv'
    BY <1>1, <2>2, Untouched
  <2> QED
    BY <1>1, <2>3, <2>4, <2>5 DEF LinkInv, AgentInv, CommsInv
<1> QED
  BY <1>3, <1>4, <1>5

(* A request that arrives after the agent gave up on it.                   *)
LEMMA LateRequestInv == ASSUME LinkInv, NEW m \in late, ReceiveLate(m) PROVE LinkInv'
<1>1. /\ IsLate(m, announced) /\ m.plugin \in Plugins
      /\ UNCHANGED <<state, tasks, inbox, held, announced>> /\ late' = late \ {m}
  BY DEF LinkInv, CommsInv, LateInv, IsLate, ReceiveLate
<1>2. AgentInv' /\ LateInv'
  BY <1>1, Untouched DEF LinkInv, CommsInv, LateInv
<1>3. IsHost(host, announced)' /\ CreatingInv' /\ QueueInv'
  <2>1. CASE m.kind = "create"
    BY <1>1, <2>1, CreateHandlerInv DEF ReceiveLate
  <2>2. CASE m.kind # "create"
    BY <1>1, <2>2, DataHandlerInv DEF ReceiveLate, IsLate
  <2> QED
    BY <2>1, <2>2
<1> QED
  BY <1>2, <1>3 DEF LinkInv, CommsInv

(* The messages of an announcement; the agent is told last.                *)
LEMMA PublishInv ==
  ASSUME LinkInv, PublishTerminate \/ PublishCreate \/ PublishResponse \/ PublishFails
  PROVE  LinkInv'
<1>1. /\ AgentInv /\ CommsInv /\ QueueInv /\ CreatingInv
      /\ UNCHANGED <<host, late, inbox, held, issued>>
  BY DEF LinkInv, CommsInv, PublishTerminate, PublishCreate, PublishResponse, PublishFails, agentVars,
         historyVars, queueVars
<1>2. CASE PublishTerminate
  <2> DEFINE m == PluginMessage("SessionTerminate", creating.old)
  <2>1. /\ rx' = [rx EXCEPT ![creating.plugin] = Append(@, m)]
        /\ creating' = [creating EXCEPT !.at = "create"]
        /\ UNCHANGED <<state, tasks, agent_tx, announced>>
    BY <1>2 DEF PublishTerminate, agentVars, historyVars
  <2>2. CreatingInv'
    BY <1>1, <2>1 DEF CreatingInv
  <2>3. m \in PluginMessages
    BY <1>1 DEF CreatingInv, PluginMessage, PluginMessages
  <2> HIDE DEF m
  <2>4. Append(rx[creating.plugin], m) \in Seq(PluginMessages)
    BY <1>1, <2>3, AppendType DEF QueueInv, CreatingInv
  <2>5. QueueInv'
    BY <1>1, <2>1, <2>4 DEF QueueInv, CreatingInv
  <2> QED
    BY <1>1, <2>1, <2>2, <2>5, Untouched DEF LinkInv, CommsInv
<1>3. CASE PublishCreate
  <2> DEFINE m == PluginMessage("SessionCreate", creating.id)
  <2>1. /\ rx' = [rx EXCEPT ![creating.plugin] = Append(@, m)]
        /\ creating' = [creating EXCEPT !.at = "response"]
        /\ announced' = announced \cup {creating.id}
        /\ UNCHANGED <<state, tasks, agent_tx>>
    BY <1>3 DEF PublishCreate, agentVars
  <2>2. m \in PluginMessages
    BY <1>1 DEF CreatingInv, PluginMessage, PluginMessages
  <2> HIDE DEF m
  <2>3. Append(rx[creating.plugin], m) \in Seq(PluginMessages)
    BY <1>1, <2>2, AppendType DEF QueueInv, CreatingInv
  <2>4. CreatingInv'
    BY <1>1, <2>1 DEF CreatingInv
  <2>5. /\ \A q \in Seq(MessagesOf(announced)) : q \in Seq(MessagesOf(announced'))
        /\ \A t : IsTask(t, announced) => IsTask(t, announced')
        /\ \A x : IsLate(x, announced) => IsLate(x, announced')
    BY <2>1, Monotone
  <2>6. AgentInv'
    BY <1>1, <2>1, <2>5 DEF AgentInv, StatesInv, TasksInv
  <2>7. IsHost(host, announced)' /\ LateInv'
    BY <1>1, <2>5 DEF CommsInv, IsHost, LateInv
  <2>8. QueueInv'
    BY <1>1, <2>1, <2>3, <2>5 DEF QueueInv, CreatingInv
  <2> QED
    BY <2>4, <2>6, <2>7, <2>8 DEF LinkInv, CommsInv
<1>4. CASE PublishResponse
  <2> DEFINE m == ManagerMessage("SessionCreateResponse", creating.plugin, creating.id)
  <2>1. /\ creating.at = "response" /\ agent_tx' = Append(agent_tx, m)
        /\ creating' = NotCreating
        /\ tasks' = {IF t.n = creating.n THEN [t EXCEPT !.at = "acked"] ELSE t : t \in tasks}
        /\ UNCHANGED <<state, rx, announced>>
    BY <1>4 DEF PublishResponse, historyVars
  <2>2. m \in MessagesOf(announced)
    BY <1>1, <2>1 DEF CreatingInv, ManagerMessage, MessagesOf
  <2> HIDE DEF m
  <2>3. agent_tx' \in Seq(MessagesOf(announced))
    BY <1>1, <2>1, <2>2, AppendType DEF QueueInv
  <2>4. QueueInv'
    BY <1>1, <2>1, <2>3 DEF QueueInv
  <2>5. CreatingInv'
    BY SMT, <2>1, NotCreatingType DEF CreatingInv
  <2>6. TasksInv'
    <3>1. \A t \in tasks : IsTask(t, announced) /\ IsTask([t EXCEPT !.at = "acked"], announced)
      BY <1>1, ChangedTasks DEF TasksInv, AgentInv
    <3> QED
      BY <2>1, <3>1 DEF TasksInv
  <2> QED
    BY <1>1, <2>1, <2>4, <2>5, <2>6, Untouched DEF LinkInv, CommsInv, AgentInv, StatesInv
<1>5. CASE PublishFails
  <2>1. CreatingFails /\ creating' = NotCreating /\ UNCHANGED <<agent_tx, rx, announced>>
    BY <1>5 DEF PublishFails, queueVars
  <2>2. StatesInv' /\ TasksInv'
    BY <1>1, <2>1, CreatingFailsInv DEF AgentInv
  <2>3. CreatingInv'
    BY SMT, <2>1, NotCreatingType DEF CreatingInv
  <2> QED
    BY <1>1, <2>1, <2>2, <2>3, Untouched DEF LinkInv, CommsInv, AgentInv
<1> QED
  BY <1>2, <1>3, <1>4, <1>5

-----------------------------------------------------------------------------
(* A host record whose queue was kept, emptied or added to.                *)
LEMMA HostChange ==
  ASSUME LinkInv, NEW h, IsHost(h, announced), h.sessions = host.sessions,
         DOMAIN host' = DOMAIN h, host'.known = h.known, host'.sessions = h.sessions,
         host'.queue \in Seq(MessagesOf(announced)), UNCHANGED announced
  PROVE  IsHost(host, announced)' /\ host'.sessions = host.sessions
BY DEF IsHost

(* The reader's GET, answered, timed out or failed.                        *)
LEMMA GetInv ==
  ASSUME LinkInv, GetBegin \/ GetDrain \/ GetTimeout
  PROVE  LinkInv' /\ host'.sessions = host.sessions
<1>1. /\ AgentInv /\ CommsInv /\ QueueInv /\ IsHost(host, announced)
      /\ UNCHANGED <<state, tasks, creating, late, agent_tx, rx, held, issued, announced>>
  BY DEF LinkInv, CommsInv, GetBegin, GetDrain, GetTimeout, queueVars, historyVars
<1>2. /\ inbox' \in Seq(MessagesOf(announced))
      /\ IsHost(host, announced)' /\ host'.sessions = host.sessions
  <2>1. CASE GetBegin
    <3> DEFINE h == GetOrInsert(start_time)
               m == ManagerMessage("SessionTerminateAll", NotCreating.plugin, NoSession)
    <3>1. /\ host' = [h EXCEPT !.stop = IF h.start_time # start_time THEN "none" ELSE "get",
                              !.start_time = start_time]
          /\ inbox' = <<m>> \/ inbox' = <<>>
      BY <2>1 DEF GetBegin
    <3>2. m \in MessagesOf(announced)
      BY NotCreatingType DEF ManagerMessage, MessagesOf, NoSession
    <3>3. IsHost(h, announced) /\ h.sessions = host.sessions
      BY GetOrInsertHost
    <3> HIDE DEF h, m
    <3>4. /\ DOMAIN host' = DOMAIN h /\ host'.known = h.known /\ host'.sessions = h.sessions
          /\ host'.queue = h.queue
      BY <3>1, <3>3 DEF IsHost
    <3>5. IsHost(host, announced)' /\ host'.sessions = host.sessions
      BY <1>1, <3>3, <3>4, HostChange DEF IsHost
    <3>6. inbox' \in Seq(MessagesOf(announced))
      BY <3>1, <3>2, ShortSeqs
    <3> QED
      BY <3>5, <3>6
  <2>2. CASE GetDrain
    <3>1. host' = [host EXCEPT !.queue = <<>>, !.stop = "none"]
      BY <2>2 DEF GetDrain
    <3>2. PICK n \in 0..Len(host.queue) : \E kept \in [1..n -> Retained] :
             inbox' = [i \in 1..n |-> host.queue[kept[i]]]
      BY <2>2 DEF GetDrain
    <3>3. PICK kept \in [1..n -> Retained] : inbox' = [i \in 1..n |-> host.queue[kept[i]]]
      BY <3>2
    <3>4. n \in Nat /\ host.queue \in Seq(MessagesOf(announced))
      BY SMT, <1>1 DEF IsHost
    <3>5. \A i \in 1..n : host.queue[kept[i]] \in MessagesOf(announced)
      BY SMTT(30), <3>3, <3>4 DEF Retained
    <3>6. inbox' \in Seq(MessagesOf(announced))
      BY SMTT(30), <3>3, <3>4, <3>5
    <3>7. /\ DOMAIN host' = DOMAIN host /\ host'.known = host.known
          /\ host'.sessions = host.sessions /\ host'.queue = <<>>
      BY <1>1, <3>1 DEF IsHost
    <3> QED
      BY SMTT(30), <1>1, <3>6, <3>7, HostChange
  <2>3. CASE GetTimeout
    <3>1. host' = [host EXCEPT !.stop = "none"] /\ inbox' = inbox
      BY <2>3 DEF GetTimeout
    <3>2. /\ DOMAIN host' = DOMAIN host /\ host'.known = host.known
          /\ host'.sessions = host.sessions /\ host'.queue = host.queue
      BY <1>1, <3>1 DEF IsHost
    <3> QED
      BY <1>1, <3>1, <3>2, HostChange DEF IsHost, AgentInv
  <2> QED
    BY <2>1, <2>2, <2>3
<1>3. StatesInv' /\ TasksInv'
  BY <1>1 DEF AgentInv, StatesInv, TasksInv
<1> QED
  BY <1>1, <1>2, <1>3, Untouched DEF LinkInv, AgentInv, CommsInv

(* An orphan disturbs the queue and the reader's GET, never a session.     *)
LEMMA OrphanInv ==
  ASSUME LinkInv, OrphanBegin \/ OrphanArm \/ OrphanFlush
  PROVE  LinkInv' /\ host'.sessions = host.sessions
<1>1. /\ AgentInv /\ StatesInv /\ TasksInv /\ CommsInv /\ QueueInv /\ IsHost(host, announced)
      /\ UNCHANGED <<inbox, creating, late, agent_tx, rx, held, issued, announced>>
  BY DEF LinkInv, AgentInv, CommsInv, OrphanBegin, OrphanArm, OrphanFlush, queueVars, historyVars,
         agentVars
<1>2. IsHost(host, announced)' /\ host'.sessions = host.sessions
  <2>1. CASE OrphanBegin
    <3> DEFINE h == GetOrInsert(orphan.start_time)
    <3>1. host' = [h EXCEPT !.stop = "none", !.start_time = orphan.start_time]
      BY <2>1 DEF OrphanBegin
    <3>2. IsHost(h, announced) /\ h.sessions = host.sessions
      BY GetOrInsertHost
    <3> HIDE DEF h
    <3>3. /\ DOMAIN host' = DOMAIN h /\ host'.known = h.known /\ host'.sessions = h.sessions
          /\ host'.queue = h.queue
      BY <3>1, <3>2 DEF IsHost
    <3> QED
      BY <1>1, <3>2, <3>3, HostChange DEF IsHost
  <2>2. CASE OrphanArm
    <3>1. host' = [host EXCEPT !.stop = "orphan"]
      BY <2>2 DEF OrphanArm
    <3>2. /\ DOMAIN host' = DOMAIN host /\ host'.known = host.known
          /\ host'.sessions = host.sessions /\ host'.queue = host.queue
      BY <1>1, <3>1 DEF IsHost
    <3> QED
      BY <1>1, <3>2, HostChange DEF IsHost
  <2>3. CASE OrphanFlush
    <3>1. PICK q \in {host.queue, <<>>} : host' = [host EXCEPT !.queue = q, !.stop = "none"]
      BY <2>3 DEF OrphanFlush
    <3>2. /\ DOMAIN host' = DOMAIN host /\ host'.known = host.known
          /\ host'.sessions = host.sessions /\ host'.queue = q
      BY <1>1, <3>1 DEF IsHost
    <3>3. q \in Seq(MessagesOf(announced))
      BY <1>1, ShortSeqs DEF IsHost
    <3> QED
      BY <1>1, <3>2, <3>3, HostChange
  <2> QED
    BY <2>1, <2>2, <2>3
<1>3. StatesInv' /\ TasksInv'
  <2>1. CASE UNCHANGED <<state, tasks>>
    BY <1>1, <2>1 DEF StatesInv, TasksInv
  <2>2. CASE TerminateAllSessions
    BY <1>1, <2>2, EmptiedInv DEF TerminateAllSessions, TasksInv
  <2> QED
    BY <2>1, <2>2 DEF OrphanBegin, OrphanArm, OrphanFlush, agentVars
<1> QED
  BY <1>1, <1>2, <1>3, Untouched DEF LinkInv, AgentInv, CommsInv

(* The reader's GET ends without an answer: at most the queue is lost.     *)
LEMMA AbandonInv ==
  ASSUME LinkInv, Abandon, UNCHANGED announced
  PROVE  /\ inbox' \in Seq(MessagesOf(announced))
         /\ IsHost(host, announced)' /\ host'.sessions = host.sessions
<1>1. inbox' \in Seq(MessagesOf(announced))
  BY ShortSeqs DEF Abandon
<1>2. IsHost(host, announced)
  BY DEF LinkInv, CommsInv
<1>3. \/ \E x : host' = [host EXCEPT !.stop = x]
      \/ host' = [host EXCEPT !.stop = "none", !.queue = <<>>]
  <2>1. CASE host' = [host EXCEPT !.stop = IF get THEN "none" ELSE @]
    BY <2>1
  <2>2. CASE host' = [host EXCEPT !.stop = IF get THEN "orphan" ELSE @]
    BY <2>2
  <2> QED
    BY <2>1, <2>2 DEF Abandon
<1>4. /\ DOMAIN host' = DOMAIN host /\ host'.known = host.known
      /\ host'.sessions = host.sessions /\ (host'.queue = host.queue \/ host'.queue = <<>>)
  BY <1>2, <1>3 DEF IsHost
<1>5. host'.queue \in Seq(MessagesOf(announced))
  BY <1>2, <1>4, ShortSeqs DEF IsHost
<1> QED
  BY <1>1, <1>2, <1>4, <1>5, HostChange

(* The reader's GET fails, and a restart of the agent.                     *)
LEMMA AgentLosesInv ==
  ASSUME LinkInv, GetFails \/ AgentRestart
  PROVE  LinkInv' /\ host'.sessions = host.sessions
<1>1. /\ StatesInv /\ TasksInv /\ CommsInv /\ QueueInv /\ Abandon
      /\ UNCHANGED <<late, agent_tx, rx, held, issued, announced>>
  BY DEF LinkInv, AgentInv, GetFails, AgentRestart, queueVars
<1>2. inbox' \in Seq(MessagesOf(announced)) /\ IsHost(host, announced)' /\ host'.sessions = host.sessions
  BY <1>1, AbandonInv
<1>3. state' = [p \in Plugins |-> Empty] /\ (tasks' = Unlink(tasks, Plugins) \/ tasks' = {})
  BY DEF GetFails, AgentRestart, TerminateAllSessions
<1>4. StatesInv'
  BY <1>1, <1>3 DEF StatesInv, Empty, State
<1>5. TasksInv'
  BY <1>1, <1>3, ChangedTasks DEF TasksInv
<1>6. CreatingInv'
  <2>1. CASE UNCHANGED creating
    BY <1>1, <2>1, Untouched
  <2>2. CASE creating' = [creating EXCEPT !.n = 0]
    BY <1>1, <2>2 DEF CommsInv, CreatingInv
  <2> QED
    BY <2>1, <2>2 DEF GetFails, AgentRestart
<1> QED
  BY <1>1, <1>2, <1>4, <1>5, <1>6, Untouched DEF LinkInv, AgentInv, CommsInv

(* The feeder, the services and a restart of the comms process.            *)
LEMMA FeedInv ==
  ASSUME LinkInv, Feed
  PROVE  LinkInv' /\ host'.sessions = host.sessions
<1>1. /\ CommsInv /\ QueueInv /\ IsHost(host, announced) /\ agent_tx # <<>>
      /\ UNCHANGED <<state, tasks, inbox, creating, late, rx, held, issued, announced>>
      /\ agent_tx' = Tail(agent_tx)
      /\ host' = IF host.known THEN [host EXCEPT !.queue = Append(@, Head(agent_tx))] ELSE host
  BY DEF LinkInv, CommsInv, Feed, agentVars, historyVars
<1>2. Head(agent_tx) \in MessagesOf(announced) /\ agent_tx' \in Seq(MessagesOf(announced))
  BY SMT, <1>1 DEF QueueInv
<1>3. Append(host.queue, Head(agent_tx)) \in Seq(MessagesOf(announced))
  BY <1>1, <1>2, AppendType DEF IsHost
<1>4. /\ DOMAIN host' = DOMAIN host /\ host'.known = host.known /\ host'.sessions = host.sessions
      /\ host'.queue \in Seq(MessagesOf(announced))
  BY <1>1, <1>3 DEF IsHost
<1>5. IsHost(host, announced)'
  BY <1>1, <1>4, HostChange
<1>6. QueueInv'
  BY <1>1, <1>2, <1>4 DEF QueueInv
<1> QED
  BY <1>1, <1>4, <1>5, <1>6, Untouched DEF LinkInv, CommsInv

(* A service reads, or sends down the session it holds.                    *)
LEMMA ServiceInv ==
  ASSUME LinkInv, NEW p \in Plugins, Consume(p) \/ SendDown(p)
  PROVE  LinkInv'
<1>1. QueueInv /\ UNCHANGED <<state, tasks, inbox, host, creating, late, issued, announced>>
  BY DEF LinkInv, Consume, SendDown, agentVars, commsVars, historyVars
<1>2. QueueInv'
  <2>1. CASE Consume(p)
    <3> DEFINE m == Head(rx[p])
    <3>1. /\ rx[p] # <<>> /\ rx' = [rx EXCEPT ![p] = Tail(@)] /\ agent_tx' = agent_tx
          /\ \E h \in {m.id, NoSession, held[p]} : held' = [held EXCEPT ![p] = h]
      BY <2>1 DEF Consume
    <3>2. m \in PluginMessages /\ Tail(rx[p]) \in Seq(PluginMessages)
      BY SMTT(30), <1>1, <3>1 DEF QueueInv
    <3> HIDE DEF m
    <3>3. {m.id, NoSession, held[p]} \subseteq Nat
      BY SMTT(30), <1>1, <3>2 DEF QueueInv, PluginMessages, NoSession
    <3> QED
      BY <1>1, <3>1, <3>2, <3>3 DEF QueueInv
  <2>2. CASE SendDown(p)
    <3> DEFINE m == ManagerMessage("Data", p, held[p])
    <3>1. m \in MessagesOf(announced)
      BY <1>1 DEF QueueInv, ManagerMessage, MessagesOf
    <3>2. agent_tx' = Append(agent_tx, m) /\ UNCHANGED <<rx, held>>
      BY <2>2 DEF SendDown
    <3> HIDE DEF m
    <3>3. agent_tx' \in Seq(MessagesOf(announced))
      BY <1>1, <3>1, <3>2, AppendType DEF QueueInv
    <3> QED
      BY <1>1, <3>2, <3>3 DEF QueueInv
  <2> QED
    BY <2>1, <2>2
<1> QED
  BY <1>1, <1>2, Untouched DEF LinkInv, CommsInv

(* The comms process forgets every session.                                *)
LEMMA CommsRestartInv ==
  ASSUME LinkInv, CommsRestart
  PROVE  LinkInv'
<1>1. /\ StatesInv /\ TasksInv /\ QueueInv /\ AgentInv
      /\ host' = NoHost /\ creating' = NotCreating
      /\ UNCHANGED <<inbox, late, agent_tx, rx, held, issued, announced>>
  BY DEF LinkInv, AgentInv, CommsRestart, queueVars
<1>2. StatesInv' /\ TasksInv'
  <2>1. CASE get
    <3>1. /\ state' = [p \in Plugins |-> Empty]
          /\ tasks' = Unlink({t \in tasks : t.at # "handling"}, Plugins)
      BY <2>1 DEF CommsRestart
    <3>2. StatesInv'
      BY <1>1, <3>1 DEF StatesInv, Empty, State
    <3>3. \A t \in {t \in tasks : t.at # "handling"} : IsTask(t, announced)
      BY <1>1 DEF TasksInv
    <3>4. TasksInv'
      BY <1>1, <3>1, <3>3, ChangedTasks DEF TasksInv
    <3> QED
      BY <3>2, <3>4
  <2>2. CASE ~get
    BY <1>1, <2>2, CreatingFailsInv DEF CommsRestart
  <2> QED
    BY <2>1, <2>2
<1>3. IsHost(host, announced)'
  BY <1>1, ShortSeqs DEF IsHost, NoHost
<1>4. CreatingInv'
  BY SMT, <1>1, NotCreatingType DEF CreatingInv
<1>5. QueueInv'
  BY <1>1 DEF QueueInv, NoHost, NoSession
<1> QED
  BY <1>1, <1>2, <1>3, <1>4, <1>5, Untouched DEF LinkInv, AgentInv, CommsInv

(* Every step keeps the invariant.                                         *)
LEMMA NextLinkInv == LinkInv /\ [Next]_vars => LinkInv'
<1> SUFFICES ASSUME LinkInv, [Next]_vars PROVE LinkInv'
  OBVIOUS
<1>1. ASSUME UNCHANGED <<host, creating, late, agent_tx, rx, held, issued, announced>>, AgentInv'
      PROVE  LinkInv'
  BY <1>1, Untouched DEF LinkInv, CommsInv
<1>2. CASE UNCHANGED vars
  BY <1>2, Untouched DEF vars, LinkInv, CommsInv
<1>3. ASSUME NEW p \in Plugins, CreateSession(p) \/ StartPoll(p) \/ Deadline(p) PROVE LinkInv'
  BY <1>1, <1>3, PollerInv DEF CreateSession, StartPoll, Deadline, commsVars, queueVars, historyVars
<1>4. ASSUME NEW t \in tasks,
             TerminateSession(t) \/ Cancelled(t) \/ RunEnds(t) \/ RunFails(t) \/ Message(t) \/ OkReply(t)
      PROVE  LinkInv'
  <2>1. UNCHANGED <<host, creating, late, agent_tx, rx, held, issued, announced>>
    BY <1>4 DEF TerminateSession, Cancelled, RunEnds, RunFails, Message, OkReply, commsVars, queueVars,
                historyVars
  <2> QED
    BY <1>1, <1>4, <2>1, AgentTaskInv
<1>5. CASE HandleDelivery
  BY <1>1, <1>5, ReaderInv DEF HandleDelivery, commsVars, queueVars, historyVars
<1> QED
  BY <1>2, <1>3, <1>4, <1>5, ServiceInv, PostInv, LateRequestInv, PublishInv, GetInv, OrphanInv,
     AgentLosesInv, FeedInv, CommsRestartInv DEF Next

-----------------------------------------------------------------------------
(* The rest of an announcement, and when there is none.                    *)
LEMMA NothingOwed ==
  ASSUME creating.at \notin {"terminate", "create"}
  PROVE  [p \in Plugins |-> Opening(p)] = [p \in Plugins |-> <<>>]
BY DEF Opening

(* Steps that services cannot see.                                         *)
LEMMA Unseen ==
  ASSUME host'.sessions = host.sessions, UNCHANGED <<creating, rx, held, issued, announced>>
  PROVE  UNCHANGED Stream!vars
<1>1. \A p \in Plugins : Opening(p)' = Opening(p)
  BY DEF Opening
<1> QED
  BY <1>1 DEF Stream!vars

(* A create request opens a session.                                       *)
LEMMA CreateIsOpen ==
  ASSUME LinkInv, NEW p \in Plugins, NEW n, NEW st, SessionCreateReqHandler(p, n, st),
         UNCHANGED <<held, announced>>
  PROVE  Stream!Open(p)
<1>1. host'.sessions = [host.sessions EXCEPT ![p] = issued']
  BY CreateHandlerInv DEF SessionCreateReqHandler
<1>2. GetOrInsert(st).sessions = host.sessions
  BY GetOrInsertHost
<1>3. /\ creating.at = "none" /\ issued' = issued + 1 /\ UNCHANGED rx
      /\ creating'.at = IF host.sessions[p] = NoSession THEN "create" ELSE "terminate"
      /\ creating'.plugin = p /\ creating'.old = host.sessions[p] /\ creating'.id = issued'
  BY <1>2 DEF SessionCreateReqHandler
<1>4. [q \in Plugins |-> Opening(q)] = [q \in Plugins |-> <<>>]
  BY <1>3, NothingOwed
<1>5. \A q \in Plugins : Opening(q)' = IF q = p THEN Stream!Announcement(host.sessions[p], issued')
                                               ELSE <<>>
  BY <1>3 DEF Opening, PluginMessage, Stream!Announcement, Stream!Msg, NoSession, Stream!NoSession
<1>6. [q \in Plugins |-> Opening(q)]'
        = [[q \in Plugins |-> Opening(q)] EXCEPT ![p] = Stream!Announcement(host.sessions[p], issued')]
  BY <1>4, <1>5
<1> QED
  BY <1>1, <1>3, <1>4, <1>6 DEF Stream!Open

(* A data request puts data of the current session on the stream, or       *)
(* nothing.                                                                *)
LEMMA DataIsData ==
  ASSUME LinkInv, NEW p \in Plugins, NEW s \in announced, NEW st, DataHandler(p, s, st),
         UNCHANGED <<held, announced>>
  PROVE  Stream!Data(p) \/ UNCHANGED Stream!vars
<1>1. host'.sessions = host.sessions /\ UNCHANGED <<creating, issued>> /\ creating.at = "none"
  BY DataHandlerInv DEF DataHandler
<1>2. CASE host'.sessions[p] = s
  <2>1. rx' = [rx EXCEPT ![p] = Append(@, Stream!Msg("Data", host.sessions[p]))]
    BY <1>1, <1>2 DEF DataHandler, PluginMessage, Stream!Msg
  <2>2. UNCHANGED [q \in Plugins |-> Opening(q)] /\ [q \in Plugins |-> Opening(q)] = [q \in Plugins |-> <<>>]
    BY <1>1, NothingOwed DEF Opening
  <2> QED
    BY <1>1, <1>2, <2>1, <2>2 DEF Stream!Data
<1>3. CASE host'.sessions[p] # s
  BY <1>1, <1>3, Unseen DEF DataHandler
<1> QED
  BY <1>2, <1>3

(* The publishes are the steps of the announcement.                        *)
LEMMA PublishIsAnnounce ==
  ASSUME LinkInv, PublishTerminate \/ PublishCreate \/ PublishResponse \/ PublishFails
  PROVE  [Stream!Next]_(Stream!vars)
<1> DEFINE p == creating.plugin
           Op == [q \in Plugins |-> Opening(q)]
<1>1. /\ p \in Plugins /\ UNCHANGED <<host, held, issued>>
      /\ creating = [at |-> creating.at, plugin |-> creating.plugin, old |-> creating.old,
                     id |-> creating.id, n |-> creating.n]
  BY DEF LinkInv, CommsInv, CreatingInv, PublishTerminate, PublishCreate, PublishResponse,
         PublishFails, historyVars, queueVars
<1>2. CASE PublishTerminate
  <2> DEFINE e == Stream!Msg("SessionTerminate", creating.old)
             c == Stream!Msg("SessionCreate", creating.id)
  <2>1. /\ creating'.at = "create" /\ creating'.plugin = p /\ creating'.id = creating.id
        /\ rx' = [rx EXCEPT ![p] = Append(@, e)] /\ announced' = announced
    BY <1>1, <1>2 DEF PublishTerminate, historyVars, PluginMessage, Stream!Msg
  <2>2. \A q \in Plugins : /\ Opening(q) = IF q = p THEN <<e, c>> ELSE <<>>
                           /\ Opening(q)' = IF q = p THEN <<c>> ELSE <<>>
    BY SMTT(30), <1>2, <2>1 DEF PublishTerminate, Opening, PluginMessage, Stream!Msg
  <2>3. e.type # "SessionCreate"
    BY DEF Stream!Msg
  <2> HIDE DEF e, c
  <2>4. /\ Op[p] # <<>> /\ Head(Op[p]) = e
        /\ Op' = [Op EXCEPT ![p] = Tail(@)]
    <3>1. <<e, c>> # <<>> /\ Head(<<e, c>>) = e /\ Tail(<<e, c>>) = <<c>>
      BY SMT
    <3>2. Op[p] = <<e, c>>
      BY <1>1, <2>2
    <3>3. Op' = [Op EXCEPT ![p] = <<c>>]
      BY <1>1, <2>2
    <3> HIDE DEF Op
    <3> QED
      BY <3>1, <3>2, <3>3
  <2>5. Stream!Announce(p)
    BY <1>1, <2>1, <2>3, <2>4 DEF Stream!Announce
  <2> QED
    BY <1>1, <2>5 DEF Stream!Next
<1>3. CASE PublishCreate
  <2> DEFINE c == Stream!Msg("SessionCreate", creating.id)
  <2>1. /\ creating'.at = "response"
        /\ rx' = [rx EXCEPT ![p] = Append(@, c)] /\ announced' = announced \cup {creating.id}
    BY <1>1, <1>3 DEF PublishCreate, PluginMessage, Stream!Msg
  <2>2. \A q \in Plugins : /\ Opening(q) = IF q = p THEN <<c>> ELSE <<>>
                           /\ Opening(q)' = <<>>
    BY <1>3, <2>1 DEF PublishCreate, Opening, PluginMessage, Stream!Msg
  <2>3. c.type = "SessionCreate" /\ c.id = creating.id
    BY DEF Stream!Msg
  <2> HIDE DEF c
  <2>4. /\ Op[p] # <<>> /\ Head(Op[p]) = c
        /\ Op' = [Op EXCEPT ![p] = Tail(@)]
    <3>1. <<c>> # <<>> /\ Head(<<c>>) = c /\ Tail(<<c>>) = <<>>
      BY SMT
    <3>2. Op[p] = <<c>>
      BY <1>1, <2>2
    <3>3. Op' = [Op EXCEPT ![p] = <<>>]
      BY <1>1, <2>2
    <3> HIDE DEF Op
    <3> QED
      BY <3>1, <3>2, <3>3
  <2>5. Stream!Announce(p)
    BY <1>1, <2>1, <2>3, <2>4 DEF Stream!Announce
  <2> QED
    BY <1>1, <2>5 DEF Stream!Next
<1>4. CASE PublishResponse \/ PublishFails
  <2>1. creating' = NotCreating /\ UNCHANGED <<rx, announced>>
    BY <1>4 DEF PublishResponse, PublishFails, queueVars, historyVars
  <2>2. \A q \in Plugins : Opening(q)' = <<>>
    BY <2>1, NotCreatingType DEF Opening
  <2>3. \A q \in Plugins : q # p => Opening(q) = <<>>
    BY DEF Opening
  <2>4. CASE Opening(p) = <<>>
    <3>1. Op' = Op
      BY <2>2, <2>3, <2>4
    <3> QED
      BY <1>1, <2>1, <3>1 DEF Stream!vars
  <2>5. CASE Opening(p) # <<>>
    <3>1. Op[p] # <<>> /\ Op' = [Op EXCEPT ![p] = <<>>]
      BY <1>1, <2>2, <2>3, <2>5
    <3>2. Stream!GiveUp(p)
      BY <1>1, <2>1, <3>1 DEF Stream!GiveUp
    <3> QED
      BY <1>1, <3>2 DEF Stream!Next
  <2> QED
    BY <2>4, <2>5
<1> QED
  BY <1>2, <1>3, <1>4

(* Every step is a step of SessionStream or changes nothing it speaks of.  *)
LEMMA StepSimulates == LinkInv /\ [Next]_vars => [Stream!Next]_(Stream!vars)
<1> SUFFICES ASSUME LinkInv, [Next]_vars PROVE [Stream!Next]_(Stream!vars)
  OBVIOUS
<1>1. CASE UNCHANGED vars
  BY <1>1, Unseen DEF vars
<1>2. ASSUME NEW p \in Plugins, CreateSession(p) \/ StartPoll(p) \/ Deadline(p) \/ SendDown(p)
      PROVE  UNCHANGED Stream!vars
  BY <1>2, Unseen DEF CreateSession, StartPoll, Deadline, SendDown, commsVars, queueVars, historyVars
<1>3. ASSUME NEW t \in tasks,
             \/ TerminateSession(t) \/ Cancelled(t) \/ RunEnds(t) \/ RunFails(t) \/ Message(t)
             \/ OkReply(t) \/ PostFails(t)
      PROVE  UNCHANGED Stream!vars
  BY <1>3, Unseen DEF TerminateSession, Cancelled, RunEnds, RunFails, Message, OkReply, PostFails,
                      commsVars, queueVars, historyVars
<1>4. CASE \/ HandleDelivery \/ GetBegin \/ GetDrain \/ GetTimeout \/ GetFails
           \/ OrphanBegin \/ OrphanArm \/ OrphanFlush \/ Feed
  <2>1. host'.sessions = host.sessions
    BY <1>4, GetInv, OrphanInv, FeedInv, AgentLosesInv DEF HandleDelivery, commsVars
  <2>2. UNCHANGED <<creating, rx, held, issued, announced>>
    BY <1>4 DEF HandleDelivery, GetBegin, GetDrain, GetTimeout, GetFails, OrphanBegin, OrphanArm,
                OrphanFlush, Feed, commsVars, queueVars, historyVars
  <2> QED
    BY <2>1, <2>2, Unseen
<1>5. CASE AgentRestart
  <2>1. /\ host'.sessions = host.sessions /\ UNCHANGED <<rx, held, issued, announced>>
        /\ creating' = [creating EXCEPT !.n = 0]
    BY <1>5, AgentLosesInv DEF AgentRestart, queueVars
  <2>2. /\ creating'.at = creating.at /\ creating'.plugin = creating.plugin
        /\ creating'.old = creating.old /\ creating'.id = creating.id
    BY <2>1 DEF LinkInv, CommsInv, CreatingInv
  <2>3. \A p \in Plugins : Opening(p)' = Opening(p)
    BY <2>2 DEF Opening
  <2> QED
    BY <2>1, <2>3 DEF Stream!vars
<1>6. CASE CommsRestart
  <2>1. /\ host' = NoHost /\ creating' = NotCreating /\ UNCHANGED <<rx, held, issued, announced>>
    BY <1>6 DEF CommsRestart, queueVars
  <2>2. [p \in Plugins |-> Opening(p)]' = [p \in Plugins |-> <<>>]
    BY <2>1, NotCreatingType DEF Opening
  <2>3. host'.sessions = [p \in Plugins |-> Stream!NoSession]
    BY <2>1 DEF NoHost, NoSession, Stream!NoSession
  <2>4. Stream!Forget
    BY <2>1, <2>2, <2>3 DEF Stream!Forget
  <2> QED
    BY <2>4 DEF Stream!Next
<1>7. ASSUME NEW t \in tasks, ReceiveCreate(t) \/ ReceiveData(t)
      PROVE  [Stream!Next]_(Stream!vars)
  <2>1. t.plugin \in Plugins /\ IsTask(t, announced) /\ UNCHANGED <<held, announced>>
    BY <1>7 DEF LinkInv, AgentInv, TasksInv, IsTask, ReceiveCreate, ReceiveData
  <2>2. CASE ReceiveCreate(t)
    <3>1. Stream!Open(t.plugin)
      BY <2>1, <2>2, CreateIsOpen DEF ReceiveCreate
    <3> QED
      BY <2>1, <3>1 DEF Stream!Next
  <2>3. CASE ReceiveData(t)
    <3>1. t.id \in announced /\ DataHandler(t.plugin, t.id, start_time)
      BY <2>1, <2>3 DEF ReceiveData, IsTask, Kinds
    <3>2. Stream!Data(t.plugin) \/ UNCHANGED Stream!vars
      BY <2>1, <3>1, DataIsData
    <3> QED
      BY <2>1, <3>2 DEF Stream!Next
  <2> QED
    BY <1>7, <2>2, <2>3
<1>8. ASSUME NEW m \in late, ReceiveLate(m)
      PROVE  [Stream!Next]_(Stream!vars)
  <2>1. m.plugin \in Plugins /\ IsLate(m, announced) /\ UNCHANGED <<held, announced>>
    BY <1>8 DEF LinkInv, CommsInv, LateInv, IsLate, ReceiveLate
  <2>2. CASE m.kind = "create"
    <3>1. Stream!Open(m.plugin)
      BY <1>8, <2>1, <2>2, CreateIsOpen DEF ReceiveLate
    <3> QED
      BY <2>1, <3>1 DEF Stream!Next
  <2>3. CASE m.kind # "create"
    <3>1. m.id \in announced /\ DataHandler(m.plugin, m.id, m.start_time)
      BY <1>8, <2>1, <2>3 DEF ReceiveLate, IsLate
    <3>2. Stream!Data(m.plugin) \/ UNCHANGED Stream!vars
      BY <2>1, <3>1, DataIsData
    <3> QED
      BY <2>1, <3>2 DEF Stream!Next
  <2> QED
    BY <2>2, <2>3
<1>9. ASSUME NEW p \in Plugins, Consume(p) PROVE [Stream!Next]_(Stream!vars)
  <2>1. /\ UNCHANGED <<host, creating, issued, announced>>
        /\ rx[p] # <<>> /\ rx' = [rx EXCEPT ![p] = Tail(@)]
        /\ held' = [held EXCEPT ![p] = Stream!HeldAfter(Head(rx[p]), @)]
    BY <1>9 DEF Consume, commsVars, historyVars, Stream!HeldAfter, NoSession, Stream!NoSession
  <2>2. [q \in Plugins |-> Opening(q)]' = [q \in Plugins |-> Opening(q)]
    BY <2>1 DEF Opening
  <2>3. Stream!Read(p)
    BY <2>1, <2>2 DEF Stream!Read
  <2> QED
    BY <2>3 DEF Stream!Next
<1> QED
  BY <1>1, <1>2, <1>3, <1>4, <1>5, <1>6, <1>7, <1>8, <1>9, PublishIsAnnounce DEF Next

(***************************************************************************)
(* For any plugins and any number of faults, what the handlers of the      *)
(* comms process put on a service's queue is a stream of SessionStream:    *)
(* data of the session last started, and of no other.                      *)
(***************************************************************************)
THEOREM LinkImplementsStream == Spec => StreamSpec
<1>1. Init => Stream!Init
  <2>1. ASSUME Init PROVE [p \in Plugins |-> Opening(p)] = [p \in Plugins |-> <<>>]
    BY <2>1, NothingOwed, NotCreatingType DEF Init
  <2>2. ASSUME Init PROVE host.sessions = [p \in Plugins |-> Stream!NoSession]
    BY <2>2 DEF Init, NoHost, NoSession, Stream!NoSession
  <2>3. ASSUME Init
        PROVE  /\ rx = [p \in Plugins |-> <<>>] /\ held = [p \in Plugins |-> Stream!NoSession]
               /\ issued = 0 /\ announced = {}
    BY <2>3 DEF Init, NoSession, Stream!NoSession
  <2> QED
    BY <2>1, <2>2, <2>3 DEF Stream!Init
<1> QED
  BY <1>1, InitLinkInv, NextLinkInv, StepSimulates, PTL DEF Spec, StreamSpec, Stream!Spec

-----------------------------------------------------------------------------
(* The calls of the agent's plugins, and the order of sessions.            *)

(* The plugin calls that have not been cancelled.                          *)
Calls == {t \in tasks : t.at = "run" /\ t.linked}

(* Each is the only one of its plugin and of its Active session.           *)
CallInv ==
  \A t \in Calls : /\ state[t.plugin].kind = "Active" /\ state[t.plugin].in_flight
                   /\ state[t.plugin].id = t.id
                   /\ \A u \in Calls : u.plugin = t.plugin => u = t

(* Session s of p was issued no later than p's current one.                *)
Known(p, s) == s <= issued /\ (host.sessions[p] = NoSession \/ host.sessions[p] >= s)

(* The sessions on their way to the agent.                                 *)
Responses(q) == {q[i] : i \in {j \in DOMAIN q : q[j].type = "SessionCreateResponse"}}

(* So was every session the agent has, will be told of, or has asked for.  *)
ResponsesInv ==
  \A m \in Responses(agent_tx) \cup Responses(host.queue) \cup Responses(inbox) : Known(m.plugin, m.id)
OrderInv ==
  /\ \A p \in Plugins : state[p].kind = "Active" => Known(p, state[p].id)
  /\ ResponsesInv
  /\ creating.at # "none" => Known(creating.plugin, creating.id)

(* A step that begins no call and no session at the agent.                 *)
OnlyEnds ==
  /\ \A t \in Calls' : t \in Calls /\ state'[t.plugin] = state[t.plugin]
  /\ \A p \in Plugins : state'[p].kind = "Active" => state[p].kind = "Active" /\ state'[p].id = state[p].id

(* What is not unlinked was there before, and is of another plugin.        *)
LEMMA UnlinkedCalls ==
  ASSUME NEW ts, NEW ps, \A t \in ts : IsTask(t, announced),
         NEW x \in Unlink(ts, ps), x.linked
  PROVE  x \in ts /\ x.plugin \notin ps
<1>1. PICK t \in ts : x = IF t.plugin \in ps THEN [t EXCEPT !.linked = FALSE] ELSE t
  BY DEF Unlink
<1>2. CASE t.plugin \in ps
  <2>1. x.linked = FALSE
    BY <1>1, <1>2 DEF IsTask
  <2> QED
    BY <2>1
<1> QED
  BY <1>1, <1>2

(* A task that is moved on from its run is no call.                        *)
LEMMA MovedCalls ==
  ASSUME TasksInv, NEW t \in tasks, NEW a, a # "run", NEW x \in MoveTo(t, a), x.at = "run"
  PROVE  x \in tasks
<1>1. [t EXCEPT !.at = a].at = a
  BY DEF TasksInv, IsTask
<1> QED
  BY <1>1 DEF MoveTo

(* Plugins of ps lose their sessions.                                      *)
LEMMA EmptiedEnds ==
  ASSUME StatesInv, TasksInv, NEW ts \in SUBSET tasks, NEW ps \in SUBSET Plugins,
         tasks' = Unlink(ts, ps),
         DOMAIN state' = Plugins,
         \A p \in Plugins : state'[p] = IF p \in ps THEN Empty ELSE state[p]
  PROVE  OnlyEnds
<1>1. Empty.kind # "Active"
  BY DEF Empty, State
<1>2. ASSUME NEW x \in Calls' PROVE x \in Calls /\ state'[x.plugin] = state[x.plugin]
  <2>1. x \in Unlink(ts, ps) /\ x.linked /\ x.at = "run"
    BY <1>2 DEF Calls
  <2>2. x \in ts /\ x.plugin \notin ps
    BY <2>1, UnlinkedCalls DEF TasksInv
  <2>3. x.plugin \in Plugins
    BY <2>2 DEF TasksInv, IsTask
  <2> QED
    BY <2>1, <2>2, <2>3 DEF Calls
<1> QED
  BY <1>1, <1>2 DEF OnlyEnds

(* Resetting a plugin starts no call.                                      *)
LEMMA ResetEnds ==
  ASSUME StatesInv, TasksInv, NEW ts \in SUBSET tasks, NEW p \in Plugins, ResetActive(p, ts)
  PROVE  OnlyEnds
<1>1. CASE state[p].kind = "Active"
  <2>1. /\ state' = [state EXCEPT ![p].in_flight = FALSE] /\ tasks' = Unlink(ts, {p})
    BY <1>1 DEF ResetActive
  <2>2. \A q \in Plugins : q # p => state'[q] = state[q]
    BY <2>1 DEF StatesInv
  <2>3. state'[p].kind = state[p].kind /\ state'[p].id = state[p].id
    BY <2>1 DEF StatesInv
  <2>4. ASSUME NEW x \in Calls' PROVE x \in Calls /\ state'[x.plugin] = state[x.plugin]
    <3>1. x \in Unlink(ts, {p}) /\ x.linked /\ x.at = "run"
      BY <2>1, <2>4 DEF Calls
    <3>2. x \in ts /\ x.plugin # p
      BY <3>1, UnlinkedCalls DEF TasksInv
    <3>3. x.plugin \in Plugins
      BY <3>2 DEF TasksInv, IsTask
    <3> QED
      BY <2>2, <3>1, <3>2, <3>3 DEF Calls
  <2> QED
    BY <2>2, <2>3, <2>4 DEF OnlyEnds
<1>2. CASE state[p].kind # "Active"
  BY SMT, <1>2 DEF ResetActive, OnlyEnds, Calls
<1> QED
  BY <1>1, <1>2

(* Tasks that end, or go on to something else than a run.                  *)
LEMMA TasksEnd ==
  ASSUME UNCHANGED state, \A x \in tasks' : x.at = "run" => x \in tasks
  PROVE  OnlyEnds
BY DEF OnlyEnds, Calls

(* Neither does the end of a task.                                         *)
LEMMA SettleEnds ==
  ASSUME StatesInv, TasksInv, NEW t \in tasks, SettleOk(t) \/ SettleErr(t)
  PROVE  OnlyEnds
<1>1. t.plugin \in Plugins /\ t.kind \in Kinds
  BY DEF TasksInv, IsTask
<1>2. CASE SettleOk(t)
  <2>1. CASE t.kind = "poll"
    BY <1>1, <1>2, <2>1, ResetEnds DEF SettleOk
  <2>2. CASE t.kind # "poll"
    BY <1>2, <2>2, TasksEnd DEF SettleOk
  <2> QED
    BY <2>1, <2>2
<1>3. CASE SettleErr(t)
  <2>1. CASE t.kind = "create"
    <3>1. /\ state' = [state EXCEPT ![t.plugin] = Empty]
          /\ tasks' = Unlink(tasks \ {t}, {t.plugin})
      BY <1>3, <2>1 DEF SettleErr
    <3> QED
      BY SMTT(30), <1>1, <3>1, EmptiedEnds DEF StatesInv
  <2>2. CASE t.kind # "create"
    <3>1. UNCHANGED state /\ (tasks' = tasks \ {t} \/ tasks' = MoveTo(t, "term"))
      BY <1>3, <2>2 DEF SettleErr
    <3>2. \A x \in tasks' : x.at = "run" => x \in tasks
      BY <3>1, MovedCalls
    <3> QED
      BY <3>1, <3>2, TasksEnd
  <2> QED
    BY <2>1, <2>2
<1> QED
  BY <1>2, <1>3

(* Neither does the failure of a create request.                           *)
LEMMA CreatingFailsEnds ==
  ASSUME StatesInv, TasksInv, CreatingFails
  PROVE  OnlyEnds
<1>1. CASE \E t \in tasks : t.n = creating.n
  <2> DEFINE t == CHOOSE t \in tasks : t.n = creating.n
  <2>1. t \in tasks /\ SettleErr(t)
    BY <1>1 DEF CreatingFails
  <2> HIDE DEF t
  <2> QED
    BY <2>1, SettleEnds
<1>2. CASE ~\E t \in tasks : t.n = creating.n
  BY <1>2, TasksEnd DEF CreatingFails
<1> QED
  BY <1>1, <1>2

(* Every step but the start of a poll and the answer to a create request.  *)
NewSession ==
  /\ HandleDelivery
  /\ Head(inbox).type = "SessionCreateResponse"

(* Calls begin with a poll or with a new session and nowhere else.         *)
LEMMA AgentEnds ==
  ASSUME LinkInv, CallInv, [Next]_vars, \A p \in Plugins : ~StartPoll(p), ~NewSession
  PROVE  OnlyEnds
<1> USE DEF LinkInv, AgentInv
<1>1. CASE UNCHANGED <<state, tasks>>
  BY <1>1, TasksEnd
<1>2. ASSUME NEW p \in Plugins, CreateSession(p) PROVE OnlyEnds
  <2>1. /\ state[p].kind = "Empty" /\ state' = [state EXCEPT ![p] = Pending]
        /\ tasks' = tasks \cup {Task(p, "create", NoSession, "post")}
    BY <1>2 DEF CreateSession
  <2>2. ~Task(p, "create", NoSession, "post").linked /\ Pending.kind # "Active"
    BY DEF Task, Pending, State
  <2>3. \A t \in Calls : t.plugin \in Plugins /\ t.plugin # p
    BY <2>1 DEF CallInv, Calls, TasksInv, IsTask
  <2>4. Calls' \subseteq Calls
    BY <2>1, <2>2 DEF Calls
  <2>5. /\ \A q \in Plugins : q # p => state'[q] = state[q]
        /\ state'[p].kind # "Active"
    BY <2>1, <2>2 DEF StatesInv
  <2> QED
    BY <2>3, <2>4, <2>5 DEF OnlyEnds
<1>3. ASSUME NEW p \in Plugins, Deadline(p) PROVE OnlyEnds
  BY <1>3, ResetEnds DEF Deadline
<1>4. ASSUME NEW t \in tasks, TerminateSession(t) PROVE OnlyEnds
  <2>1. t.plugin \in Plugins
    BY DEF TasksInv, IsTask
  <2> QED
    BY SMTT(30), <1>4, <2>1, EmptiedEnds DEF TerminateSession, StatesInv
<1>5. ASSUME NEW t \in tasks,
             Cancelled(t) \/ RunEnds(t) \/ RunFails(t) \/ OkReply(t) \/ PostFails(t) \/ ReceiveData(t)
      PROVE  OnlyEnds
  <2>1. \/ SettleOk(t) \/ SettleErr(t)
        \/ UNCHANGED state /\ tasks' = MoveTo(t, "post")
    BY <1>5 DEF Cancelled, RunEnds, RunFails, OkReply, PostFails, ReceiveData
  <2>2. ASSUME UNCHANGED state, tasks' = MoveTo(t, "post") PROVE OnlyEnds
    BY <2>2, MovedCalls, TasksEnd
  <2> QED
    BY <2>1, <2>2, SettleEnds
<1>6. ASSUME NEW t \in tasks, Message(t) PROVE OnlyEnds
  <2>1. /\ UNCHANGED state
        /\ \/ tasks' = tasks \ {t}
           \/ tasks' = (tasks \ {t}) \cup {[t EXCEPT !.at = "post", !.id = state[t.plugin].id]}
    BY <1>6 DEF Message
  <2>2. [t EXCEPT !.at = "post", !.id = state[t.plugin].id].at = "post"
    BY DEF TasksInv, IsTask
  <2> QED
    BY <2>1, <2>2, TasksEnd
<1>7. ASSUME NEW t \in tasks, ReceiveCreate(t) PROVE OnlyEnds
  BY <1>7, MovedCalls, TasksEnd DEF ReceiveCreate
<1>8. CASE PublishResponse
  <2>1. \A t \in tasks : [t EXCEPT !.at = "acked"].at = "acked"
    BY DEF TasksInv, IsTask
  <2>2. UNCHANGED state /\ \A x \in tasks' : x.at = "run" => x \in tasks
    BY <1>8, <2>1 DEF PublishResponse
  <2> QED
    BY <2>2, TasksEnd
<1>9. CASE PublishFails
  BY <1>9, CreatingFailsEnds DEF PublishFails
<1>10. CASE OrphanArm \/ GetFails
  <2>1. UNCHANGED <<state, tasks>> \/ TerminateAllSessions
    BY <1>10 DEF OrphanArm, GetFails
  <2> QED
    BY <1>1, <2>1, EmptiedEnds DEF TerminateAllSessions
<1>11. CASE CommsRestart
  <2>1. \/ CreatingFails
        \/ /\ state' = [p \in Plugins |-> Empty]
           /\ tasks' = Unlink({t \in tasks : t.at # "handling"}, Plugins)
    BY <1>11 DEF CommsRestart
  <2> QED
    BY <2>1, CreatingFailsEnds, EmptiedEnds
<1>12. CASE AgentRestart
  <2>1. state' = [p \in Plugins |-> Empty] /\ tasks' = {} /\ Empty.kind # "Active"
    BY <1>12 DEF AgentRestart, Empty, State
  <2> QED
    BY <2>1 DEF OnlyEnds, Calls
<1>13. CASE HandleDelivery
  <2> DEFINE m == Head(inbox)
  <2>1. /\ m \in MessagesOf(announced) /\ m.plugin \in Plugins /\ m.type # "SessionCreateResponse"
        /\ m.type \in {"Data", "SessionTerminate", "SessionTerminateAll"}
    <3>1. m \in MessagesOf(announced)
      BY SMT, <1>13 DEF HandleDelivery
    <3> QED
      BY <1>13, <3>1 DEF NewSession, MessagesOf
  <2>2. CASE m.type = "Data"
    <3>1. UNCHANGED state /\ tasks' = tasks \cup {Task(m.plugin, "message", NoSession, "new")}
      BY <1>13, <2>2 DEF HandleDelivery
    <3>2. Task(m.plugin, "message", NoSession, "new").at = "new"
      BY DEF Task
    <3> QED
      BY <3>1, <3>2, TasksEnd
  <2>3. CASE m.type = "SessionTerminate"
    <3>1. /\ state' = [state EXCEPT ![m.plugin] = IF @.id = m.id THEN Empty ELSE @]
          /\ tasks' = IF state[m.plugin].id = m.id THEN Unlink(tasks, {m.plugin}) ELSE tasks
      BY <1>13, <2>3 DEF HandleDelivery
    <3>2. CASE state[m.plugin].id = m.id
      BY <2>1, <3>1, <3>2, EmptiedEnds DEF StatesInv
    <3>3. CASE state[m.plugin].id # m.id
      <4>1. \A p \in Plugins : state'[p] = state[p]
        BY <2>1, <3>1, <3>3 DEF StatesInv
      <4>2. tasks' = tasks /\ \A t \in tasks : t.plugin \in Plugins
        BY <3>1, <3>3 DEF TasksInv, IsTask
      <4> QED
        BY <4>1, <4>2 DEF OnlyEnds, Calls
    <3> QED
      BY <3>2, <3>3
  <2>4. CASE m.type = "SessionTerminateAll"
    BY <1>13, <2>4, EmptiedEnds DEF HandleDelivery
  <2> QED
    BY <2>1, <2>2, <2>3, <2>4
<1>14. CASE \/ UNCHANGED vars \/ (\E p \in Plugins : Consume(p) \/ SendDown(p))
            \/ (\E m \in late : ReceiveLate(m)) \/ PublishTerminate \/ PublishCreate
            \/ GetBegin \/ GetDrain \/ GetTimeout \/ OrphanBegin \/ OrphanFlush \/ Feed
  BY <1>1, <1>14 DEF vars, agentVars, Consume, SendDown, ReceiveLate, PublishTerminate, PublishCreate,
                     GetBegin, GetDrain, GetTimeout, OrphanBegin, OrphanFlush, Feed
<1> QED
  BY <1>2, <1>3, <1>4, <1>5, <1>6, <1>7, <1>8, <1>9, <1>10, <1>11, <1>12, <1>13, <1>14 DEF Next

(* A new session's first call, in an inbox that answers a create request.  *)
LEMMA NewSessionStep ==
  ASSUME LinkInv, NewSession
  PROVE  LET m == Head(inbox)
         IN /\ m \in Responses(inbox) /\ m.plugin \in Plugins /\ Active(m.id).id = m.id
            /\ state' = [state EXCEPT ![m.plugin] = Active(m.id)]
            /\ tasks' = Unlink(tasks, {m.plugin}) \cup {Task(m.plugin, "start", m.id, "run")}
<1> DEFINE m == Head(inbox)
<1>1. inbox \in Seq(MessagesOf(announced)) /\ inbox # <<>> /\ m.type = "SessionCreateResponse"
  BY DEF LinkInv, AgentInv, NewSession, HandleDelivery
<1>2. m \in MessagesOf(announced) /\ 1 \in DOMAIN inbox /\ m = inbox[1]
  BY SMT, <1>1
<1>3. m \in Responses(inbox) /\ m.plugin \in Plugins
  BY <1>1, <1>2 DEF Responses, MessagesOf
<1>4. /\ state' = [state EXCEPT ![m.plugin] = Active(m.id)]
      /\ tasks' = Unlink(tasks, {m.plugin}) \cup {Task(m.plugin, "start", m.id, "run")}
  BY <1>1 DEF NewSession, HandleDelivery
<1> QED
  BY <1>3, <1>4 DEF Active, State

(* No step starts a second call of a plugin.                               *)
LEMMA CallStep == LinkInv /\ CallInv /\ [Next]_vars => CallInv'
<1> SUFFICES ASSUME LinkInv, CallInv, [Next]_vars PROVE CallInv'
  OBVIOUS
<1>1. CASE OnlyEnds
  BY <1>1 DEF OnlyEnds, CallInv
<1>2. ASSUME NEW p \in Plugins, StartPoll(p) PROVE CallInv'
  <2> DEFINE n == Task(p, "poll", state[p].id, "run")
  <2>1. /\ state[p].kind = "Active" /\ ~state[p].in_flight
        /\ state' = [state EXCEPT ![p].in_flight = TRUE] /\ tasks' = tasks \cup {n}
    BY <1>2 DEF StartPoll
  <2>2. n.plugin = p /\ n.id = state[p].id
    BY DEF Task
  <2>3. /\ state'[p].kind = "Active" /\ state'[p].in_flight /\ state'[p].id = state[p].id
        /\ \A q \in Plugins : q # p => state'[q] = state[q]
    BY <2>1 DEF LinkInv, AgentInv, StatesInv
  <2>4. \A t \in Calls : t.plugin \in Plugins /\ t.plugin # p
    BY <2>1 DEF CallInv, Calls, LinkInv, AgentInv, TasksInv, IsTask
  <2> HIDE DEF n
  <2>5. Calls' \subseteq Calls \cup {n}
    BY <2>1 DEF Calls
  <2> QED
    BY <2>2, <2>3, <2>4, <2>5 DEF CallInv
<1>3. CASE NewSession
  <2> DEFINE m == Head(inbox)
             n == Task(m.plugin, "start", m.id, "run")
  <2>1. /\ m.plugin \in Plugins /\ state' = [state EXCEPT ![m.plugin] = Active(m.id)]
        /\ tasks' = Unlink(tasks, {m.plugin}) \cup {n}
    BY <1>3, NewSessionStep
  <2>2. n.plugin = m.plugin /\ n.id = m.id
    BY DEF Task
  <2>3. /\ state'[m.plugin].kind = "Active" /\ state'[m.plugin].in_flight /\ state'[m.plugin].id = m.id
        /\ \A q \in Plugins : q # m.plugin => state'[q] = state[q]
    BY <2>1 DEF LinkInv, AgentInv, StatesInv, Active, State
  <2>4. \A t \in Calls : t.plugin \in Plugins
    BY DEF Calls, LinkInv, AgentInv, TasksInv, IsTask
  <2>5. ASSUME NEW t \in Calls', t # n PROVE t \in Calls /\ t.plugin # m.plugin
    <3>1. t \in Unlink(tasks, {m.plugin}) /\ t.linked /\ t.at = "run"
      BY <2>1, <2>5 DEF Calls
    <3>2. t \in tasks /\ t.plugin \notin {m.plugin}
      BY <3>1, UnlinkedCalls DEF LinkInv, AgentInv, TasksInv
    <3> QED
      BY <3>1, <3>2 DEF Calls
  <2> HIDE DEF n, m
  <2> QED
    BY SMTT(30), <2>2, <2>3, <2>4, <2>5 DEF CallInv
<1> QED
  BY <1>1, <1>2, <1>3, AgentEnds

(***************************************************************************)
(* For any plugins and any number of faults, requests and messages, the    *)
(* plugin calls that session.rs has under way are never more than one per  *)
(* plugin, and are of the plugin's Active session.                         *)
(***************************************************************************)
THEOREM CallsAreKeptApart == Spec => []OneCallAtATime
<1>1. Init => CallInv
  BY DEF Init, CallInv, Calls
<1>2. ASSUME CallInv PROVE OneCallAtATime
  <2> SUFFICES ASSUME NEW p \in Plugins
               PROVE  /\ Cardinality(Running(p)) <= 1
                      /\ \A t \in Running(p) : /\ state[p].kind = "Active"
                                               /\ state[p].in_flight
                                               /\ state[p].id = t.id
    BY DEF OneCallAtATime
  <2>1. \A t \in Running(p) : t \in Calls /\ t.plugin = p
    BY DEF Running, Calls
  <2>2. CASE Running(p) = {}
    BY SMTT(30), <2>2, FS_EmptySet
  <2>3. CASE Running(p) # {}
    <3>1. PICK t : t \in Running(p)
      BY <2>3
    <3>2. Running(p) = {t}
      BY SMT, <1>2, <2>1, <3>1 DEF CallInv
    <3>3. Cardinality(Running(p)) = 1
      BY <3>2, FS_Singleton
    <3>4. Cardinality(Running(p)) <= 1
      BY SMT, <3>3
    <3> QED
      BY <1>2, <2>1, <3>4 DEF CallInv
  <2> QED
    BY <2>2, <2>3
<1> QED
  BY <1>1, <1>2, InitLinkInv, NextLinkInv, CallStep, PTL DEF Spec

(* The comms process only ever replaces a session by a later one, or       *)
(* forgets it.                                                             *)
LEMMA KnownStays ==
  ASSUME LinkInv, [Next]_vars, NEW p \in Plugins, NEW s \in Nat, Known(p, s)
  PROVE  Known(p, s)'
<1>1. issued \in Nat /\ DOMAIN host.sessions = Plugins /\ \A q \in Plugins : host.sessions[q] \in Nat
  BY DEF LinkInv, QueueInv, CommsInv, IsHost
<1>2. [Stream!Next]_(Stream!vars)
  BY StepSimulates
<1>3. \/ UNCHANGED <<host.sessions, issued>>
      \/ host'.sessions = [q \in Plugins |-> NoSession] /\ issued' = issued
      \/ \E q \in Plugins : /\ issued' = issued + 1
                            /\ host'.sessions = [host.sessions EXCEPT ![q] = issued']
  BY <1>2 DEF Stream!Next, Stream!vars, Stream!Open, Stream!Announce, Stream!GiveUp, Stream!Data,
              Stream!Read, Stream!Forget, Stream!NoSession, NoSession
<1>4. s <= issued /\ (host.sessions[p] = 0 \/ host.sessions[p] >= s)
  BY DEF Known, NoSession
<1>5. CASE UNCHANGED <<host.sessions, issued>>
  BY <1>4, <1>5 DEF Known, NoSession
<1>6. CASE host'.sessions = [q \in Plugins |-> NoSession] /\ issued' = issued
  BY <1>4, <1>6 DEF Known, NoSession
<1>7. ASSUME NEW q \in Plugins, issued' = issued + 1, host'.sessions = [host.sessions EXCEPT ![q] = issued']
      PROVE  Known(p, s)'
  <2>1. host'.sessions[p] = IF p = q THEN issued + 1 ELSE host.sessions[p]
    BY <1>1, <1>7
  <2>2. issued' >= s /\ (host'.sessions[p] = 0 \/ host'.sessions[p] >= s)
    BY SMTT(30), <1>1, <1>4, <1>7, <2>1
  <2> QED
    BY <1>1, <1>7, <2>2 DEF Known, NoSession
<1> QED
  BY <1>3, <1>5, <1>6, <1>7

(* What a longer and a shorter queue hold.                                 *)
LEMMA QueueResponses ==
  ASSUME NEW S, NEW q \in Seq(S)
  PROVE  /\ \A x \in S : \A m \in Responses(Append(q, x)) :
              m \in Responses(q) \/ (m = x /\ x.type = "SessionCreateResponse")
         /\ q # <<>> => /\ Responses(Tail(q)) \subseteq Responses(q)
                        /\ Head(q).type = "SessionCreateResponse" => Head(q) \in Responses(q)
         /\ Responses(<<>>) = {}
<1>1. ASSUME NEW x \in S, NEW m \in Responses(Append(q, x))
      PROVE  m \in Responses(q) \/ (m = x /\ x.type = "SessionCreateResponse")
  <2>1. PICK i \in 1..(Len(q) + 1) : m = Append(q, x)[i] /\ m.type = "SessionCreateResponse"
    BY SMTT(30), <1>1 DEF Responses
  <2>2. CASE i = Len(q) + 1
    BY SMTT(30), <2>1, <2>2
  <2>3. CASE i # Len(q) + 1
    <3>1. i \in DOMAIN q /\ m = q[i]
      BY SMTT(30), <2>1, <2>3
    <3> QED
      BY <2>1, <3>1 DEF Responses
  <2> QED
    BY <2>2, <2>3
<1>2. ASSUME q # <<>>, NEW m \in Responses(Tail(q)) PROVE m \in Responses(q)
  <2>1. PICK i \in DOMAIN Tail(q) : m = Tail(q)[i] /\ m.type = "SessionCreateResponse"
    BY <1>2 DEF Responses
  <2>2. i + 1 \in DOMAIN q /\ m = q[i + 1]
    BY SMTT(30), <1>2, <2>1
  <2> QED
    BY <2>1, <2>2 DEF Responses
<1>3. ASSUME q # <<>>, Head(q).type = "SessionCreateResponse" PROVE Head(q) \in Responses(q)
  <2>1. 1 \in DOMAIN q /\ Head(q) = q[1]
    BY SMTT(30), <1>3
  <2> QED
    BY <1>3, <2>1 DEF Responses
<1>4. Responses(<<>>) = {}
  BY SMT DEF Responses
<1> QED
  BY <1>1, <1>2, <1>3, <1>4

(* A create response names a plugin and an id.                             *)
LEMMA ResponseType ==
  ASSUME LinkInv, NEW m \in Responses(agent_tx) \cup Responses(host.queue) \cup Responses(inbox)
  PROVE  m.plugin \in Plugins /\ m.id \in Nat
<1>1. m \in MessagesOf(announced) /\ announced \subseteq Nat
  BY SMT DEF Responses, LinkInv, AgentInv, CommsInv, IsHost, QueueInv
<1> QED
  BY <1>1 DEF MessagesOf

(* Queues are only moved on: the one new response is that of the handler.  *)
Under == Responses(agent_tx) \cup Responses(host.queue) \cup Responses(inbox)

(* What the agent is told of a session comes from the create request under *)
(* way.                                                                    *)
LEMMA ResponsesStep ==
  ASSUME LinkInv, [Next]_vars, NEW m \in Under'
  PROVE  \/ m \in Under
         \/ creating.at # "none" /\ m.plugin = creating.plugin /\ m.id = creating.id
<1> USE DEF Under
<1>1. /\ agent_tx \in Seq(MessagesOf(announced)) /\ host.queue \in Seq(MessagesOf(announced))
      /\ inbox \in Seq(MessagesOf(announced)) /\ {"queue", "stop", "start_time"} \subseteq DOMAIN host
      /\ Responses(<<>>) = {}
  BY QueueResponses DEF LinkInv, AgentInv, CommsInv, IsHost, QueueInv
<1>2. \A st : GetOrInsert(st).queue \in {host.queue, <<>>}
              /\ {"queue", "stop", "start_time"} \subseteq DOMAIN GetOrInsert(st)
  BY <1>1 DEF GetOrInsert, NoHost
<1>3. CASE UNCHANGED agent_tx /\ host'.queue \in {host.queue, <<>>} /\ inbox' \in {inbox, <<>>}
  BY <1>1, <1>3
<1>4. ASSUME NEW p \in Plugins, CreateSession(p) \/ StartPoll(p) \/ Deadline(p) \/ Consume(p)
      PROVE  m \in Under
  BY <1>3, <1>4 DEF CreateSession, StartPoll, Deadline, Consume, commsVars, queueVars, agentVars
<1>5. ASSUME NEW t \in tasks,
             \/ TerminateSession(t) \/ Cancelled(t) \/ RunEnds(t) \/ RunFails(t) \/ Message(t)
             \/ OkReply(t) \/ PostFails(t)
      PROVE  m \in Under
  BY <1>3, <1>5 DEF TerminateSession, Cancelled, RunEnds, RunFails, Message, OkReply, PostFails,
                    commsVars, queueVars
<1>6. ASSUME NEW p \in Plugins, NEW s, NEW st, DataHandler(p, s, st), UNCHANGED inbox
      PROVE  m \in Under
  <2> DEFINE x == ManagerMessage("SessionTerminate", p, s)
  <2>1. host'.queue \in {host.queue, <<>>} /\ (agent_tx' = agent_tx \/ agent_tx' = Append(agent_tx, x))
    BY <1>2, <1>6 DEF DataHandler
  <2>2. x.type # "SessionCreateResponse"
    BY DEF ManagerMessage
  <2> HIDE DEF x
  <2>3. Responses(agent_tx') \subseteq Responses(agent_tx)
    <3>1. agent_tx \in Seq(MessagesOf(announced) \cup {x}) /\ x \in MessagesOf(announced) \cup {x}
      BY SMTT(30), <1>1
    <3>2. ASSUME NEW y \in Responses(Append(agent_tx, x)) PROVE y \in Responses(agent_tx)
      BY SMTT(30), <2>2, <3>1, <3>2, QueueResponses
    <3> QED
      BY <2>1, <3>2
  <2> QED
    BY <1>1, <1>6, <2>1, <2>3
<1>7. ASSUME NEW p \in Plugins, NEW n, NEW st, SessionCreateReqHandler(p, n, st), UNCHANGED inbox
      PROVE  m \in Under
  <2>1. host'.queue = GetOrInsert(st).queue
    BY <1>2, <1>7 DEF SessionCreateReqHandler
  <2> QED
    BY <1>2, <1>3, <1>7, <2>1 DEF SessionCreateReqHandler
<1>8. ASSUME NEW t \in tasks, ReceiveCreate(t) \/ ReceiveData(t) PROVE m \in Under
  <2>1. t.plugin \in Plugins
    BY DEF LinkInv, AgentInv, TasksInv, IsTask
  <2> QED
    BY <1>6, <1>7, <1>8, <2>1 DEF ReceiveCreate, ReceiveData
<1>9. ASSUME NEW x \in late, ReceiveLate(x) PROVE m \in Under
  <2>1. x.plugin \in Plugins
    BY DEF LinkInv, CommsInv, LateInv, IsLate
  <2> QED
    BY <1>6, <1>7, <1>9, <2>1 DEF ReceiveLate
<1>10. CASE PublishTerminate \/ PublishCreate \/ PublishFails
  BY <1>3, <1>10 DEF PublishTerminate, PublishCreate, PublishFails, agentVars, queueVars
<1>11. CASE PublishResponse
  <2> DEFINE x == ManagerMessage("SessionCreateResponse", creating.plugin, creating.id)
  <2>1. /\ creating.at # "none" /\ agent_tx' = Append(agent_tx, x) /\ UNCHANGED <<host, inbox>>
    BY <1>11 DEF PublishResponse
  <2>2. x.plugin = creating.plugin /\ x.id = creating.id
    BY DEF ManagerMessage
  <2>3. agent_tx \in Seq(MessagesOf(announced) \cup {x}) /\ x \in MessagesOf(announced) \cup {x}
    BY SMTT(30), <1>1
  <2> HIDE DEF x
  <2>4. \A y \in Responses(agent_tx') : y \in Responses(agent_tx) \/ y = x
    BY SMTT(30), <2>1, <2>3, QueueResponses
  <2> QED
    BY <2>1, <2>2, <2>4
<1>12. CASE GetBegin
  <2> DEFINE x == ManagerMessage("SessionTerminateAll", NotCreating.plugin, NoSession)
  <2>1. /\ UNCHANGED agent_tx /\ inbox' \in {<<x>>, <<>>} /\ host'.queue = GetOrInsert(start_time).queue
    BY <1>2, <1>12 DEF GetBegin, queueVars
  <2>2. Responses(<<x>>) = {}
    BY SMT DEF Responses, ManagerMessage
  <2> HIDE DEF x
  <2> QED
    BY <1>1, <1>2, <2>1, <2>2
<1>13. CASE GetDrain
  <2>1. PICK n \in 0..Len(host.queue) : \E kept \in [1..n -> Retained] :
          inbox' = [i \in 1..n |-> host.queue[kept[i]]]
    BY <1>13 DEF GetDrain
  <2>2. Responses(inbox') \subseteq Responses(host.queue)
    <3>1. PICK kept \in [1..n -> Retained] : inbox' = [i \in 1..n |-> host.queue[kept[i]]]
      BY <2>1
    <3>2. \A i \in 1..n : kept[i] \in DOMAIN host.queue
      BY DEF Retained
    <3> QED
      BY <3>1, <3>2 DEF Responses
  <2>3. UNCHANGED agent_tx /\ host'.queue = <<>>
    BY <1>1, <1>13 DEF GetDrain, queueVars
  <2> QED
    BY <1>1, <2>2, <2>3
<1>14. CASE GetTimeout \/ OrphanBegin \/ OrphanArm \/ OrphanFlush
  <2>1. UNCHANGED <<agent_tx, inbox>>
    BY <1>14 DEF GetTimeout, OrphanBegin, OrphanArm, OrphanFlush, agentVars, queueVars
  <2>2. host'.queue \in {host.queue, <<>>}
    <3>1. CASE GetTimeout \/ OrphanArm \/ OrphanFlush
      BY <1>1, <3>1 DEF GetTimeout, OrphanArm, OrphanFlush
    <3>2. CASE OrphanBegin
      BY <1>2, <3>2 DEF OrphanBegin
    <3> QED
      BY <1>14, <3>1, <3>2
  <2> QED
    BY <1>3, <2>1, <2>2
<1>15. CASE HandleDelivery
  <2>1. inbox # <<>> /\ inbox' = Tail(inbox) /\ UNCHANGED <<agent_tx, host>>
    BY <1>15 DEF HandleDelivery, commsVars, queueVars
  <2> QED
    BY <1>1, <2>1, QueueResponses
<1>16. CASE GetFails \/ AgentRestart
  <2>1. UNCHANGED agent_tx /\ inbox' = <<>> /\ host'.queue \in {host.queue, <<>>}
    BY <1>1, <1>16 DEF GetFails, AgentRestart, Abandon, queueVars
  <2> QED
    BY <1>3, <2>1
<1>17. CASE Feed
  <2>1. /\ agent_tx # <<>> /\ agent_tx' = Tail(agent_tx) /\ UNCHANGED inbox
        /\ \/ UNCHANGED host
           \/ host'.queue = Append(host.queue, Head(agent_tx))
    BY <1>1, <1>17 DEF Feed, agentVars
  <2>2. Head(agent_tx) \in MessagesOf(announced)
    BY SMTT(30), <1>1, <2>1
  <2>3. Responses(agent_tx') \subseteq Responses(agent_tx)
    BY <1>1, <2>1, QueueResponses
  <2>4. Responses(host'.queue) \subseteq Responses(host.queue) \cup Responses(agent_tx)
    <3>1. Head(agent_tx).type = "SessionCreateResponse" => Head(agent_tx) \in Responses(agent_tx)
      BY <1>1, <2>1, QueueResponses
    <3>2. ASSUME NEW y \in Responses(Append(host.queue, Head(agent_tx)))
          PROVE  y \in Responses(host.queue) \cup Responses(agent_tx)
      BY SMTT(30), <1>1, <2>2, <3>1, <3>2, QueueResponses
    <3> QED
      BY <2>1, <3>2
  <2> QED
    BY <2>1, <2>3, <2>4
<1>18. CASE CommsRestart
  <2>1. UNCHANGED <<agent_tx, inbox>> /\ host'.queue = <<>>
    BY <1>18 DEF CommsRestart, queueVars, NoHost
  <2> QED
    BY <1>3, <2>1
<1>19. ASSUME NEW p \in Plugins, SendDown(p) PROVE m \in Under
  <2> DEFINE x == ManagerMessage("Data", p, held[p])
  <2>1. agent_tx' = Append(agent_tx, x) /\ UNCHANGED <<host, inbox>> /\ x.type # "SessionCreateResponse"
    BY <1>19 DEF SendDown, agentVars, commsVars, ManagerMessage
  <2>2. agent_tx \in Seq(MessagesOf(announced) \cup {x}) /\ x \in MessagesOf(announced) \cup {x}
    BY SMTT(30), <1>1
  <2> HIDE DEF x
  <2>3. Responses(agent_tx') \subseteq Responses(agent_tx)
    BY SMTT(30), <2>1, <2>2, QueueResponses
  <2> QED
    BY <2>1, <2>3
<1>20. CASE UNCHANGED vars
  BY <1>3, <1>20 DEF vars
<1> QED
  BY <1>4, <1>5, <1>8, <1>9, <1>10, <1>11, <1>12, <1>13, <1>14, <1>15, <1>16, <1>17, <1>18, <1>19,
     <1>20 DEF Next

(* A create request under way was issued, and its id made current, at once.*)
LEMMA CreatingStep ==
  ASSUME LinkInv, [Next]_vars, creating'.at # "none"
  PROVE  \/ creating.at # "none" /\ creating'.plugin = creating.plugin /\ creating'.id = creating.id
         \/ \E p \in Plugins : /\ creating'.plugin = p /\ creating'.id = issued' /\ issued' \in Nat
                               /\ host'.sessions[p] = issued'
<1>1. CASE UNCHANGED creating
  BY <1>1
<1>2. ASSUME NEW p \in Plugins, NEW n, NEW st, SessionCreateReqHandler(p, n, st)
      PROVE  /\ creating'.plugin = p /\ creating'.id = issued' /\ issued' \in Nat
             /\ host'.sessions[p] = issued'
  <2>1. creating'.plugin = p /\ creating'.id = issued' /\ issued' = issued + 1 /\ issued \in Nat
    BY <1>2 DEF SessionCreateReqHandler, LinkInv, QueueInv
  <2>2. {"sessions"} \subseteq DOMAIN GetOrInsert(st) /\ DOMAIN GetOrInsert(st).sessions = Plugins
    BY DEF GetOrInsert, NoHost, LinkInv, CommsInv, IsHost
  <2>3. host' = [GetOrInsert(st) EXCEPT !.sessions[p] = issued']
    BY <1>2 DEF SessionCreateReqHandler
  <2> QED
    BY SMTT(30), <2>1, <2>2, <2>3
<1>3. ASSUME NEW t \in tasks, ReceiveCreate(t)
      PROVE  \E p \in Plugins : /\ creating'.plugin = p /\ creating'.id = issued' /\ issued' \in Nat
                                /\ host'.sessions[p] = issued'
  <2>1. t.plugin \in Plugins
    BY DEF LinkInv, AgentInv, TasksInv, IsTask
  <2> QED
    BY <1>2, <1>3, <2>1 DEF ReceiveCreate
<1>4. ASSUME NEW m \in late, ReceiveLate(m)
      PROVE  \/ UNCHANGED creating
             \/ \E p \in Plugins : /\ creating'.plugin = p /\ creating'.id = issued' /\ issued' \in Nat
                                   /\ host'.sessions[p] = issued'
  <2>1. m.plugin \in Plugins
    BY DEF LinkInv, CommsInv, LateInv, IsLate
  <2>2. CASE m.kind = "create"
    BY <1>2, <1>4, <2>1, <2>2 DEF ReceiveLate
  <2>3. CASE m.kind # "create"
    BY <1>4, <2>3 DEF ReceiveLate, DataHandler
  <2> QED
    BY <2>2, <2>3
<1>5. CASE PublishTerminate \/ PublishCreate \/ AgentRestart
  <2>1. /\ creating'.plugin = creating.plugin /\ creating'.id = creating.id
        /\ creating.at = "none" => creating'.at = "none"
    BY <1>5 DEF PublishTerminate, PublishCreate, AgentRestart, LinkInv, CommsInv, CreatingInv
  <2> QED
    BY <2>1
<1>6. CASE PublishResponse \/ PublishFails \/ CommsRestart
  BY <1>6, NotCreatingType DEF PublishResponse, PublishFails, CommsRestart
<1>7. ASSUME NEW p \in Plugins,
             CreateSession(p) \/ StartPoll(p) \/ Deadline(p) \/ Consume(p) \/ SendDown(p)
      PROVE  UNCHANGED creating
  BY <1>7 DEF CreateSession, StartPoll, Deadline, Consume, SendDown, commsVars
<1>8. ASSUME NEW t \in tasks,
             \/ TerminateSession(t) \/ Cancelled(t) \/ RunEnds(t) \/ RunFails(t) \/ Message(t)
             \/ OkReply(t) \/ PostFails(t) \/ ReceiveData(t)
      PROVE  UNCHANGED creating
  BY <1>8 DEF TerminateSession, Cancelled, RunEnds, RunFails, Message, OkReply, PostFails, ReceiveData,
              DataHandler, commsVars
<1>9. CASE \/ GetBegin \/ GetDrain \/ GetTimeout \/ HandleDelivery \/ GetFails
           \/ OrphanBegin \/ OrphanArm \/ OrphanFlush \/ Feed \/ UNCHANGED vars
  BY <1>9 DEF GetBegin, GetDrain, GetTimeout, HandleDelivery, GetFails, OrphanBegin, OrphanArm,
              OrphanFlush, Feed, vars, commsVars
<1> QED
  BY <1>1, <1>3, <1>4, <1>5, <1>6, <1>7, <1>8, <1>9 DEF Next

(* No step lets the agent enter a session the manager has not announced.   *)
LEMMA OrderStep == LinkInv /\ CallInv /\ OrderInv /\ [Next]_vars => OrderInv'
<1> SUFFICES ASSUME LinkInv, CallInv, OrderInv, [Next]_vars PROVE OrderInv'
  OBVIOUS
<1>1. \A p \in Plugins, s \in Nat : Known(p, s) => Known(p, s)'
  BY KnownStays
<1>2. creating.plugin \in Plugins /\ creating.id \in Nat
  BY DEF LinkInv, CommsInv, CreatingInv
<1>3. ASSUME NEW p \in Plugins, state'[p].kind = "Active" PROVE Known(p, state[p].id)'
  <2>1. \/ state[p].kind = "Active" /\ state'[p].id = state[p].id
        \/ NewSession /\ Head(inbox).plugin = p /\ state'[p].id = Head(inbox).id
    <3>1. CASE OnlyEnds
      BY <1>3, <3>1 DEF OnlyEnds
    <3>2. ASSUME NEW q \in Plugins, StartPoll(q)
          PROVE  state[p].kind = "Active" /\ state'[p].id = state[p].id
      BY <1>3, <3>2 DEF StartPoll, LinkInv, AgentInv, StatesInv
    <3>3. CASE NewSession
      BY <1>3, <3>3, NewSessionStep DEF LinkInv, AgentInv, StatesInv
    <3> QED
      BY <3>1, <3>2, <3>3, AgentEnds
  <2>2. PICK s \in Nat : s = state'[p].id /\ Known(p, s)
    <3>1. CASE state[p].kind = "Active" /\ state'[p].id = state[p].id
      <4>1. state[p].id \in Nat
        BY <3>1 DEF LinkInv, AgentInv, StatesInv, QueueInv
      <4> QED
        BY <3>1, <4>1 DEF OrderInv
    <3>2. CASE NewSession /\ Head(inbox).plugin = p /\ state'[p].id = Head(inbox).id
      <4>1. Head(inbox) \in Responses(inbox)
        BY <3>2, NewSessionStep
      <4> QED
        BY <3>2, <4>1, ResponseType DEF OrderInv, ResponsesInv
    <3> QED
      BY <2>1, <3>1, <3>2
  <2> QED
    BY <1>1, <2>2 DEF Known
<1>4. ResponsesInv'
  <2> SUFFICES ASSUME NEW m \in Under' PROVE Known(m.plugin, m.id)'
    BY DEF ResponsesInv, Under
  <2>1. m.plugin \in Plugins /\ m.id \in Nat /\ Known(m.plugin, m.id)
    <3>1. CASE m \in Under
      BY <3>1, ResponseType DEF Under, OrderInv, ResponsesInv
    <3>2. CASE creating.at # "none" /\ m.plugin = creating.plugin /\ m.id = creating.id
      BY <1>2, <3>2 DEF OrderInv
    <3> QED
      BY <3>1, <3>2, ResponsesStep
  <2> QED
    BY <1>1, <2>1
<1>5. ASSUME creating'.at # "none" PROVE Known(creating.plugin, creating.id)'
  <2>1. CASE creating.at # "none" /\ creating'.plugin = creating.plugin /\ creating'.id = creating.id
    <3>1. Known(creating.plugin, creating.id)
      BY <2>1 DEF OrderInv
    <3>2. PICK p \in Plugins, s \in Nat : p = creating.plugin /\ s = creating.id
      BY <1>2
    <3>3. Known(p, s)'
      BY <1>1, <3>1, <3>2
    <3> QED
      BY <2>1, <3>2, <3>3 DEF Known
  <2>2. ASSUME NEW p \in Plugins, creating'.plugin = p, creating'.id = issued', issued' \in Nat,
               host'.sessions[p] = issued'
        PROVE  Known(creating.plugin, creating.id)'
    BY SMTT(30), <2>2 DEF Known
  <2> QED
    BY <1>5, <2>1, <2>2, CreatingStep
<1> QED
  BY <1>3, <1>4, <1>5 DEF OrderInv

(***************************************************************************)
(* For any plugins and any number of faults, requests and messages, the    *)
(* agent's view of a session never runs ahead of the manager's.            *)
(***************************************************************************)
THEOREM AgentIsNotAhead == Spec => []ActiveWasAnnounced
<1>1. Init => CallInv /\ OrderInv
  <2> SUFFICES ASSUME Init PROVE CallInv /\ OrderInv
    OBVIOUS
  <2>1. DOMAIN <<>> = {}
    BY SMT
  <2>2. CallInv
    BY DEF Init, CallInv, Calls
  <2>3. ResponsesInv
    BY <2>1 DEF Init, ResponsesInv, Responses, NoHost
  <2>4. \A p \in Plugins : state[p].kind # "Active"
    BY DEF Init, Empty, State
  <2>5. creating.at = "none"
    BY NotCreatingType DEF Init
  <2> QED
    BY <2>2, <2>3, <2>4, <2>5 DEF OrderInv
<1>2. LinkInv /\ OrderInv => ActiveWasAnnounced
  BY DEF LinkInv, AgentInv, StatesInv, OrderInv, Known, ActiveWasAnnounced
<1> QED
  BY <1>1, <1>2, InitLinkInv, NextLinkInv, CallStep, OrderStep, PTL DEF Spec

-----------------------------------------------------------------------------
(* Types: the numbers of tasks, and the create request being handled.      *)

Ats == {"new", "run", "post", "handling", "acked", "term"}

(* A task of the agent, when ids up to i are issued and the comms process  *)
(* is at c.                                                                *)
TaskOK(t, i, c) ==
  /\ {"at", "id", "n", "kind"} \subseteq DOMAIN t
  /\ t.kind \in Kinds /\ t.at \in Ats /\ t.id \in 0..i /\ t.n \in Nat \ {0}
  /\ t.at = "handling" => t.kind = "create" /\ c.at # "none" /\ t.n = c.n

(* No two tasks have the same number.                                      *)
Numbered(ts) == IsFiniteSet(ts) /\ \A t, u \in ts : t.n = u.n => t = u
AllOK(ts, i, c) == Numbered(ts) /\ \A t \in ts : TaskOK(t, i, c)

StateType(i) == [kind : {"Empty", "Pending", "Active"}, id : 0..i, in_flight : BOOLEAN]
ControlInv ==
  /\ start_time \in Nat /\ get \in BOOLEAN
  /\ host.stop \in {"none", "get", "orphan"}
  /\ orphan = [at |-> orphan.at, start_time |-> orphan.start_time]
  /\ orphan.at \in {"none", "sent", "arm", "flush"}
  /\ creating.at \in {"none", "terminate", "create", "response"}
IdInv == announced \subseteq 0..issued /\ creating.id \in 0..issued
TypeInv ==
  /\ state \in [Plugins -> StateType(issued)]
  /\ AllOK(tasks, issued, creating)
  /\ ControlInv /\ IdInv

(* A set of naturals has a smallest element.                               *)
LEMMA MinExists ==
  ASSUME NEW S \in SUBSET Nat, S # {}
  PROVE  Min(S) \in S
<1>1. PICK d \in S : \A e \in S : ~(<<e, d>> \in OpToRel(<, Nat))
  BY NatLessThanWellFounded, WFMin
<1>2. \A e \in S : d <= e
  <2> SUFFICES ASSUME NEW e \in S, ~(d <= e) PROVE FALSE
    OBVIOUS
  <2>1. e \in Nat /\ d \in Nat
    OBVIOUS
  <2>2. e < d
    BY SMT, <2>1
  <2>3. <<e, d>> \in OpToRel(<, Nat)
    BY <2>1, <2>2 DEF OpToRel
  <2> QED
    BY <1>1, <2>3
<1> QED
  BY <1>1, <1>2 DEF Min

(* There is a number that no task has: among n + 1 numbers, two would be   *)
(* of the same of n tasks.                                                 *)
LEMMA FreshNumber ==
  ASSUME IsFiniteSet(tasks), NEW p, NEW k, NEW s, NEW a
  PROVE  Task(p, k, s, a).n \in Nat \ {0} /\ \A t \in tasks : t.n # Task(p, k, s, a).n
<1> DEFINE C == Cardinality(tasks)
           N == {t.n : t \in tasks}
           S == 1..(C + 1) \ N
<1>1. C \in Nat
  BY FS_CardinalityType
<1> HIDE DEF C
<1>2. /\ IsFiniteSet(1..(C + 1)) /\ C < Cardinality(1..(C + 1))
  <2>1. 1 \in Int /\ C + 1 \in Int /\ ~(1 > C + 1) /\ C < (C + 1) - 1 + 1
    BY SMT, <1>1
  <2> QED
    BY <2>1, FS_Interval
<1>3. S # {}
  <2> SUFFICES ASSUME S = {} PROVE FALSE
    OBVIOUS
  <2> DEFINE f == [i \in 1..(C + 1) |-> CHOOSE t \in tasks : t.n = i]
  <2>1. \A i \in 1..(C + 1) : f[i] \in tasks /\ f[i].n = i
    OBVIOUS
  <2>2. f \in [1..(C + 1) -> tasks]
    BY <2>1
  <2> HIDE DEF f
  <2> DEFINE T == 1..(C + 1)
  <2>3. IsFiniteSet(T) /\ Cardinality(tasks) < Cardinality(T) /\ f \in [T -> tasks]
    <3>1. Cardinality(T) \in Nat
      BY <1>2, FS_CardinalityType
    <3> QED
      BY SMT, <1>1, <1>2, <2>2, <3>1 DEF C
  <2> HIDE DEF T
  <2>4. \E i, j \in T : i # j /\ f[i] = f[j]
    BY SMT, <2>3, FS_PigeonHole
  <2> QED
    BY <2>1, <2>4 DEF T
<1>4. S \in SUBSET (Nat \ {0})
  BY SMT, <1>1
<1>5. Min(S) \in S
  <2> HIDE DEF S
  <2> QED
    BY <1>3, <1>4, MinExists
<1>6. Task(p, k, s, a).n = Min(S)
  BY DEF Task, C
<1> QED
  BY <1>4, <1>5, <1>6

(* Fewer tasks are tasks.                                                  *)
LEMMA FewerTasks ==
  ASSUME NEW ts, NEW i, NEW c, AllOK(ts, i, c), NEW us \in SUBSET ts
  PROVE  AllOK(us, i, c)
BY FS_Subset DEF AllOK, Numbered

(* Tasks changed without their numbers have different ones still.          *)
LEMMA ChangedNumbered ==
  ASSUME NEW ts, Numbered(ts), NEW us, NEW f \in [ts -> us], \A t \in ts : f[t].n = t.n,
         \A u \in us : \E t \in ts : f[t] = u
  PROVE  Numbered(us)
<1>1. ASSUME NEW x \in us, NEW y \in us, x.n = y.n PROVE x = y
  <2>1. PICK t \in ts : f[t] = x
    OBVIOUS
  <2>2. PICK u \in ts : f[u] = y
    OBVIOUS
  <2>3. t.n = u.n
    BY <1>1, <2>1, <2>2
  <2> QED
    BY <2>1, <2>2, <2>3 DEF Numbered
<1>2. f \in Surjection(ts, us)
  BY DEF Surjection
<1>3. IsFiniteSet(us)
  BY <1>2, FS_Surjection DEF Numbered
<1> QED
  BY <1>1, <1>3 DEF Numbered

(* So have tasks whose receivers are dropped.                              *)
LEMMA UnlinkedTasks ==
  ASSUME NEW ts, NEW i, NEW c, AllOK(ts, i, c), NEW ps
  PROVE  /\ AllOK(Unlink(ts, ps), i, c)
         /\ \A x \in Unlink(ts, ps) : \E t \in ts : x.n = t.n
         /\ \A x \in Unlink(ts, ps) : \E t \in ts : x.at = t.at
<1> DEFINE us == Unlink(ts, ps)
           f == [t \in ts |-> IF t.plugin \in ps THEN [t EXCEPT !.linked = FALSE] ELSE t]
<1>1. f \in [ts -> us] /\ \A u \in us : \E t \in ts : f[t] = u
  BY DEF Unlink
<1>2. ASSUME NEW t \in ts PROVE f[t].n = t.n /\ f[t].at = t.at /\ TaskOK(f[t], i, c)
  BY DEF AllOK, TaskOK
<1> HIDE DEF f, us
<1>3. Numbered(us)
  BY SMT, <1>1, <1>2, ChangedNumbered DEF AllOK
<1>4. ASSUME NEW u \in us PROVE TaskOK(u, i, c) /\ \E t \in ts : u.n = t.n /\ u.at = t.at
  <2>1. PICK t \in ts : f[t] = u
    BY <1>1
  <2> QED
    BY <1>2, <2>1
<1> QED
  BY <1>3, <1>4 DEF AllOK, us

(* So has a task in the place of another.                                  *)
LEMMA ReplacedTask ==
  ASSUME NEW ts, NEW i, NEW c, AllOK(ts, i, c), NEW t \in ts, NEW x, x.n = t.n, TaskOK(x, i, c)
  PROVE  AllOK((ts \ {t}) \cup {x}, i, c)
<1>1. IsFiniteSet((ts \ {t}) \cup {x})
  BY FS_RemoveElement, FS_AddElement DEF AllOK, Numbered
<1> QED
  BY <1>1 DEF AllOK, Numbered

(* A new task takes a number of its own.                                   *)
LEMMA AddedTask ==
  ASSUME NEW i, NEW c, AllOK(tasks, i, c), NEW us, AllOK(us, i, c),
         \A u \in us : \E t \in tasks : u.n = t.n,
         NEW p, NEW k \in Kinds, NEW s \in 0..i, NEW a \in Ats, a # "handling"
  PROVE  AllOK(us \cup {Task(p, k, s, a)}, i, c)
<1> DEFINE x == Task(p, k, s, a)
<1>1. x.n \in Nat \ {0} /\ \A t \in tasks : t.n # x.n
  <2>1. IsFiniteSet(tasks)
    BY DEF AllOK, Numbered
  <2> HIDE DEF x
  <2> QED
    BY SMT, <2>1, FreshNumber DEF x
<1>2. {"at", "id", "n", "kind"} \subseteq DOMAIN x /\ x.kind = k /\ x.at = a /\ x.id = s
  BY DEF Task
<1> HIDE DEF x
<1>3. TaskOK(x, i, c)
  BY <1>1, <1>2 DEF TaskOK
<1>4. IsFiniteSet(us \cup {x}) /\ \A u \in us : u.n # x.n
  BY <1>1, FS_AddElement DEF AllOK, Numbered
<1> QED
  BY <1>3, <1>4 DEF AllOK, Numbered, x

(* Other ids and another request, if no request is being handled.          *)
LEMMA OtherRequest ==
  ASSUME NEW ts, NEW i \in Nat, NEW c, AllOK(ts, i, c), NEW j \in Nat, i <= j, NEW d,
         \A t \in ts : t.at = "handling" => d.at # "none" /\ d.n = c.n
  PROVE  AllOK(ts, j, d)
<1>1. \A s \in 0..i : s \in 0..j
  BY SMT
<1> QED
  BY <1>1 DEF AllOK, TaskOK

-----------------------------------------------------------------------------
(* What the agent's steps leave behind is well typed, as far as they know. *)
Kept ==
  /\ state' \in [Plugins -> StateType(issued)]
  /\ AllOK(tasks', issued, creating)

(* The states a session can be given.                                      *)
LEMMA StatesTyped ==
  ASSUME LinkInv
  PROVE  /\ 0 \in 0..issued /\ NoSession = 0
         /\ Empty \in StateType(issued) /\ Pending \in StateType(issued)
         /\ \A s \in 0..issued : Active(s) \in StateType(issued)
<1>1. 0 \in 0..issued
  BY SMT DEF LinkInv, QueueInv
<1> QED
  BY <1>1 DEF Empty, Pending, Active, State, StateType, NoSession

(* Tasks end or are unlinked while sessions are left or lose their state.  *)
LEMMA EmptiedKept ==
  ASSUME LinkInv, TypeInv, NEW ts \in SUBSET tasks, NEW ps, tasks' = Unlink(ts, ps) \/ tasks' = ts,
         \/ UNCHANGED state \/ state' = [p \in Plugins |-> Empty]
         \/ \E p \in Plugins : state' = [state EXCEPT ![p] = Empty]
  PROVE  Kept
<1>1. AllOK(ts, issued, creating)
  BY FewerTasks DEF TypeInv
<1>2. AllOK(tasks', issued, creating)
  <2>1. AllOK(Unlink(ts, ps), issued, creating)
    BY <1>1, UnlinkedTasks
  <2> QED
    BY <1>1, <2>1
<1>3. state' \in [Plugins -> StateType(issued)]
  BY StatesTyped DEF TypeInv
<1> QED
  BY <1>2, <1>3 DEF Kept

(* reset_active.                                                           *)
LEMMA ResetKept ==
  ASSUME LinkInv, TypeInv, NEW ts \in SUBSET tasks, NEW p \in Plugins, ResetActive(p, ts)
  PROVE  Kept
<1>1. CASE state[p].kind = "Active"
  <2>1. state' = [state EXCEPT ![p].in_flight = FALSE] /\ tasks' = Unlink(ts, {p})
    BY <1>1 DEF ResetActive
  <2>2. state \in [Plugins -> StateType(issued)]
    BY DEF TypeInv
  <2>3. [state[p] EXCEPT !.in_flight = FALSE] \in StateType(issued)
    BY <2>2 DEF StateType
  <2>4. state' \in [Plugins -> StateType(issued)]
    BY <2>1, <2>2, <2>3
  <2>5. AllOK(tasks', issued, creating)
    BY <2>1, FewerTasks, UnlinkedTasks DEF TypeInv
  <2> QED
    BY <2>4, <2>5 DEF Kept
<1>2. CASE state[p].kind # "Active"
  BY <1>2, EmptiedKept DEF ResetActive
<1> QED
  BY <1>1, <1>2

(* A task is moved on, to anything but the handling of a create request.   *)
LEMMA MovedKept ==
  ASSUME LinkInv, TypeInv, NEW t \in tasks, NEW a \in Ats, a # "handling",
         tasks' = MoveTo(t, a), UNCHANGED state
  PROVE  Kept
<1>1. TaskOK(t, issued, creating)
  BY DEF TypeInv, AllOK
<1>2. [t EXCEPT !.at = a].n = t.n /\ TaskOK([t EXCEPT !.at = a], issued, creating)
  BY <1>1 DEF TaskOK
<1>3. AllOK(tasks', issued, creating)
  BY <1>2, ReplacedTask DEF MoveTo, TypeInv
<1> QED
  BY <1>3 DEF Kept, TypeInv

(* A task settles.                                                         *)
LEMMA SettleKept ==
  ASSUME LinkInv, TypeInv, NEW t \in tasks, SettleOk(t) \/ SettleErr(t)
  PROVE  Kept
<1>1. t.plugin \in Plugins /\ t.kind \in Kinds
  BY DEF LinkInv, AgentInv, TasksInv, IsTask
<1>2. CASE SettleOk(t)
  <2>1. CASE t.kind = "poll"
    BY <1>1, <1>2, <2>1, ResetKept DEF SettleOk
  <2>2. CASE t.kind # "poll"
    BY <1>2, <2>2, EmptiedKept DEF SettleOk
  <2> QED
    BY <2>1, <2>2
<1>3. CASE SettleErr(t)
  <2>1. CASE t.kind = "create"
    BY <1>1, <1>3, <2>1, EmptiedKept DEF SettleErr
  <2>2. CASE t.kind # "create"
    <3>1. UNCHANGED state /\ (tasks' = tasks \ {t} \/ tasks' = MoveTo(t, "term"))
      BY <1>3, <2>2 DEF SettleErr
    <3> QED
      BY <3>1, EmptiedKept, MovedKept DEF Ats
  <2> QED
    BY <2>1, <2>2
<1> QED
  BY <1>2, <1>3

(* The request being handled fails, and is being handled no more.          *)
LEMMA CreatingFailsKept ==
  ASSUME LinkInv, TypeInv, CreatingFails
  PROVE  Kept /\ \A x \in tasks' : x.at # "handling"
<1>1. \A u \in tasks : u.at = "handling" => u.kind = "create" /\ u.n = creating.n
  BY DEF TypeInv, AllOK, TaskOK
<1>2. CASE \E t \in tasks : t.n = creating.n
  <2> DEFINE t == CHOOSE t \in tasks : t.n = creating.n
  <2>1. t \in tasks /\ t.n = creating.n /\ SettleErr(t)
    BY <1>2 DEF CreatingFails
  <2> HIDE DEF t
  <2>2. \A u \in tasks \ {t} : u.at # "handling"
    BY <1>1, <2>1 DEF TypeInv, AllOK, Numbered
  <2>3. CASE t.kind = "create"
    <3>1. tasks' = Unlink(tasks \ {t}, {t.plugin})
      BY <2>1, <2>3 DEF SettleErr
    <3>2. AllOK(tasks \ {t}, issued, creating)
      BY FewerTasks DEF TypeInv
    <3>3. \A x \in tasks' : \E u \in tasks \ {t} : x.at = u.at
      BY <3>1, <3>2, UnlinkedTasks
    <3> QED
      BY <2>1, <2>2, <3>3, SettleKept
  <2>4. CASE t.kind # "create"
    <3>1. tasks' = tasks \ {t} \/ tasks' = MoveTo(t, "term")
      BY <2>1, <2>4 DEF SettleErr
    <3>2. [t EXCEPT !.at = "term"].at = "term"
      BY <2>1 DEF TypeInv, AllOK, TaskOK
    <3> QED
      BY <2>1, <2>2, <3>1, <3>2, SettleKept DEF MoveTo
  <2> QED
    BY <2>3, <2>4
<1>3. CASE ~\E t \in tasks : t.n = creating.n
  <2>1. UNCHANGED <<state, tasks>>
    BY <1>3 DEF CreatingFails
  <2> QED
    BY <1>1, <1>3, <2>1 DEF Kept, TypeInv
<1> QED
  BY <1>2, <1>3

(* The agent handles a message: nothing of it begins as a create request   *)
(* that is being handled.                                                  *)
LEMMA DeliveryKept == ASSUME LinkInv, TypeInv, HandleDelivery PROVE Kept
<1> DEFINE m == Head(inbox)
<1>1. m \in MessagesOf(announced)
  BY SMT DEF LinkInv, AgentInv, HandleDelivery
<1>2. /\ m.plugin \in Plugins /\ announced \subseteq 0..issued
      /\ m.type = "SessionCreateResponse" => m.id \in announced
      /\ m.type \in {"SessionCreateResponse", "Data", "SessionTerminate", "SessionTerminateAll"}
  BY <1>1 DEF MessagesOf, TypeInv, IdInv
<1>3. state \in [Plugins -> StateType(issued)] /\ AllOK(tasks, issued, creating)
  BY DEF TypeInv
<1> HIDE DEF m
<1>4. CASE m.type = "SessionCreateResponse"
  <2>1. /\ state' = [state EXCEPT ![m.plugin] = Active(m.id)]
        /\ tasks' = Unlink(tasks, {m.plugin}) \cup {Task(m.plugin, "start", m.id, "run")}
    BY <1>4 DEF HandleDelivery, m
  <2>2. m.id \in 0..issued
    BY <1>2, <1>4
  <2>3. /\ AllOK(Unlink(tasks, {m.plugin}), issued, creating)
        /\ \A u \in Unlink(tasks, {m.plugin}) : \E t \in tasks : u.n = t.n
    BY <1>3, UnlinkedTasks
  <2>4. AllOK(tasks', issued, creating)
    BY <1>3, <2>1, <2>2, <2>3, AddedTask DEF Ats, Kinds
  <2>5. state' \in [Plugins -> StateType(issued)]
    BY <1>3, <2>1, <2>2, StatesTyped
  <2> QED
    BY <2>4, <2>5 DEF Kept
<1>5. CASE m.type = "Data"
  <2>1. state' = state /\ tasks' = tasks \cup {Task(m.plugin, "message", NoSession, "new")}
    BY <1>5 DEF HandleDelivery, m
  <2>2. AllOK(tasks', issued, creating)
    BY <1>3, <2>1, StatesTyped, AddedTask DEF Ats, Kinds
  <2> QED
    BY <1>3, <2>1, <2>2 DEF Kept
<1>6. CASE m.type = "SessionTerminate"
  <2>1. /\ state' = [state EXCEPT ![m.plugin] = IF @.id = m.id THEN Empty ELSE @]
        /\ tasks' = IF state[m.plugin].id = m.id THEN Unlink(tasks, {m.plugin}) ELSE tasks
    BY <1>6 DEF HandleDelivery, m
  <2>2. AllOK(tasks', issued, creating)
    BY <1>3, <2>1, UnlinkedTasks
  <2>3. state' \in [Plugins -> StateType(issued)]
    BY <1>3, <2>1, StatesTyped
  <2> QED
    BY <2>2, <2>3 DEF Kept
<1>7. CASE m.type = "SessionTerminateAll"
  BY <1>7, EmptiedKept DEF HandleDelivery, m
<1> QED
  BY <1>2, <1>4, <1>5, <1>6, <1>7

(* The steps of the agent's poller.                                        *)
LEMMA PollerKept ==
  ASSUME LinkInv, TypeInv, NEW p \in Plugins, CreateSession(p) \/ StartPoll(p) \/ Deadline(p)
  PROVE  Kept
<1>1. state \in [Plugins -> StateType(issued)] /\ AllOK(tasks, issued, creating)
  BY DEF TypeInv
<1>2. CASE CreateSession(p)
  <2>1. AllOK(tasks \cup {Task(p, "create", NoSession, "post")}, issued, creating)
    BY <1>1, StatesTyped, AddedTask DEF Ats, Kinds
  <2> QED
    BY <1>1, <1>2, <2>1, StatesTyped DEF CreateSession, Kept
<1>3. CASE StartPoll(p)
  <2>1. state[p].id \in 0..issued /\ [state[p] EXCEPT !.in_flight = TRUE] \in StateType(issued)
    BY <1>1 DEF StateType
  <2>2. AllOK(tasks \cup {Task(p, "poll", state[p].id, "run")}, issued, creating)
    BY <1>1, <2>1, AddedTask DEF Ats, Kinds
  <2> QED
    BY <1>1, <1>3, <2>1, <2>2 DEF StartPoll, Kept
<1>4. CASE Deadline(p)
  BY <1>4, ResetKept DEF Deadline
<1> QED
  BY <1>2, <1>3, <1>4

(* The steps of the agent's tasks.                                         *)
LEMMA TaskKept ==
  ASSUME LinkInv, TypeInv, NEW t \in tasks,
         \/ TerminateSession(t) \/ Cancelled(t) \/ RunEnds(t) \/ RunFails(t) \/ Message(t)
         \/ OkReply(t) \/ PostFails(t) \/ ReceiveData(t)
  PROVE  Kept
<1>1. t.plugin \in Plugins /\ TaskOK(t, issued, creating) /\ AllOK(tasks, issued, creating)
  BY DEF LinkInv, AgentInv, TasksInv, IsTask, TypeInv, AllOK
<1>2. CASE TerminateSession(t)
  BY <1>1, <1>2, EmptiedKept DEF TerminateSession
<1>3. CASE Cancelled(t) \/ RunEnds(t) \/ RunFails(t) \/ OkReply(t) \/ PostFails(t) \/ ReceiveData(t)
  <2>1. \/ SettleOk(t) \/ SettleErr(t)
        \/ UNCHANGED state /\ tasks' = MoveTo(t, "post")
    BY <1>3 DEF Cancelled, RunEnds, RunFails, OkReply, PostFails, ReceiveData
  <2> QED
    BY <2>1, SettleKept, MovedKept DEF Ats
<1>4. CASE Message(t)
  <2> DEFINE x == [t EXCEPT !.at = "post", !.id = state[t.plugin].id]
  <2>1. UNCHANGED state /\ (tasks' = tasks \ {t} \/ tasks' = (tasks \ {t}) \cup {x})
    BY <1>4 DEF Message
  <2>2. state[t.plugin].id \in 0..issued
    BY <1>1 DEF TypeInv, StateType
  <2>3. x.n = t.n /\ TaskOK(x, issued, creating)
    BY <1>1, <2>2 DEF TaskOK, Ats
  <2> HIDE DEF x
  <2>4. CASE tasks' = (tasks \ {t}) \cup {x}
    <3>1. AllOK(tasks', issued, creating)
      BY <1>1, <2>3, <2>4, ReplacedTask
    <3> QED
      BY <2>1, <3>1 DEF Kept, TypeInv
  <2> QED
    BY <2>1, <2>4, EmptiedKept
<1> QED
  BY <1>2, <1>3, <1>4

-----------------------------------------------------------------------------
(* The request the comms process handles is the same one as before, or no  *)
(* task waits for it.                                                      *)
Carried ==
  \/ creating'.n = creating.n /\ (creating.at # "none" => creating'.at # "none")
  \/ \A t \in tasks' : t.at # "handling"

(* The agent's part of TypeInv.                                            *)
AgentTyped == state \in [Plugins -> StateType(issued)] /\ AllOK(tasks, issued, creating)

(* Then what the agent's steps kept is well typed after them.              *)
LEMMA KeptIsTyped ==
  ASSUME LinkInv, Kept, Carried, issued' \in {issued, issued + 1}
  PROVE  AgentTyped'
<1>1. issued \in Nat /\ issued' \in Nat /\ issued <= issued'
  BY SMT DEF LinkInv, QueueInv
<1>2. \A s \in 0..issued : s \in 0..issued'
  BY SMT, <1>1
<1>3. \A x \in StateType(issued) : x \in StateType(issued')
  BY <1>2 DEF StateType
<1>4. state' \in [Plugins -> StateType(issued')]
  <2>1. state' \in [Plugins -> StateType(issued)]
    BY DEF Kept
  <2> QED
    BY <1>3, <2>1
<1>5. AllOK(tasks', issued', creating')
  <2>1. \A t \in tasks' : t.at = "handling" => creating'.at # "none" /\ creating'.n = creating.n
    BY DEF Carried, Kept, AllOK, TaskOK
  <2> QED
    BY <1>1, <2>1, OtherRequest DEF Kept
<1> QED
  BY <1>4, <1>5 DEF AgentTyped, StateType, AllOK, TaskOK

(* A create request is handled: it is the only one.                        *)
LEMMA CreateTyped ==
  ASSUME LinkInv, TypeInv, NEW t \in tasks, ReceiveCreate(t)
  PROVE  AgentTyped'
<1>1. /\ t.at = "post" /\ t.kind = "create" /\ creating.at = "none"
      /\ creating'.n = t.n /\ creating'.at # "none" /\ issued' = issued + 1
      /\ tasks' = MoveTo(t, "handling") /\ UNCHANGED state
  BY DEF ReceiveCreate, SessionCreateReqHandler
<1>2. \A u \in tasks : u.at # "handling"
  BY <1>1 DEF TypeInv, AllOK, TaskOK
<1>3. issued \in Nat /\ issued' \in Nat /\ issued <= issued'
  BY SMT, <1>1 DEF LinkInv, QueueInv
<1>4. AllOK(tasks, issued', creating')
  BY <1>2, <1>3, OtherRequest DEF TypeInv
<1>5. TaskOK(t, issued', creating')
  BY <1>4 DEF AllOK
<1>6. LET x == [t EXCEPT !.at = "handling"] IN x.n = t.n /\ TaskOK(x, issued', creating')
  BY <1>1, <1>5 DEF TaskOK, Ats
<1>7. AllOK(tasks', issued', creating')
  BY <1>1, <1>4, <1>6, ReplacedTask DEF MoveTo
<1>8. \A s \in 0..issued : s \in 0..issued'
  BY SMT, <1>3
<1>9. state' \in [Plugins -> StateType(issued')]
  <2>1. \A x \in StateType(issued) : x \in StateType(issued')
    BY <1>8 DEF StateType
  <2> QED
    BY <1>1, <2>1 DEF TypeInv
<1> QED
  BY <1>7, <1>9 DEF AgentTyped, StateType, AllOK, TaskOK

(* It is answered: the agent has its reply.                                *)
LEMMA ResponseTyped == ASSUME LinkInv, TypeInv, PublishResponse PROVE AgentTyped'
<1> DEFINE f == [t \in tasks |-> IF t.n = creating.n THEN [t EXCEPT !.at = "acked"] ELSE t]
<1>1. UNCHANGED <<state, issued>> /\ tasks' = {f[t] : t \in tasks}
  BY DEF PublishResponse, historyVars
<1>2. f \in [tasks -> tasks'] /\ \A u \in tasks' : \E t \in tasks : f[t] = u
  BY <1>1
<1>3. ASSUME NEW t \in tasks
      PROVE  f[t].n = t.n /\ f[t].at # "handling" /\ TaskOK(f[t], issued, creating)
  <2>1. TaskOK(t, issued, creating)
    BY DEF TypeInv, AllOK
  <2>2. CASE t.n = creating.n
    BY <2>1, <2>2 DEF TaskOK, Ats
  <2>3. CASE t.n # creating.n
    BY <2>1, <2>3 DEF TaskOK
  <2> QED
    BY <2>2, <2>3
<1> HIDE DEF f
<1>4. Numbered(tasks')
  BY SMT, <1>2, <1>3, ChangedNumbered DEF TypeInv, AllOK
<1>5. ASSUME NEW u \in tasks' PROVE u.at # "handling" /\ TaskOK(u, issued, creating)
  <2>1. PICK t \in tasks : f[t] = u
    BY <1>2
  <2> QED
    BY <1>3, <2>1
<1>6. Kept /\ Carried
  BY <1>1, <1>4, <1>5 DEF Kept, Carried, AllOK, TypeInv
<1> QED
  BY <1>1, <1>6, KeptIsTyped

(* A restart of the comms process fails the request it was handling.       *)
LEMMA RestartTyped == ASSUME LinkInv, TypeInv, PublishFails \/ CommsRestart PROVE AgentTyped'
<1>1. UNCHANGED issued
  BY DEF PublishFails, CommsRestart
<1>2. CASE CreatingFails
  BY <1>1, <1>2, CreatingFailsKept, KeptIsTyped DEF Carried
<1>3. CASE ~CreatingFails
  <2> DEFINE ts == {t \in tasks : t.at # "handling"}
  <2>1. state' = [p \in Plugins |-> Empty] /\ tasks' = Unlink(ts, Plugins)
    BY <1>3 DEF PublishFails, CommsRestart
  <2>2. ts \in SUBSET tasks /\ \A t \in ts : t.at # "handling"
    OBVIOUS
  <2> HIDE DEF ts
  <2>3. Kept
    BY <2>1, <2>2, EmptiedKept
  <2>4. AllOK(ts, issued, creating)
    BY <2>2, FewerTasks DEF TypeInv
  <2>5. \A x \in tasks' : \E t \in ts : x.at = t.at
    BY <2>1, <2>4, UnlinkedTasks
  <2>6. Carried
    BY <2>2, <2>5 DEF Carried
  <2> QED
    BY <1>1, <2>3, <2>6, KeptIsTyped
<1> QED
  BY <1>2, <1>3

(* A late request finds none being handled.                                *)
LEMMA LateTyped == ASSUME LinkInv, TypeInv, NEW m \in late, ReceiveLate(m) PROVE AgentTyped'
<1>1. UNCHANGED <<state, tasks>> /\ issued' \in {issued, issued + 1} /\ creating.at = "none"
  BY DEF ReceiveLate, SessionCreateReqHandler, DataHandler
<1>2. Kept /\ \A t \in tasks' : t.at # "handling"
  BY <1>1 DEF Kept, TypeInv, AllOK, TaskOK
<1> QED
  BY <1>1, <1>2, KeptIsTyped DEF Carried

(* The agent's sessions and tasks, and the request being handled.          *)
LEMMA AgentTypedStep == LinkInv /\ TypeInv /\ [Next]_vars => AgentTyped'
<1> SUFFICES ASSUME LinkInv, TypeInv, [Next]_vars PROVE AgentTyped'
  OBVIOUS
<1>1. ASSUME Kept, UNCHANGED <<issued, creating>> PROVE AgentTyped'
  BY <1>1, KeptIsTyped DEF Carried
<1>2. ASSUME UNCHANGED <<state, tasks>> PROVE Kept
  BY <1>2 DEF Kept, TypeInv
<1>3. ASSUME NEW p \in Plugins, CreateSession(p) \/ StartPoll(p) \/ Deadline(p) PROVE AgentTyped'
  BY <1>1, <1>3, PollerKept DEF CreateSession, StartPoll, Deadline, commsVars, historyVars
<1>4. ASSUME NEW t \in tasks,
             \/ TerminateSession(t) \/ Cancelled(t) \/ RunEnds(t) \/ RunFails(t) \/ Message(t)
             \/ OkReply(t) \/ PostFails(t) \/ ReceiveData(t)
      PROVE  AgentTyped'
  <2>1. UNCHANGED <<issued, creating>>
    BY <1>4 DEF TerminateSession, Cancelled, RunEnds, RunFails, Message, OkReply, PostFails, ReceiveData,
                DataHandler, commsVars, historyVars
  <2> QED
    BY <1>1, <1>4, <2>1, TaskKept
<1>5. CASE HandleDelivery
  BY <1>1, <1>5, DeliveryKept DEF HandleDelivery, commsVars, historyVars
<1>6. CASE PublishTerminate \/ PublishCreate
  <2>1. UNCHANGED <<state, tasks, issued>>
    BY <1>6 DEF PublishTerminate, PublishCreate, agentVars, historyVars
  <2>2. creating'.n = creating.n /\ creating'.at # "none"
    BY <1>6 DEF PublishTerminate, PublishCreate, LinkInv, CommsInv, CreatingInv
  <2> QED
    BY <1>2, <2>1, <2>2, KeptIsTyped DEF Carried
<1>7. CASE GetFails \/ OrphanArm
  <2>1. UNCHANGED <<issued, creating>> /\ (UNCHANGED <<state, tasks>> \/ TerminateAllSessions)
    BY <1>7 DEF GetFails, OrphanArm, historyVars
  <2> QED
    BY <1>1, <1>2, <2>1, EmptiedKept DEF TerminateAllSessions
<1>8. CASE AgentRestart
  <2>1. state' = [p \in Plugins |-> Empty] /\ tasks' = {} /\ UNCHANGED issued
    BY <1>8 DEF AgentRestart
  <2>2. {} \in SUBSET tasks /\ \A t \in tasks' : t.at # "handling"
    BY <2>1
  <2>3. Kept
    BY <2>1, <2>2, EmptiedKept
  <2> QED
    BY <2>1, <2>2, <2>3, KeptIsTyped DEF Carried
<1>9. CASE \/ UNCHANGED vars \/ (\E p \in Plugins : Consume(p) \/ SendDown(p))
           \/ GetBegin \/ GetDrain \/ GetTimeout \/ OrphanBegin \/ OrphanFlush \/ Feed
  <2>1. UNCHANGED <<state, tasks, issued, creating>>
    BY <1>9 DEF vars, agentVars, commsVars, historyVars, Consume, SendDown, GetBegin, GetDrain,
                GetTimeout, OrphanBegin, OrphanFlush, Feed
  <2> QED
    BY <1>1, <1>2, <2>1
<1> QED
  BY <1>3, <1>4, <1>5, <1>6, <1>7, <1>8, <1>9, CreateTyped, ResponseTyped, RestartTyped, LateTyped
     DEF Next

(* Only issued sessions are announced.                                     *)
LEMMA IdStep == LinkInv /\ TypeInv /\ [Next]_vars => IdInv'
<1> SUFFICES ASSUME LinkInv, TypeInv, [Next]_vars PROVE IdInv'
  OBVIOUS
<1>1. IdInv /\ issued \in Nat /\ creating.id \in 0..issued
  BY DEF TypeInv, IdInv, LinkInv, QueueInv
<1>2. ASSUME NEW p, NEW n, NEW st, SessionCreateReqHandler(p, n, st), UNCHANGED announced
      PROVE  IdInv'
  <2>1. issued' = issued + 1 /\ creating'.id = issued'
    BY <1>2 DEF SessionCreateReqHandler
  <2>2. \A s \in 0..issued : s \in 0..issued'
    BY SMT, <1>1, <2>1
  <2>3. issued' \in 0..issued'
    BY SMT, <1>1, <2>1
  <2> QED
    BY <1>1, <1>2, <2>1, <2>2, <2>3 DEF IdInv
<1>3. ASSUME UNCHANGED <<issued, announced>>, creating'.id \in {0, creating.id} PROVE IdInv'
  <2>1. 0 \in 0..issued
    BY SMT, <1>1
  <2> QED
    BY <1>1, <1>3, <2>1 DEF IdInv
<1>4. ASSUME NEW m \in late, ReceiveLate(m) PROVE IdInv'
  <2>1. CASE m.kind = "create"
    BY <1>2, <1>4, <2>1 DEF ReceiveLate
  <2>2. CASE m.kind # "create"
    BY <1>3, <1>4, <2>2 DEF ReceiveLate, DataHandler
  <2> QED
    BY <2>1, <2>2
<1>5. ASSUME NEW t \in tasks, ReceiveCreate(t) PROVE IdInv'
  BY <1>2, <1>5 DEF ReceiveCreate
<1>6. CASE PublishCreate
  <2>1. creating'.id = creating.id /\ announced' = announced \cup {creating.id} /\ UNCHANGED issued
    BY <1>6 DEF PublishCreate, LinkInv, CommsInv, CreatingInv
  <2> QED
    BY <1>1, <2>1 DEF IdInv
<1>7. CASE PublishTerminate \/ AgentRestart
  <2>1. creating'.id = creating.id /\ UNCHANGED <<issued, announced>>
    BY <1>7 DEF PublishTerminate, AgentRestart, LinkInv, CommsInv, CreatingInv, historyVars
  <2> QED
    BY <1>3, <2>1
<1>8. CASE PublishResponse \/ PublishFails \/ CommsRestart
  BY <1>3, <1>8, NotCreatingType DEF PublishResponse, PublishFails, CommsRestart, historyVars
<1>9. ASSUME NEW p \in Plugins,
             CreateSession(p) \/ StartPoll(p) \/ Deadline(p) \/ Consume(p) \/ SendDown(p)
      PROVE  UNCHANGED <<creating, issued, announced>>
  BY <1>9 DEF CreateSession, StartPoll, Deadline, Consume, SendDown, commsVars, historyVars
<1>10. ASSUME NEW t \in tasks,
              \/ TerminateSession(t) \/ Cancelled(t) \/ RunEnds(t) \/ RunFails(t) \/ Message(t)
              \/ OkReply(t) \/ PostFails(t) \/ ReceiveData(t)
       PROVE  UNCHANGED <<creating, issued, announced>>
  BY <1>10 DEF TerminateSession, Cancelled, RunEnds, RunFails, Message, OkReply, PostFails, ReceiveData,
               DataHandler, commsVars, historyVars
<1>11. ASSUME \/ GetBegin \/ GetDrain \/ GetTimeout \/ HandleDelivery \/ GetFails
              \/ OrphanBegin \/ OrphanArm \/ OrphanFlush \/ Feed \/ UNCHANGED vars
       PROVE  UNCHANGED <<creating, issued, announced>>
  BY <1>11 DEF GetBegin, GetDrain, GetTimeout, HandleDelivery, GetFails, OrphanBegin, OrphanArm,
               OrphanFlush, Feed, vars, commsVars, historyVars
<1> QED
  BY <1>3, <1>4, <1>5, <1>6, <1>7, <1>8, <1>9, <1>10, <1>11 DEF Next

(* Where the GET and POST handlers can be.                                 *)
Stops == {"none", "get", "orphan"}
OrphanOK(o) ==
  o = [at |-> o.at, start_time |-> o.start_time] /\ o.at \in {"none", "sent", "arm", "flush"}
CreatingAts == {"none", "terminate", "create", "response"}

(* No step takes a handler anywhere else.                                  *)
LEMMA ControlStep == LinkInv /\ TypeInv /\ [Next]_vars => ControlInv'
<1> SUFFICES ASSUME LinkInv, TypeInv, [Next]_vars PROVE ControlInv'
  OBVIOUS
<1>1. /\ start_time \in Nat /\ get \in BOOLEAN /\ host.stop \in Stops
      /\ OrphanOK(orphan) /\ creating.at \in CreatingAts
      /\ {"stop", "queue", "start_time", "sessions"} \subseteq DOMAIN host
  BY DEF TypeInv, ControlInv, Stops, OrphanOK, CreatingAts, LinkInv, CommsInv, IsHost
<1>2. ASSUME start_time' \in Nat, get' \in BOOLEAN, host'.stop \in Stops, OrphanOK(orphan'),
             creating'.at \in CreatingAts
      PROVE  ControlInv'
  BY <1>2 DEF ControlInv, Stops, OrphanOK, CreatingAts
<1>3. OrphanOK(NoOrphan) /\ NotCreating.at \in CreatingAts
  BY NotCreatingType DEF OrphanOK, NoOrphan, CreatingAts
<1>4. ASSUME NEW st
      PROVE  /\ GetOrInsert(st).stop \in Stops
             /\ {"stop", "queue", "start_time", "sessions"} \subseteq DOMAIN GetOrInsert(st)
  BY <1>1 DEF GetOrInsert, NoHost, Stops
<1>5. ASSUME UNCHANGED <<start_time, get, host, orphan, creating>> PROVE ControlInv'
  BY <1>1, <1>2, <1>5
<1>6. ASSUME NEW p, NEW s, NEW st, SessionCreateReqHandler(p, s, st) \/ DataHandler(p, s, st),
             UNCHANGED <<start_time, get, orphan>>
      PROVE  ControlInv'
  <2>1. CASE SessionCreateReqHandler(p, s, st)
    <3>1. host' = [GetOrInsert(st) EXCEPT !.sessions[p] = issued'] /\ creating'.at \in CreatingAts
      BY <2>1 DEF SessionCreateReqHandler, CreatingAts
    <3>2. host'.stop \in Stops
      BY <1>4, <3>1
    <3> QED
      BY <1>1, <1>2, <1>6, <3>1, <3>2
  <2>2. CASE DataHandler(p, s, st)
    <3>1. host' = GetOrInsert(st) /\ UNCHANGED creating
      BY <2>2 DEF DataHandler
    <3> QED
      BY <1>1, <1>2, <1>4, <1>6, <3>1
  <2> QED
    BY <1>6, <2>1, <2>2
<1>7. ASSUME NEW t \in tasks, ReceiveCreate(t) \/ ReceiveData(t) PROVE ControlInv'
  BY <1>6, <1>7 DEF ReceiveCreate, ReceiveData
<1>8. ASSUME NEW m \in late, ReceiveLate(m) PROVE ControlInv'
  BY <1>6, <1>8 DEF ReceiveLate
<1>9. CASE PublishTerminate \/ PublishCreate \/ PublishResponse \/ PublishFails
  <2>1. UNCHANGED <<start_time, get, host, orphan>>
    BY <1>9 DEF PublishTerminate, PublishCreate, PublishResponse, PublishFails, agentVars
  <2>2. creating'.at \in CreatingAts
    BY <1>3, <1>9 DEF PublishTerminate, PublishCreate, PublishResponse, PublishFails, CreatingAts,
                      LinkInv, CommsInv, CreatingInv
  <2> QED
    BY <1>1, <1>2, <2>1, <2>2
<1>10. ASSUME Abandon
       PROVE  get' \in BOOLEAN /\ host'.stop \in Stops /\ OrphanOK(orphan')
  <2>1. host'.stop \in Stops
    BY <1>1, <1>10 DEF Abandon, Stops
  <2>2. orphan' = orphan \/ orphan' = [at |-> IF get THEN "flush" ELSE "sent", start_time |-> start_time]
    BY <1>10 DEF Abandon
  <2>3. OrphanOK(orphan')
    BY SMT, <1>1, <2>2 DEF OrphanOK
  <2> QED
    BY <1>10, <2>1, <2>3 DEF Abandon
<1>11. CASE GetFails
  BY <1>1, <1>2, <1>10, <1>11 DEF GetFails
<1>12. CASE AgentRestart
  <2>1. start_time' \in Nat
    BY SMT, <1>1, <1>12 DEF AgentRestart
  <2>2. creating'.at = creating.at /\ Abandon
    BY <1>12 DEF AgentRestart, LinkInv, CommsInv, CreatingInv
  <2> QED
    BY <1>1, <1>2, <1>10, <2>1, <2>2
<1>13. CASE GetBegin
  <2> DEFINE h == GetOrInsert(start_time)
  <2>1. /\ host' = [h EXCEPT !.stop = IF h.start_time # start_time THEN "none" ELSE "get",
                            !.start_time = start_time]
        /\ get' = ~(h.start_time # start_time)
        /\ orphan' = NoOrphan \/ orphan' = orphan
        /\ UNCHANGED <<start_time, creating>>
    BY <1>13 DEF GetBegin
  <2>2. host'.stop \in Stops
    BY <1>4, <2>1 DEF Stops
  <2> QED
    BY <1>1, <1>2, <1>3, <2>1, <2>2
<1>14. CASE GetDrain \/ GetTimeout
  <2>1. /\ \/ host' = [host EXCEPT !.queue = <<>>, !.stop = "none"]
           \/ host' = [host EXCEPT !.stop = "none"]
        /\ get' = FALSE /\ UNCHANGED <<start_time, orphan, creating>>
    BY <1>14 DEF GetDrain, GetTimeout
  <2>2. host'.stop \in Stops
    BY <1>1, <2>1 DEF Stops
  <2> QED
    BY <1>1, <1>2, <2>1, <2>2
<1>15. CASE OrphanBegin
  <2> DEFINE h == GetOrInsert(orphan.start_time)
  <2>1. /\ host' = [h EXCEPT !.stop = "none", !.start_time = orphan.start_time]
        /\ get' = (get /\ host.stop # "get")
        /\ orphan' = NoOrphan \/ orphan' = [orphan EXCEPT !.at = "arm"]
        /\ UNCHANGED <<start_time, creating>>
    BY <1>15 DEF OrphanBegin
  <2>2. host'.stop \in Stops
    BY <1>4, <2>1 DEF Stops
  <2>3. OrphanOK([orphan EXCEPT !.at = "arm"])
    BY SMT, <1>1 DEF OrphanOK
  <2> QED
    BY <1>1, <1>2, <1>3, <2>1, <2>2, <2>3
<1>16. CASE OrphanArm \/ OrphanFlush
  <2>1. /\ \/ host' = [host EXCEPT !.stop = "orphan"]
           \/ \E q : host' = [host EXCEPT !.queue = q, !.stop = "none"]
        /\ orphan' = NoOrphan \/ orphan' = [orphan EXCEPT !.at = "flush"]
        /\ get' = FALSE \/ get' = get
        /\ UNCHANGED <<start_time, creating>>
    BY <1>16 DEF OrphanArm, OrphanFlush, agentVars
  <2>2. host'.stop \in Stops
    BY <1>1, <2>1 DEF Stops
  <2>3. OrphanOK([orphan EXCEPT !.at = "flush"])
    BY SMT, <1>1 DEF OrphanOK
  <2> QED
    BY <1>1, <1>2, <1>3, <2>1, <2>2, <2>3
<1>17. CASE Feed
  <2>1. host' = host \/ host' = [host EXCEPT !.queue = Append(@, Head(agent_tx))]
    BY <1>17 DEF Feed
  <2>2. host'.stop = host.stop
    BY <1>1, <2>1
  <2> QED
    BY <1>1, <1>2, <1>17, <2>2 DEF Feed, agentVars
<1>18. CASE CommsRestart
  <2>1. NoHost.stop \in Stops
    BY DEF NoHost, Stops
  <2> QED
    BY <1>1, <1>2, <1>3, <1>18, <2>1 DEF CommsRestart
<1>19. CASE \/ \E p \in Plugins :
                 CreateSession(p) \/ StartPoll(p) \/ Deadline(p) \/ Consume(p) \/ SendDown(p)
            \/ HandleDelivery \/ UNCHANGED vars
  BY <1>5, <1>19 DEF CreateSession, StartPoll, Deadline, Consume, SendDown, HandleDelivery, vars,
                     agentVars, commsVars
<1>20. ASSUME NEW t \in tasks,
              \/ TerminateSession(t) \/ Cancelled(t) \/ RunEnds(t) \/ RunFails(t) \/ Message(t)
              \/ OkReply(t) \/ PostFails(t)
       PROVE  ControlInv'
  BY <1>5, <1>20 DEF TerminateSession, Cancelled, RunEnds, RunFails, Message, OkReply, PostFails,
                     commsVars
<1> QED
  BY <1>7, <1>8, <1>9, <1>11, <1>12, <1>13, <1>14, <1>15, <1>16, <1>17, <1>18, <1>19, <1>20 DEF Next

(***************************************************************************)
(* For any plugins and any number of faults, requests and messages, every  *)
(* variable has its type, and a create request that the agent waits for    *)
(* while it is being handled is the one session_create_req_handler is at:  *)
(* no other task takes its number.                                         *)
(***************************************************************************)
THEOREM LinkIsWellTyped == Spec => []TypeOK
<1>1. Init => TypeInv
  <2> SUFFICES ASSUME Init PROVE TypeInv
    OBVIOUS
  <2>1. LinkInv /\ issued = 0 /\ 0 \in 0..issued /\ 1 \in Nat
    <3>1. LinkInv
      BY InitLinkInv
    <3> QED
      BY SMT, <3>1 DEF Init
  <2>2. state \in [Plugins -> StateType(issued)]
    BY <2>1, StatesTyped DEF Init
  <2>3. AllOK(tasks, issued, creating)
    BY FS_EmptySet DEF Init, AllOK, Numbered
  <2>4. ControlInv
    BY <2>1, NotCreatingType DEF Init, ControlInv, NoHost, NoOrphan
  <2>5. IdInv
    BY <2>1, NotCreatingType DEF Init, IdInv
  <2> QED
    BY <2>2, <2>3, <2>4, <2>5 DEF TypeInv
<1>2. LinkInv /\ TypeInv /\ [Next]_vars => TypeInv'
  <2> SUFFICES ASSUME LinkInv, TypeInv, [Next]_vars PROVE TypeInv'
    OBVIOUS
  <2>1. AgentTyped' /\ IdInv' /\ ControlInv'
    BY AgentTypedStep, IdStep, ControlStep
  <2> QED
    BY <2>1 DEF AgentTyped, TypeInv
<1>3. TypeInv => TypeOK
  BY DEF TypeInv, StateType, AllOK, TaskOK, Ats, Kinds, ControlInv, TypeOK
<1> QED
  BY <1>1, <1>2, <1>3, InitLinkInv, NextLinkInv, PTL DEF Spec
=============================================================================
