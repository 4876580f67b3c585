----------------------------- MODULE AgentLink -----------------------------
(***************************************************************************)
(* The link between the agent daemon of one host (iml-agent) and the       *)
(* manager (iml-agent-comms): per plugin sessions, opened by the agent     *)
(* with a POST, answered through a long-poll GET, and used by both sides   *)
(* to exchange data.                                                       *)
(*                                                                         *)
(* The agent runs a poller, a reader and one task per request that is      *)
(* under way; the comms process runs one handler per request and a task    *)
(* that feeds the host's queue from the broker.  Timers have no clock      *)
(* here: a wait that is over, a deadline that has passed and the 30 second *)
(* limit of a GET are steps that may happen at any time.  One host is      *)
(* modelled: the comms process keeps nothing that two hosts share.         *)
(***************************************************************************)
EXTENDS Naturals, Sequences, FiniteSets, FiniteSetsExt

CONSTANTS
  Plugins,     \* the names in the agent's plugin registry
  Reporters,   \* those whose start_session and update_session have output
  Answerers,   \* those whose service sends them messages
  MaxFaults,   \* bound: faults of any kind in a behaviour
  MaxQuiet,    \* bound: faults that one end of the link does not notice
  MaxTasks,    \* bound: the poller acts only below this many tasks of its own
  MaxStream    \* bound: a POST is handled only with fewer messages queued

ASSUME BoundsAssumption == {MaxFaults, MaxQuiet, MaxTasks, MaxStream} \subseteq Nat

ASSUME PluginsAssumption == Plugins # {} /\ (Reporters \cup Answerers) \subseteq Plugins

NoSession == 0   \* no session: ids are issued from 1

VARIABLES
  \* the agent
  start_time,   \* which run of the agent this is (AgentClient.start_time)
  state,        \* plugin -> State of its session
  tasks,        \* the requests the agent has under way
  get,          \* the reader has a GET at the comms process
  inbox,        \* what is left of the last delivery
  \* the comms process
  host,         \* its record of the host, if it has one
  orphan,       \* a GET handler whose client has gone
  creating,     \* the session create request being handled, if any
  late,         \* requests that arrive after the agent gave up on them
  \* the broker and the services behind it
  agent_tx,     \* the queue agent_tx_rust
  rx,           \* plugin -> the queue rust_agent_<plugin>_rx
  held,         \* plugin -> the session its service holds
  \* history
  issued,       \* the number of session ids issued
  announced,    \* the sessions whose SessionCreate was published
  faults,       \* the number of faults
  quiet         \* the number of those that one end did not notice

agentVars == <<start_time, state, tasks, get, inbox>>
commsVars == <<host, orphan, creating, late>>
queueVars == <<agent_tx, rx, held>>
historyVars == <<issued, announced, faults, quiet>>
vars == <<start_time, state, tasks, get, inbox, host, orphan, creating, late,
          agent_tx, rx, held, issued, announced, faults, quiet>>

(***************************************************************************)
(* A ManagerMessage goes down to the agent, a PluginMessage up to a        *)
(* service.                                                                *)
(***************************************************************************)
ManagerMessage(t, p, s) == [type |-> t, plugin |-> p, id |-> s]
PluginMessage(t, s) == [type |-> t, id |-> s]

(***************************************************************************)
(* State of a plugin's session.  in_flight: a receiver is held, so no poll *)
(* is started.                                                             *)
(***************************************************************************)
State(k, s, f) == [kind |-> k, id |-> s, in_flight |-> f]
Empty == State("Empty", NoSession, FALSE)
Pending == State("Pending", NoSession, FALSE)
Active(s) == State("Active", s, TRUE)

(***************************************************************************)
(* A request the agent has under way: creating a session, starting one,    *)
(* polling a plugin or answering a message.  It runs the plugin (`run'),   *)
(* POSTs the outcome (`post'; a create is then `handling' and `acked' at   *)
(* the manager's end) and settles; a failed start or poll passes through   *)
(* `term'.  linked: the plugin's State still holds the receiver; without   *)
(* it the run is cancelled.                                                *)
(***************************************************************************)
Task(p, k, s, a) ==
  [plugin |-> p, kind |-> k, id |-> s, at |-> a, linked |-> k \in {"start", "poll"},
   n |-> Min(1..(Cardinality(tasks) + 1) \ {t.n : t \in tasks})]

Unlink(ts, ps) ==
  {IF t.plugin \in ps THEN [t EXCEPT !.linked = FALSE] ELSE t : t \in ts}

MoveTo(t, a) == (tasks \ {t}) \cup {[t EXCEPT !.at = a]}

NoHost == [known |-> FALSE, start_time |-> 0, stop |-> "none",
           sessions |-> [p \in Plugins |-> NoSession], queue |-> <<>>]

NoOrphan == [at |-> "none", start_time |-> 0]

NotCreating == [at |-> "none", plugin |-> CHOOSE p \in Plugins : TRUE,
                old |-> NoSession, id |-> NoSession, n |-> 0]

Init ==
  /\ start_time = 1
  /\ state = [p \in Plugins |-> Empty]
  /\ tasks = {}
  /\ get = FALSE
  /\ inbox = <<>>
  /\ host = NoHost
  /\ orphan = NoOrphan
  /\ creating = NotCreating
  /\ late = {}
  /\ agent_tx = <<>>
  /\ rx = [p \in Plugins |-> <<>>]
  /\ held = [p \in Plugins |-> NoSession]
  /\ issued = 0
  /\ announced = {}
  /\ faults = 0
  /\ quiet = 0

Fault == faults < MaxFaults /\ faults' = faults + 1
Quietly == quiet < MaxQuiet /\ quiet' = quiet + 1

-----------------------------------------------------------------------------
(* The agent's poller.                                                     *)

Busy == Cardinality({t \in tasks : t.kind # "message"})

(***************************************************************************)
(* An Empty session whose wait is over becomes Pending and is asked for.   *)
(***************************************************************************)
CreateSession(p) ==
  /\ state[p].kind = "Empty"
  /\ Busy < MaxTasks
  /\ state' = [state EXCEPT ![p] = Pending]
  /\ tasks' = tasks \cup {Task(p, "create", NoSession, "post")}
  /\ UNCHANGED <<start_time, get, inbox, commsVars, queueVars, historyVars>>

(* Variant: a session is polled while a call is in flight.                 *)
StartPollAlways(p) ==
  /\ state[p].kind = "Active"
  /\ Busy < MaxTasks
  /\ tasks' = tasks \cup {Task(p, "poll", state[p].id, "run")}
  /\ UNCHANGED <<start_time, state, get, inbox, commsVars, queueVars, historyVars>>

(***************************************************************************)
(* An Active session with nothing in flight is polled.                     *)
(***************************************************************************)
StartPoll(p) ==
  /\ state[p].kind = "Active"
  /\ ~state[p].in_flight
  /\ Busy < MaxTasks
  /\ state' = [state EXCEPT ![p].in_flight = TRUE]
  /\ tasks' = tasks \cup {Task(p, "poll", state[p].id, "run")}
  /\ UNCHANGED <<start_time, get, inbox, commsVars, queueVars, historyVars>>

(***************************************************************************)
(* reset_active: whatever session is Active now, nothing is in flight.     *)
(***************************************************************************)
ResetActive(p, ts) ==
  IF state[p].kind = "Active"
    THEN /\ state' = [state EXCEPT ![p].in_flight = FALSE]
         /\ tasks' = Unlink(ts, {p})
    ELSE /\ tasks' = ts
         /\ UNCHANGED state

Deadline(p) ==
  /\ state[p].kind = "Active"
  /\ state[p].in_flight
  /\ ResetActive(p, tasks)
  /\ UNCHANGED <<start_time, get, inbox, commsVars, queueVars, historyVars>>

-----------------------------------------------------------------------------
(* The agent's tasks.                                                      *)

SettleOk(t) ==
  IF t.kind = "poll"
    THEN ResetActive(t.plugin, tasks \ {t})
    ELSE /\ tasks' = tasks \ {t}
         /\ UNCHANGED state

(* Variant: a create request that failed leaves the session Pending.       *)
SettleErrKeepsPending(t) ==
  /\ tasks' = tasks \ {t}
  /\ UNCHANGED state

(***************************************************************************)
(* An error: a create request empties the session (reset_empty), whatever  *)
(* it is by now; a start or a poll terminates its session if it is still   *)
(* the Active one; a reply to a message is given up.                       *)
(***************************************************************************)
SettleErr(t) ==
  CASE t.kind = "create" ->
         /\ state' = [state EXCEPT ![t.plugin] = Empty]
         /\ tasks' = Unlink(tasks \ {t}, {t.plugin})
    [] t.kind = "message" ->
         /\ tasks' = tasks \ {t}
         /\ UNCHANGED state
    [] OTHER ->
         /\ tasks' = IF state[t.plugin].kind = "Active" /\ state[t.plugin].id = t.id
                       THEN MoveTo(t, "term")
                       ELSE tasks \ {t}
         /\ UNCHANGED state

(***************************************************************************)
(* The second half of terminate_session: the lock was released after the   *)
(* check, so the session torn down is the one found now.                   *)
(***************************************************************************)
TerminateSession(t) ==
  /\ t.at = "term"
  /\ state' = [state EXCEPT ![t.plugin] = Empty]
  /\ tasks' = Unlink(tasks \ {t}, {t.plugin})
  /\ UNCHANGED <<start_time, get, inbox, commsVars, queueVars, historyVars>>

(***************************************************************************)
(* The plugin's start_session or update_session future: cancelled once its *)
(* receiver is dropped, else it ends with output, with none, or fails.     *)
(***************************************************************************)
Cancelled(t) ==
  /\ t.kind \in {"start", "poll"} /\ t.at = "run" /\ ~t.linked
  /\ SettleOk(t)
  /\ UNCHANGED <<start_time, get, inbox, commsVars, queueVars, historyVars>>

RunEnds(t) ==
  /\ t.kind \in {"start", "poll"} /\ t.at = "run" /\ t.linked
  /\ \/ /\ t.plugin \in Reporters
        /\ tasks' = MoveTo(t, "post")
        /\ UNCHANGED state
     \/ SettleOk(t)
  /\ UNCHANGED <<start_time, get, inbox, commsVars, queueVars, historyVars>>

RunFails(t) ==
  /\ t.kind \in {"start", "poll"} /\ t.at = "run" /\ t.linked
  /\ t.plugin \in Reporters
  /\ Fault
  /\ SettleErr(t)
  /\ UNCHANGED <<start_time, get, inbox, commsVars, queueVars, issued, announced, quiet>>

(***************************************************************************)
(* Sessions::message, spawned by the reader: the session is the one Active *)
(* when the task gets to run.  The plugin works on the message for as long *)
(* as it takes, and the answer is posted under that session's id.          *)
(***************************************************************************)
Message(t) ==
  /\ t.at = "new"
  /\ tasks' = IF state[t.plugin].kind = "Active"
                THEN (tasks \ {t}) \cup {[t EXCEPT !.at = "post", !.id = state[t.plugin].id]}
                ELSE tasks \ {t}
  /\ UNCHANGED <<start_time, state, get, inbox, commsVars, queueVars, historyVars>>

OkReply(t) ==
  /\ t.at = "acked"
  /\ SettleOk(t)
  /\ UNCHANGED <<start_time, get, inbox, commsVars, queueVars, historyVars>>

(***************************************************************************)
(* A POST fails: it never arrives, a create's reply is lost, or (quietly)  *)
(* it arrives after the agent has given up on it.                          *)
(***************************************************************************)
PostFails(t) ==
  /\ t.at \in {"post", "acked"}
  /\ Fault
  /\ SettleErr(t)
  /\ \/ UNCHANGED <<late, quiet>>
     \/ /\ t.at = "post" /\ late = {}
        /\ late' = {[plugin |-> t.plugin, kind |-> t.kind, id |-> t.id, start_time |-> start_time]}
        /\ Quietly
  /\ UNCHANGED <<start_time, get, inbox, host, orphan, creating, queueVars, issued, announced>>

-----------------------------------------------------------------------------
(* The comms process: POST.                                                *)

RoomFor(p) == Len(rx[p]) < MaxStream /\ Len(agent_tx) + Len(host.queue) < MaxStream

GetOrInsert(st) == IF host.known THEN host ELSE [NoHost EXCEPT !.known = TRUE, !.start_time = st]

(* Variant: data is forwarded whatever its session.                        *)
DataHandlerUnchecked(p, s, st) ==
  /\ creating.at = "none"
  /\ RoomFor(p)
  /\ host' = GetOrInsert(st)
  /\ rx' = [rx EXCEPT ![p] = Append(@, PluginMessage("Data", s))]
  /\ UNCHANGED <<agent_tx, creating, issued>>

(***************************************************************************)
(* A Data message, under the lock of the host's sessions: forwarded if its *)
(* session is the plugin's current one, else answered by SessionTerminate. *)
(***************************************************************************)
DataHandler(p, s, st) ==
  /\ creating.at = "none"
  /\ RoomFor(p)
  /\ host' = GetOrInsert(st)
  /\ IF host'.sessions[p] = s
       THEN /\ rx' = [rx EXCEPT ![p] = Append(@, PluginMessage("Data", s))]
            /\ UNCHANGED agent_tx
       ELSE /\ agent_tx' = Append(agent_tx, ManagerMessage("SessionTerminate", p, s))
            /\ UNCHANGED rx
  /\ UNCHANGED <<creating, issued>>

(***************************************************************************)
(* A SessionCreateRequest: a new id becomes current and the lock is held   *)
(* while the messages go out one by one.                                   *)
(***************************************************************************)
SessionCreateReqHandler(p, n, st) ==
  /\ creating.at = "none"
  /\ RoomFor(p)
  /\ issued' = issued + 1
  /\ host' = [GetOrInsert(st) EXCEPT !.sessions[p] = issued']
  /\ creating' = [at |-> IF GetOrInsert(st).sessions[p] = NoSession THEN "create" ELSE "terminate",
                  plugin |-> p, old |-> GetOrInsert(st).sessions[p], id |-> issued', n |-> n]
  /\ UNCHANGED <<agent_tx, rx>>

ReceiveCreate(t) ==
  /\ t.at = "post" /\ t.kind = "create"
  /\ SessionCreateReqHandler(t.plugin, t.n, start_time)
  /\ tasks' = MoveTo(t, "handling")
  /\ UNCHANGED <<start_time, state, get, inbox, orphan, late, held, announced, faults, quiet>>

(***************************************************************************)
(* Data is answered at once; the reply may get lost.                       *)
(***************************************************************************)
ReceiveData(t) ==
  /\ t.at = "post" /\ t.kind # "create"
  /\ DataHandler(t.plugin, t.id, start_time)
  /\ \/ SettleOk(t) /\ UNCHANGED faults
     \/ Fault /\ SettleErr(t)
  /\ UNCHANGED <<start_time, get, inbox, orphan, late, held, announced, quiet>>

ReceiveLate(m) ==
  /\ IF m.kind = "create"
       THEN SessionCreateReqHandler(m.plugin, 0, m.start_time)
       ELSE DataHandler(m.plugin, m.id, m.start_time)
  /\ late' = late \ {m}
  /\ UNCHANGED <<start_time, state, tasks, get, inbox, orphan, held, announced, faults, quiet>>

(***************************************************************************)
(* The messages of session_create_req_handler, each a publish of its own.  *)
(***************************************************************************)
PublishTerminate ==
  /\ creating.at = "terminate"
  /\ rx' = [rx EXCEPT ![creating.plugin] = Append(@, PluginMessage("SessionTerminate", creating.old))]
  /\ creating' = [creating EXCEPT !.at = "create"]
  /\ UNCHANGED <<agentVars, host, orphan, late, agent_tx, held, historyVars>>

(* Variant: the service is not told of the new session.                    *)
PublishCreateSkipped ==
  /\ creating.at = "create"
  /\ creating' = [creating EXCEPT !.at = "response"]
  /\ UNCHANGED <<agentVars, host, orphan, late, queueVars, historyVars>>

PublishCreate ==
  /\ creating.at = "create"
  /\ rx' = [rx EXCEPT ![creating.plugin] = Append(@, PluginMessage("SessionCreate", creating.id))]
  /\ creating' = [creating EXCEPT !.at = "response"]
  /\ announced' = announced \cup {creating.id}
  /\ UNCHANGED <<agentVars, host, orphan, late, agent_tx, held, issued, faults, quiet>>

PublishResponse ==
  /\ creating.at = "response"
  /\ agent_tx' = Append(agent_tx, ManagerMessage("SessionCreateResponse", creating.plugin, creating.id))
  /\ creating' = NotCreating
  /\ tasks' = {IF t.n = creating.n THEN [t EXCEPT !.at = "acked"] ELSE t : t \in tasks}
  /\ UNCHANGED <<start_time, state, get, inbox, host, orphan, late, rx, held, historyVars>>

(* Variant: the agent never hears of the error.                            *)
CreatingFailsSilently == UNCHANGED <<state, tasks>>

(***************************************************************************)
(* The request behind `creating' ends in an error, if the agent still      *)
(* waits for it.                                                           *)
(***************************************************************************)
CreatingFails ==
  IF \E t \in tasks : t.n = creating.n
    THEN SettleErr(CHOOSE t \in tasks : t.n = creating.n)
    ELSE UNCHANGED <<state, tasks>>

PublishFails ==
  /\ creating.at # "none"
  /\ Fault
  /\ creating' = NotCreating
  /\ CreatingFails
  /\ UNCHANGED <<start_time, get, inbox, host, orphan, late, queueVars, issued, announced, quiet>>

-----------------------------------------------------------------------------
(* The comms process: GET.  The reader has a GET waiting (get) or handles  *)
(* a delivery; an orphan goes through the same steps for nobody.           *)

TerminateAllSessions ==
  /\ state' = [p \in Plugins |-> Empty]
  /\ tasks' = Unlink(tasks, Plugins)

(***************************************************************************)
(* The reader sends a GET when it has handled the delivery before.  First  *)
(* lock section: stop an earlier reader; a changed start time ends all     *)
(* sessions at the agent.  Second: from here on a later GET stops this one.*)
(***************************************************************************)
GetBegin ==
  /\ ~get /\ inbox = <<>>
  /\ LET h == GetOrInsert(start_time)
         restarted == h.start_time # start_time
     IN /\ host' = [h EXCEPT !.stop = IF restarted THEN "none" ELSE "get", !.start_time = start_time]
        /\ get' = ~restarted
        /\ inbox' = IF restarted
                      THEN <<ManagerMessage("SessionTerminateAll", NotCreating.plugin, NoSession)>>
                      ELSE <<>>
  /\ orphan' = IF host.stop = "orphan" THEN NoOrphan ELSE orphan
  /\ UNCHANGED <<start_time, state, tasks, creating, late, queueVars, historyVars>>

IsSessionValid(m) ==
  m.type = "SessionTerminateAll" \/ host.sessions[m.plugin] = m.id

(***************************************************************************)
(* flush: everything queued, in its order, less what is not of a current   *)
(* session; or nothing, after 30 seconds.                                  *)
(***************************************************************************)
Retained == {i \in DOMAIN host.queue : IsSessionValid(host.queue[i])}

GetDrain ==
  /\ get
  /\ host.queue # <<>>
  /\ creating.at = "none"
  /\ get' = FALSE
  /\ \E n \in 0..Len(host.queue) : \E kept \in [1..n -> Retained] :
       /\ \A i, j \in 1..n : i < j => kept[i] < kept[j]
       /\ {kept[i] : i \in 1..n} = Retained
       /\ inbox' = [i \in 1..n |-> host.queue[kept[i]]]
  /\ host' = [host EXCEPT !.queue = <<>>, !.stop = "none"]
  /\ UNCHANGED <<start_time, state, tasks, orphan, creating, late, queueVars, historyVars>>

GetTimeout ==
  /\ get
  /\ get' = FALSE
  /\ host' = [host EXCEPT !.stop = "none"]
  /\ UNCHANGED <<start_time, state, tasks, inbox, orphan, creating, late, queueVars, historyVars>>

(***************************************************************************)
(* The orphan's two lock sections: between them the reader's own GET may   *)
(* be armed, and a stop_reading that is replaced unused fails its reader.  *)
(***************************************************************************)
OrphanBegin ==
  /\ orphan.at = "sent"
  /\ host' = [GetOrInsert(orphan.start_time) EXCEPT !.stop = "none", !.start_time = orphan.start_time]
  /\ get' = (get /\ host.stop # "get")
  /\ orphan' = IF GetOrInsert(orphan.start_time).start_time # orphan.start_time
                 THEN NoOrphan
                 ELSE [orphan EXCEPT !.at = "arm"]
  /\ UNCHANGED <<start_time, state, tasks, inbox, creating, late, queueVars, historyVars>>

OrphanArm ==
  /\ orphan.at = "arm"
  /\ orphan' = [orphan EXCEPT !.at = "flush"]
  /\ host' = [host EXCEPT !.stop = "orphan"]
  /\ IF host.stop = "get"
       THEN /\ get' = FALSE
            /\ TerminateAllSessions
       ELSE UNCHANGED <<get, state, tasks>>
  /\ UNCHANGED <<start_time, inbox, creating, late, queueVars, historyVars>>

OrphanFlush ==
  /\ orphan.at = "flush"
  /\ orphan' = NoOrphan
  /\ \E q \in {host.queue, <<>>} :
       host' = [host EXCEPT !.queue = q, !.stop = "none"]
  /\ UNCHANGED <<agentVars, creating, late, queueVars, historyVars>>

-----------------------------------------------------------------------------
(* The agent's reader.                                                     *)

(***************************************************************************)
(* get_delivery handles the messages in turn.  A Data message does not say *)
(* which session it is for: the plugin's Active one gets it.  No           *)
(* SessionTerminate gets this far, see UnknownSessionEnds.                 *)
(***************************************************************************)
HandleDelivery ==
  /\ inbox # <<>>
  /\ inbox' = Tail(inbox)
  /\ LET m == Head(inbox)
     IN CASE m.type = "SessionCreateResponse" ->
               /\ state' = [state EXCEPT ![m.plugin] = Active(m.id)]
               /\ tasks' = Unlink(tasks, {m.plugin}) \cup {Task(m.plugin, "start", m.id, "run")}
          [] m.type = "Data" ->
               /\ tasks' = tasks \cup {Task(m.plugin, "message", NoSession, "new")}
               /\ UNCHANGED state
          [] m.type = "SessionTerminate" ->
               /\ state' = [state EXCEPT ![m.plugin] = IF @.id = m.id THEN Empty ELSE @]
               /\ tasks' = IF state[m.plugin].id = m.id THEN Unlink(tasks, {m.plugin}) ELSE tasks
          [] m.type = "SessionTerminateAll" ->
               /\ state' = [p \in Plugins |-> Empty]
               /\ tasks' = Unlink(tasks, Plugins)
  /\ UNCHANGED <<start_time, get, commsVars, queueVars, historyVars>>

(***************************************************************************)
(* The reader's GET ends without an answer.  Its handler is dropped with   *)
(* the connection, or was about to reply (what it drained is lost), or     *)
(* (quietly) lives on at whatever point it is.                             *)
(***************************************************************************)
Abandon ==
  /\ get' = FALSE
  /\ inbox' = <<>>
  /\ \/ /\ host' = [host EXCEPT !.stop = IF get THEN "none" ELSE @]
        /\ UNCHANGED <<orphan, quiet>>
     \/ /\ get
        /\ host' = [host EXCEPT !.stop = "none", !.queue = <<>>]
        /\ UNCHANGED <<orphan, quiet>>
     \/ /\ inbox = <<>> /\ orphan = NoOrphan
        /\ orphan' = [at |-> IF get THEN "flush" ELSE "sent", start_time |-> start_time]
        /\ host' = [host EXCEPT !.stop = IF get THEN "orphan" ELSE @]
        /\ Quietly

GetFails ==
  /\ inbox = <<>>
  /\ Fault
  /\ Abandon
  /\ TerminateAllSessions
  /\ UNCHANGED <<start_time, creating, late, queueVars, issued, announced>>

-----------------------------------------------------------------------------
(* The comms process's feeder, the services, and restarts.                 *)

Feed ==
  /\ agent_tx # <<>>
  /\ agent_tx' = Tail(agent_tx)
  /\ host' = IF host.known THEN [host EXCEPT !.queue = Append(@, Head(agent_tx))] ELSE host
  /\ UNCHANGED <<agentVars, orphan, creating, late, rx, held, historyVars>>

(***************************************************************************)
(* A service takes the next message of its queue, and may answer down the  *)
(* session it holds (one such message under way at a time).  Data of       *)
(* another session than that never comes: SessionStreamProofs.             *)
(***************************************************************************)
Consume(p) ==
  /\ rx[p] # <<>>
  /\ rx' = [rx EXCEPT ![p] = Tail(@)]
  /\ held' = [held EXCEPT ![p] =
       LET m == Head(rx[p])
       IN CASE m.type = "SessionCreate" -> m.id
            [] m.type = "SessionTerminate" /\ m.id = @ -> NoSession
            [] OTHER -> @]
  /\ UNCHANGED <<agentVars, commsVars, agent_tx, historyVars>>

DataUnderWay ==
  \/ \E i \in DOMAIN agent_tx : agent_tx[i].type = "Data"
  \/ \E i \in DOMAIN host.queue : host.queue[i].type = "Data"
  \/ \E i \in DOMAIN inbox : inbox[i].type = "Data"
  \/ \E t \in tasks : t.kind = "message"

SendDown(p) ==
  /\ p \in Answerers
  /\ held[p] # NoSession
  /\ ~DataUnderWay
  /\ Len(agent_tx) + Len(host.queue) < MaxStream
  /\ agent_tx' = Append(agent_tx, ManagerMessage("Data", p, held[p]))
  /\ UNCHANGED <<agentVars, commsVars, rx, held, historyVars>>

(***************************************************************************)
(* The comms process restarts and knows no host.  A GET it was serving     *)
(* fails at the agent; with none under way nobody notices.                 *)
(***************************************************************************)
CommsRestart ==
  /\ Fault
  /\ host' = NoHost
  /\ orphan' = NoOrphan
  /\ creating' = NotCreating
  /\ IF get
       THEN /\ get' = FALSE
            /\ state' = [p \in Plugins |-> Empty]
            /\ tasks' = Unlink({t \in tasks : t.at # "handling"}, Plugins)
            /\ UNCHANGED quiet
       ELSE /\ CreatingFails
            /\ Quietly
            /\ UNCHANGED get
  /\ UNCHANGED <<start_time, inbox, late, queueVars, issued, announced>>

AgentRestart ==
  /\ Fault
  /\ start_time' = start_time + 1
  /\ state' = [p \in Plugins |-> Empty]
  /\ tasks' = {}
  /\ Abandon
  /\ creating' = [creating EXCEPT !.n = 0]
  /\ UNCHANGED <<late, queueVars, issued, announced>>

-----------------------------------------------------------------------------
Next ==
  \/ \E p \in Plugins :
       CreateSession(p) \/ StartPoll(p) \/ Deadline(p) \/ Consume(p) \/ SendDown(p)
  \/ \E t \in tasks :
       \/ TerminateSession(t) \/ Cancelled(t) \/ RunEnds(t) \/ RunFails(t) \/ Message(t)
       \/ OkReply(t) \/ PostFails(t) \/ ReceiveCreate(t) \/ ReceiveData(t)
  \/ \E m \in late : ReceiveLate(m)
  \/ PublishTerminate \/ PublishCreate \/ PublishResponse \/ PublishFails
  \/ GetBegin \/ GetDrain \/ GetTimeout \/ HandleDelivery \/ GetFails
  \/ OrphanBegin \/ OrphanArm \/ OrphanFlush
  \/ Feed \/ CommsRestart \/ AgentRestart

Spec == Init /\ [][Next]_vars

(***************************************************************************)
(* Fairness: the poller ticks, plugin calls end, requests that are not     *)
(* failed arrive and are answered, the reader reads, a GET times out, and  *)
(* every process takes what is queued for it.  Strong where the bounds of  *)
(* this model, or a GET's 30 seconds, switch a step off for a while.       *)
(***************************************************************************)
Fairness ==
  /\ \A p \in Plugins : WF_vars(CreateSession(p)) /\ WF_vars(StartPoll(p)) /\ WF_vars(Consume(p))
  /\ SF_vars(\E t \in tasks : ReceiveCreate(t))
  /\ SF_vars(\E t \in tasks : ReceiveData(t))
  /\ WF_vars(\E t \in tasks : TerminateSession(t)) /\ WF_vars(\E t \in tasks : Cancelled(t))
  /\ WF_vars(\E t \in tasks : RunEnds(t)) /\ WF_vars(\E t \in tasks : OkReply(t))
  /\ WF_vars(PublishTerminate) /\ WF_vars(PublishCreate) /\ WF_vars(PublishResponse)
  /\ WF_vars(Feed) /\ WF_vars(GetBegin)
  /\ SF_vars(GetDrain) /\ WF_vars(GetTimeout) /\ WF_vars(HandleDelivery)

LiveSpec == Spec /\ Fairness

-----------------------------------------------------------------------------
(* Properties.                                                             *)

\* what session_create_req_handler still owes to the service of p
Opening(p) ==
  CASE creating.plugin = p /\ creating.at = "terminate" ->
         <<PluginMessage("SessionTerminate", creating.old), PluginMessage("SessionCreate", creating.id)>>
    [] creating.plugin = p /\ creating.at = "create" ->
         <<PluginMessage("SessionCreate", creating.id)>>
    [] OTHER -> <<>>

Stream == INSTANCE SessionStream WITH
  cur <- host.sessions,
  opening <- [p \in Plugins |-> Opening(p)],
  stream <- rx

(***************************************************************************)
(* Agent, comms process and broker together implement SessionStream: the   *)
(* handlers of main.rs, under any interleaving, restart, lost or late      *)
(* request, never put data of a session on a service's queue before its    *)
(* SessionCreate or after a later session's.                               *)
(***************************************************************************)
StreamSpec == Stream!Spec

(***************************************************************************)
(* Every variable has its type, and a create request that is being handled *)
(* is the one session_create_req_handler is at.                            *)
(***************************************************************************)
TypeOK ==
  /\ start_time \in Nat
  /\ state \in [Plugins -> [kind : {"Empty", "Pending", "Active"}, id : 0..issued,
                            in_flight : BOOLEAN]]
  /\ get \in BOOLEAN
  /\ host.stop \in {"none", "get", "orphan"}
  /\ orphan.at \in {"none", "sent", "arm", "flush"}
  /\ creating.at \in {"none", "terminate", "create", "response"}
  /\ \A t \in tasks : /\ t.kind \in {"create", "start", "poll", "message"}
                      /\ t.at \in {"new", "run", "post", "handling", "acked", "term"}
                      /\ t.id \in 0..issued
                      /\ t.at = "handling" => t.n = creating.n

(***************************************************************************)
(* A plugin's start_session or update_session future that has not been     *)
(* cancelled belongs to the Active session, which counts it as in flight,  *)
(* and there is only one of them: session.rs keeps the calls of one plugin *)
(* apart across resets, deadlines, terminations and new sessions.          *)
(***************************************************************************)
Running(p) == {t \in tasks : t.plugin = p /\ t.at = "run" /\ t.linked}

OneCallAtATime ==
  \A p \in Plugins :
    /\ Cardinality(Running(p)) <= 1
    /\ \A t \in Running(p) : /\ state[p].kind = "Active"
                             /\ state[p].in_flight
                             /\ state[p].id = t.id

(***************************************************************************)
(* The agent's view of a session never runs ahead of the manager's: an     *)
(* Active session was announced to the services, and it is the comms       *)
(* process's current one unless that was replaced or forgotten since.      *)
(***************************************************************************)
ActiveWasAnnounced ==
  \A p \in Plugins :
    state[p].kind = "Active" =>
      /\ state[p].id \in announced
      /\ host.sessions[p] = NoSession \/ host.sessions[p] >= state[p].id

(***************************************************************************)
(* After a fault that the agent notices, agent, comms process and service  *)
(* end up with the same session for every plugin and keep it.  A second    *)
(* fault may leave the agent with a session the comms process has replaced *)
(* or forgotten, and nothing ends that one: see UnknownSessionEnds.        *)
(***************************************************************************)
Connected(p) ==
  /\ state[p].kind = "Active"
  /\ state[p].id = host.sessions[p]
  /\ state[p].id = held[p]

Reconnects == [](quiet = 0 /\ faults <= 1) => <>[](\A p \in Plugins : Connected(p))

(***************************************************************************)
(* What data_handler logs as it answers data of an unknown session:        *)
(* "Terminating session because unknown".  A session the comms process has *)
(* so answered ends at the agent.                                          *)
(***************************************************************************)
UnknownSessionEnds ==
  \A p \in Plugins, s \in 1..(MaxFaults + 1) :
    (\E i \in DOMAIN agent_tx : agent_tx[i] = ManagerMessage("SessionTerminate", p, s))
      ~> ~(state[p].kind = "Active" /\ state[p].id = s)
=============================================================================
