--------------------------- MODULE SessionStream ---------------------------
(***************************************************************************)
(* What the manager's services may rely on when they read the queue        *)
(* rust_agent_<plugin>_rx: the agent link, seen from its far end.          *)
(*                                                                         *)
(* For each plugin of one host the link has at most one current session.   *)
(* The stream carries the end of the previous session, the start of the    *)
(* next one, and data of the current session only.  The link may forget    *)
(* its sessions (the comms process restarts) and may fail half way through *)
(* announcing a session; what it never does is put data of a session on    *)
(* the stream before that session's start or after a later one's.          *)
(***************************************************************************)
EXTENDS Naturals, Sequences

CONSTANT Plugins   \* the agent's daemon plugins

NoSession == 0     \* no session: ids are issued from 1

VARIABLES
  cur,        \* plugin -> the current session, or NoSession
  opening,    \* plugin -> the messages still owed to the stream
  stream,     \* plugin -> the messages not yet read by the service
  held,       \* plugin -> the session the service knows of, or NoSession
  issued,     \* session ids issued so far: 1..issued
  announced   \* the sessions whose start has been put on the stream

vars == <<cur, opening, stream, held, issued, announced>>

Msg(t, s) == [type |-> t, id |-> s]

(***************************************************************************)
(* The announcement of session s that replaces session old.                *)
(***************************************************************************)
Announcement(old, s) ==
  IF old = NoSession THEN <<Msg("SessionCreate", s)>>
                     ELSE <<Msg("SessionTerminate", old), Msg("SessionCreate", s)>>

Init ==
  /\ cur = [p \in Plugins |-> NoSession]
  /\ opening = [p \in Plugins |-> <<>>]
  /\ stream = [p \in Plugins |-> <<>>]
  /\ held = [p \in Plugins |-> NoSession]
  /\ issued = 0
  /\ announced = {}

(***************************************************************************)
(* A new session, with an id never used before, becomes current.           *)
(***************************************************************************)
Open(p) ==
  /\ opening = [q \in Plugins |-> <<>>]
  /\ issued' = issued + 1
  /\ cur' = [cur EXCEPT ![p] = issued']
  /\ opening' = [opening EXCEPT ![p] = Announcement(cur[p], issued')]
  /\ UNCHANGED <<stream, held, announced>>

(***************************************************************************)
(* The next message of the announcement goes on the stream, or the rest of *)
(* the announcement is given up.                                           *)
(***************************************************************************)
Announce(p) ==
  /\ opening[p] # <<>>
  /\ stream' = [stream EXCEPT ![p] = Append(@, Head(opening[p]))]
  /\ opening' = [opening EXCEPT ![p] = Tail(@)]
  /\ announced' = IF Head(opening[p]).type = "SessionCreate"
                    THEN announced \cup {Head(opening[p]).id}
                    ELSE announced
  /\ UNCHANGED <<cur, held, issued>>

GiveUp(p) ==
  /\ opening[p] # <<>>
  /\ opening' = [opening EXCEPT ![p] = <<>>]
  /\ UNCHANGED <<cur, stream, held, issued, announced>>

(***************************************************************************)
(* Data of the current session, once its start is on the stream.           *)
(***************************************************************************)
Data(p) ==
  /\ cur[p] \in announced
  /\ opening = [q \in Plugins |-> <<>>]
  /\ stream' = [stream EXCEPT ![p] = Append(@, Msg("Data", cur[p]))]
  /\ UNCHANGED <<cur, opening, held, issued, announced>>

(***************************************************************************)
(* The service takes the next message, and knows the session the stream    *)
(* last said had started until it says that this very session has ended.   *)
(***************************************************************************)
HeldAfter(m, h) ==
  CASE m.type = "SessionCreate" -> m.id
    [] m.type = "SessionTerminate" /\ m.id = h -> NoSession
    [] OTHER -> h

Read(p) ==
  /\ stream[p] # <<>>
  /\ stream' = [stream EXCEPT ![p] = Tail(@)]
  /\ held' = [held EXCEPT ![p] = HeldAfter(Head(stream[p]), @)]
  /\ UNCHANGED <<cur, opening, issued, announced>>

(***************************************************************************)
(* The link forgets every session, and what it was announcing.             *)
(***************************************************************************)
Forget ==
  /\ cur' = [p \in Plugins |-> NoSession]
  /\ opening' = [p \in Plugins |-> <<>>]
  /\ UNCHANGED <<stream, held, issued, announced>>

Next ==
  \/ \E p \in Plugins : Open(p) \/ Announce(p) \/ GiveUp(p) \/ Data(p) \/ Read(p)
  \/ Forget

Spec == Init /\ [][Next]_vars

-----------------------------------------------------------------------------
(***************************************************************************)
(* When a service takes a data message, it is of the session the service   *)
(* knows of: receiver.rs and the plugins' consumers need no buffering and  *)
(* no reordering, whatever restarts and failed announcements came before.  *)
(***************************************************************************)
DataIsExpected ==
  \A p \in Plugins :
    (stream[p] # <<>> /\ Head(stream[p]).type = "Data") => Head(stream[p]).id = held[p]
=============================================================================
