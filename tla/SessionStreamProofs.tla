------------------------ MODULE SessionStreamProofs ------------------------
(***************************************************************************)
(* What every implementation of SessionStream gives a service: data it     *)
(* takes from its queue is always of the session it knows of.              *)
(*                                                                         *)
(* The property is about the head of the queue only.  The invariant says   *)
(* of every data message that its neighbour before it is of the same       *)
(* session and not an end, and of the tail that it is where the current    *)
(* session's data may follow.                                              *)
(***************************************************************************)
EXTENDS SessionStream, SequenceTheorems, TLAPS

USE ZenonT(20)

Message == [type : {"SessionCreate", "SessionTerminate", "Data"}, id : Nat]

TypeOK ==
  /\ issued \in Nat
  /\ cur \in [Plugins -> 0..issued]
  /\ opening \in [Plugins -> Seq(Message)]
  /\ stream \in [Plugins -> Seq(Message)]
  /\ held \in [Plugins -> Nat]
  /\ announced \subseteq 1..issued

(***************************************************************************)
(* Plugins never share a session, and an announcement under way ends with  *)
(* the start of the current session, which is not announced before.        *)
(***************************************************************************)
Owned ==
  \A p, q \in Plugins : (cur[p] = cur[q] /\ cur[p] # NoSession) => p = q

Owes(o, s) ==
  /\ s # NoSession
  /\ s \notin announced
  /\ \/ Len(o) = 1 /\ o[1] = Msg("SessionCreate", s)
     \/ Len(o) = 2 /\ o[1].type = "SessionTerminate" /\ o[2] = Msg("SessionCreate", s)

Owing == \A p \in Plugins : opening[p] # <<>> => Owes(opening[p], cur[p])

Follows(m, s) == m.type # "SessionTerminate" /\ m.id = s

Chained ==
  \A p \in Plugins : \A i \in 2..Len(stream[p]) :
    stream[p][i].type = "Data" => Follows(stream[p][i-1], stream[p][i].id)

(***************************************************************************)
(* Where data of an announced, current session would go.                   *)
(***************************************************************************)
Ready ==
  \A p \in Plugins :
    cur[p] \in announced =>
      IF stream[p] = <<>> THEN held[p] = cur[p]
                          ELSE Follows(stream[p][Len(stream[p])], cur[p])

Expected ==
  \A p \in Plugins :
    (stream[p] # <<>> /\ stream[p][1].type = "Data") => stream[p][1].id = held[p]

StreamInv == TypeOK /\ Owned /\ Owing /\ Chained /\ Ready /\ Expected

(* Nothing is open at the start.                                           *)
LEMMA InitInv == Init => StreamInv
BY SMT DEF Init, StreamInv, TypeOK, Owned, Owing, Chained, Ready, Expected, Message, NoSession

(* A session is opened: a new id, and its announcement still owed.         *)
LEMMA OpenInv ==
  ASSUME StreamInv, NEW p \in Plugins, Open(p)
  PROVE StreamInv'
<1> USE DEF StreamInv
<1>0. cur[p] \in Nat /\ issued + 1 \in Nat
  BY SMT DEF TypeOK
<1>1. Msg("SessionTerminate", cur[p]) \in Message /\ Msg("SessionCreate", issued + 1) \in Message
  BY <1>0 DEF Msg, Message
<1>2. Announcement(cur[p], issued + 1) \in Seq(Message)
  BY SMT, <1>1 DEF Announcement
<1>3. TypeOK'
  <2>1. issued' = issued + 1 /\ issued' \in Nat /\ announced' \subseteq 1..issued'
    BY SMT DEF Open, TypeOK
  <2>2. cur' \in [Plugins -> 0..issued']
    BY SMT, <2>1 DEF Open, TypeOK
  <2>3. opening' \in [Plugins -> Seq(Message)]
    BY <1>2, <2>1 DEF Open, TypeOK
  <2> QED
    BY <2>1, <2>2, <2>3 DEF Open, TypeOK
<1>4. Owned'
  BY SMT DEF Open, TypeOK, Owned
<1>5. Owing'
  <2> SUFFICES ASSUME NEW q \in Plugins, opening'[q] # <<>>
               PROVE  Owes(opening[q], cur[q])'
    BY DEF Owing
  <2>1. q = p
    BY DEF Open, TypeOK
  <2>2. cur'[q] = issued + 1 /\ announced' = announced
    BY <2>1 DEF Open, TypeOK
  <2>3. opening'[q] = Announcement(cur[p], issued + 1)
    BY <2>1 DEF Open, TypeOK
  <2>4. issued + 1 # NoSession /\ issued + 1 \notin announced
    BY SMT DEF TypeOK, NoSession
  <2>5. CASE cur[p] = NoSession
    BY SMT, <2>2, <2>3, <2>4, <2>5 DEF Owes, Announcement
  <2>6. CASE cur[p] # NoSession
    BY SMT, <2>2, <2>3, <2>4, <2>6 DEF Owes, Announcement, Msg
  <2> QED
    BY <2>5, <2>6
<1>6. Chained'
  BY DEF Open, Chained
<1>7. Ready'
  BY SMT, <1>0 DEF Open, Ready, TypeOK
<1>8. Expected'
  BY DEF Open, Expected
<1> QED
  BY <1>3, <1>4, <1>5, <1>6, <1>7, <1>8

(* The messages of a queue after its head are those of its tail.           *)
LEMMA TailFacts ==
  ASSUME NEW s \in Seq(Message), s # <<>>
  PROVE  /\ Tail(s) \in Seq(Message)
         /\ Len(Tail(s)) = Len(s) - 1
         /\ Len(s) \in Nat \ {0}
         /\ Head(s) = s[1] /\ Head(s) \in Message
         /\ \A i \in 1..Len(Tail(s)) : Tail(s)[i] = s[i + 1]
         /\ Tail(s) = <<>> <=> Len(s) = 1
<1>1. Head(s) = s[1] /\ Len(s) \in Nat \ {0}
  BY SMT
<1>2. /\ Head(s) \in Message /\ Tail(s) \in Seq(Message)
      /\ Len(Tail(s)) = Len(s) - 1
      /\ \A i \in 1..Len(Tail(s)) : Tail(s)[i] = s[i + 1]
  BY HeadTailProperties
<1>3. Tail(s) = <<>> <=> Len(Tail(s)) = 0
  BY <1>2, EmptySeq
<1> QED
  BY SMT, <1>1, <1>2, <1>3

(* The messages of a queue with one more at its end.                       *)
LEMMA AppendFacts ==
  ASSUME NEW s \in Seq(Message), NEW m \in Message
  PROVE  /\ Append(s, m) \in Seq(Message)
         /\ Append(s, m) # <<>>
         /\ Len(Append(s, m)) = Len(s) + 1
         /\ \A i \in 1..Len(s) : Append(s, m)[i] = s[i]
         /\ Append(s, m)[Len(s) + 1] = m
BY SMT

(***************************************************************************)
(* Appending a message to a plugin's stream: data only where it may follow.*)
(***************************************************************************)
LEMMA AppendInv ==
  ASSUME TypeOK, Chained, Expected, NEW p \in Plugins, NEW m \in Message,
         stream' = [stream EXCEPT ![p] = Append(@, m)], held' = held,
         m.type = "Data" => (IF stream[p] = <<>> THEN held[p] = m.id
                             ELSE Follows(stream[p][Len(stream[p])], m.id))
  PROVE Chained' /\ Expected'
<1>1. stream[p] \in Seq(Message) /\ stream'[p] = Append(stream[p], m)
  BY DEF TypeOK
<1>2. \A q \in Plugins : q # p => stream'[q] = stream[q]
  BY DEF TypeOK
<1>3. Chained'
  <2> SUFFICES ASSUME NEW q \in Plugins, NEW i \in 2..Len(stream'[q]), stream'[q][i].type = "Data"
               PROVE  Follows(stream'[q][i-1], stream'[q][i].id)
    BY DEF Chained
  <2>1. CASE q # p
    BY <1>2, <2>1 DEF Chained
  <2>2. CASE q = p /\ i <= Len(stream[p])
    <3>1. i \in 2..Len(stream[p]) /\ i \in 1..Len(stream[p]) /\ i - 1 \in 1..Len(stream[p])
      BY SMT, <1>1, <2>2
    <3>2. stream'[q][i] = stream[p][i] /\ stream'[q][i-1] = stream[p][i-1]
      BY SMT, <1>1, <2>2, <3>1, AppendFacts
    <3> QED
      BY <3>1, <3>2 DEF Chained
  <2>3. CASE q = p /\ i = Len(stream[p]) + 1
    <3>1. Len(stream[p]) \in 1..Len(stream[p]) /\ i - 1 = Len(stream[p]) /\ stream[p] # <<>>
      BY SMT, <1>1, <2>3
    <3>2. stream'[q][i] = m /\ stream'[q][i-1] = stream[p][Len(stream[p])]
      BY SMT, <1>1, <2>3, <3>1, AppendFacts
    <3> QED
      BY <3>1, <3>2
  <2>4. q = p => Len(stream'[q]) = Len(stream[p]) + 1
    BY SMT, <1>1, AppendFacts
  <2> QED
    BY SMT, <1>1, <2>1, <2>2, <2>3, <2>4
<1>4. Expected'
  <2> SUFFICES ASSUME NEW q \in Plugins, stream'[q] # <<>>, stream'[q][1].type = "Data"
               PROVE  stream'[q][1].id = held[q]
    BY DEF Expected
  <2>1. CASE q # p
    BY <1>2, <2>1 DEF Expected
  <2>2. CASE q = p /\ stream[p] # <<>>
    <3>1. 1 \in 1..Len(stream[p])
      BY SMT, <1>1, <2>2
    <3> QED
      BY SMT, <1>1, <2>2, <3>1, AppendFacts DEF Expected
  <2>3. CASE q = p /\ stream[p] = <<>>
    <3>1. stream'[q][1] = m
      BY SMT, <1>1, <2>3, AppendFacts
    <3> QED
      BY <2>3, <3>1
  <2> QED
    BY <2>1, <2>2, <2>3
<1> QED
  BY <1>3, <1>4

(* The next message of an announcement goes out.                           *)
LEMMA AnnounceInv ==
  ASSUME StreamInv, NEW p \in Plugins, Announce(p)
  PROVE StreamInv'
<1> DEFINE m == Head(opening[p])
<1>0. TypeOK /\ Owned /\ Owing /\ Chained /\ Ready /\ Expected
  BY DEF StreamInv
<1>1. /\ opening[p] # <<>> /\ opening[p] \in Seq(Message)
      /\ cur[p] \in 1..issued /\ Owes(opening[p], cur[p])
  BY SMT, <1>0 DEF Announce, Owing, Owes, TypeOK, NoSession
<1>2. /\ m \in Message /\ m.type # "Data"
      /\ m.type = "SessionCreate" => (m.id = cur[p] /\ Tail(opening[p]) = <<>>)
      /\ Tail(opening[p]) # <<>> => (m.type # "SessionCreate" /\ Owes(Tail(opening[p]), cur[p]))
  <2>1. /\ m = opening[p][1] /\ m \in Message /\ Len(opening[p]) \in Nat
        /\ Len(Tail(opening[p])) = Len(opening[p]) - 1
        /\ \A i \in 1..Len(Tail(opening[p])) : Tail(opening[p])[i] = opening[p][i + 1]
        /\ Tail(opening[p]) = <<>> <=> Len(opening[p]) = 1
    BY <1>1, TailFacts
  <2>2. CASE Len(opening[p]) = 1 /\ opening[p][1] = Msg("SessionCreate", cur[p])
    BY SMT, <2>1, <2>2 DEF Msg
  <2>3. CASE Len(opening[p]) = 2 /\ opening[p][1].type = "SessionTerminate" /\ opening[p][2] = Msg("SessionCreate", cur[p])
    <3>1. Len(Tail(opening[p])) = 1 /\ Tail(opening[p])[1] = opening[p][2]
      BY SMT, <2>1, <2>3
    <3>2. Owes(Tail(opening[p]), cur[p])
      BY <1>1, <2>3, <3>1 DEF Owes
    <3> QED
      BY <2>1, <2>3, <3>2
  <2> QED
    BY <1>1, <2>2, <2>3 DEF Owes
<1>3. /\ stream' = [stream EXCEPT ![p] = Append(@, m)]
      /\ opening' = [opening EXCEPT ![p] = Tail(@)]
      /\ announced' = IF m.type = "SessionCreate" THEN announced \cup {m.id} ELSE announced
      /\ cur' = cur /\ held' = held /\ issued' = issued
  BY DEF Announce
<1>4. Chained' /\ Expected'
  BY <1>0, <1>2, <1>3, AppendInv
<1> HIDE DEF m
<1>5. TypeOK'
  <2>1. stream[p] \in Seq(Message) /\ Tail(opening[p]) \in Seq(Message)
    BY SMT, <1>0, <1>1 DEF TypeOK
  <2>2. Append(stream[p], m) \in Seq(Message)
    BY SMT, <2>1, <1>2
  <2> QED
    BY <1>0, <1>1, <1>2, <1>3, <2>1, <2>2 DEF TypeOK
<1>6. Owned'
  BY <1>0, <1>3 DEF Owned
<1>7. Owing'
  <2> SUFFICES ASSUME NEW q \in Plugins, opening'[q] # <<>>
               PROVE  Owes(opening[q], cur[q])'
    BY <1>3 DEF Owing
  <2>1. CASE q = p
    <3>1. opening'[p] = Tail(opening[p])
      BY <1>0, <1>3 DEF TypeOK
    <3>2. Owes(Tail(opening[p]), cur[p]) /\ announced' = announced
      BY <1>2, <1>3, <2>1, <3>1
    <3> QED
      BY <1>3, <2>1, <3>1, <3>2 DEF Owes
  <2>2. CASE q # p
    <3>1. opening'[q] = opening[q]
      BY <1>0, <1>3, <2>2 DEF TypeOK
    <3>2. Owes(opening[q], cur[q])
      BY <1>0, <3>1 DEF Owing
    <3>3. cur[q] # cur[p]
      BY <1>0, <2>2, <3>2 DEF Owned, Owes
    <3>4. cur[q] \notin announced'
      BY <1>2, <1>3, <3>2, <3>3 DEF Owes
    <3> QED
      BY <1>3, <3>1, <3>2, <3>4 DEF Owes
  <2> QED
    BY <2>1, <2>2
<1>8. Ready'
  <2> SUFFICES ASSUME NEW q \in Plugins, cur[q] \in announced'
               PROVE  IF stream'[q] = <<>> THEN held[q] = cur[q]
                      ELSE Follows(stream'[q][Len(stream'[q])], cur[q])
    BY <1>3 DEF Ready
  <2>1. CASE q = p
    <3>1. m.type = "SessionCreate" /\ m.id = cur[p]
      BY <1>1, <1>2, <1>3, <2>1 DEF Owes
    <3>2. stream[p] \in Seq(Message) /\ stream'[p] = Append(stream[p], m)
      BY <1>0, <1>3 DEF TypeOK
    <3>3. stream'[p] # <<>> /\ stream'[p][Len(stream'[p])] = m
      BY SMT, <1>2, <3>2, AppendFacts
    <3> QED
      BY <2>1, <3>1, <3>3 DEF Follows
  <2>2. CASE q # p
    <3>1. stream'[q] = stream[q]
      BY <1>0, <1>3, <2>2 DEF TypeOK
    <3>2. cur[q] \in announced
      BY SMT, <1>0, <1>1, <1>2, <1>3, <2>2 DEF Owned, NoSession, TypeOK
    <3> QED
      BY <1>0, <3>1, <3>2 DEF Ready
  <2> QED
    BY <2>1, <2>2
<1> QED
  BY <1>4, <1>5, <1>6, <1>7, <1>8 DEF StreamInv

(* An announcement is given up half way.                                   *)
LEMMA GiveUpInv ==
  ASSUME StreamInv, NEW p \in Plugins, GiveUp(p)
  PROVE StreamInv'
<1>1. TypeOK'
  BY SMT DEF GiveUp, StreamInv, TypeOK
<1>2. Owned' /\ Chained' /\ Ready' /\ Expected'
  BY DEF GiveUp, StreamInv, Owned, Chained, Ready, Expected
<1>3. Owing'
  BY DEF GiveUp, StreamInv, TypeOK, Owing, Owes
<1> QED
  BY <1>1, <1>2, <1>3 DEF StreamInv

(* Data of the current session goes out.                                   *)
LEMMA DataInv ==
  ASSUME StreamInv, NEW p \in Plugins, Data(p)
  PROVE StreamInv'
<1> DEFINE m == Msg("Data", cur[p])
<1>0. TypeOK /\ Owned /\ Owing /\ Chained /\ Ready /\ Expected
  BY DEF StreamInv
<1>1. m \in Message /\ m.type = "Data" /\ m.id = cur[p] /\ cur[p] \in announced
  BY SMT, <1>0 DEF Data, TypeOK, Msg, Message
<1>2. /\ stream' = [stream EXCEPT ![p] = Append(@, m)]
      /\ cur' = cur /\ opening' = opening /\ held' = held /\ issued' = issued /\ announced' = announced
  BY DEF Data
<1> HIDE DEF m
<1>3. IF stream[p] = <<>> THEN held[p] = m.id ELSE Follows(stream[p][Len(stream[p])], m.id)
  BY <1>0, <1>1 DEF Ready
<1>4. Chained' /\ Expected'
  BY <1>0, <1>1, <1>2, <1>3, AppendInv
<1>5. stream[p] \in Seq(Message) /\ stream'[p] = Append(stream[p], m)
  BY <1>0, <1>2 DEF TypeOK
<1>6. TypeOK'
  BY SMT, <1>0, <1>1, <1>2, <1>5 DEF TypeOK
<1>7. Owned' /\ Owing'
  BY <1>0, <1>2 DEF Owned, Owing, Owes
<1>8. Ready'
  <2> SUFFICES ASSUME NEW q \in Plugins, cur[q] \in announced
               PROVE  IF stream'[q] = <<>> THEN held[q] = cur[q]
                      ELSE Follows(stream'[q][Len(stream'[q])], cur[q])
    BY <1>2 DEF Ready
  <2>1. CASE q = p
    <3>1. stream'[p] # <<>> /\ stream'[p][Len(stream'[p])] = m
      BY SMT, <1>1, <1>5, AppendFacts
    <3> QED
      BY <2>1, <3>1, <1>1 DEF Follows
  <2>2. CASE q # p
    BY <1>0, <1>2, <2>2 DEF Ready, TypeOK
  <2> QED
    BY <2>1, <2>2
<1> QED
  BY <1>4, <1>6, <1>7, <1>8 DEF StreamInv

(* The service takes the next message.                                     *)
LEMMA ReadInv ==
  ASSUME StreamInv, NEW p \in Plugins, Read(p)
  PROVE StreamInv'
<1> DEFINE s == stream[p]
<1>0. TypeOK /\ Owned /\ Owing /\ Chained /\ Ready /\ Expected
  BY DEF StreamInv
<1>1. s \in Seq(Message) /\ s # <<>> /\ held[p] \in Nat
  BY <1>0 DEF Read, TypeOK
<1>2. /\ stream' = [stream EXCEPT ![p] = Tail(s)]
      /\ held' = [held EXCEPT ![p] = HeldAfter(s[1], held[p])]
      /\ cur' = cur /\ opening' = opening /\ issued' = issued /\ announced' = announced
  BY <1>1, TailFacts DEF Read
<1>3. /\ s[1] \in Message
      /\ \A i \in 1..Len(Tail(s)) : Tail(s)[i] = s[i + 1]
      /\ Tail(s) \in Seq(Message)
      /\ Len(Tail(s)) = Len(s) - 1
      /\ Len(s) \in Nat \ {0}
      /\ Tail(s) = <<>> <=> Len(s) = 1
  BY <1>1, TailFacts
<1>4. HeldAfter(s[1], held[p]) \in Nat
  BY <1>1, <1>3 DEF HeldAfter, Message, NoSession
<1>5. \A id \in Nat : Follows(s[1], id) => HeldAfter(s[1], held[p]) = id
  <2> SUFFICES ASSUME NEW id \in Nat, Follows(s[1], id)
               PROVE  HeldAfter(s[1], held[p]) = id
    OBVIOUS
  <2>1. CASE s[1].type = "SessionCreate"
    BY <2>1 DEF HeldAfter, Follows
  <2>2. CASE s[1].type = "Data"
    <3>1. s[1].id = held[p]
      BY <1>0, <1>1, <2>2 DEF Expected
    <3> QED
      BY <2>2, <3>1 DEF HeldAfter, Follows
  <2> QED
    BY <1>3, <2>1, <2>2 DEF Message, Follows
<1> HIDE DEF s
<1>6. stream'[p] = Tail(s) /\ held'[p] = HeldAfter(s[1], held[p])
  BY <1>0, <1>2 DEF TypeOK
<1>7. \A q \in Plugins : q # p => stream'[q] = stream[q] /\ held'[q] = held[q]
  BY <1>0, <1>2 DEF TypeOK
<1>8. TypeOK'
  BY <1>0, <1>2, <1>3, <1>4 DEF TypeOK
<1>9. Owned' /\ Owing'
  BY <1>0, <1>2 DEF Owned, Owing, Owes
<1>10. \A i \in 2..Len(s) : s[i].type = "Data" => Follows(s[i-1], s[i].id)
  BY <1>0 DEF Chained, s
<1>11. Chained'
  <2> SUFFICES ASSUME NEW q \in Plugins, NEW i \in 2..Len(stream'[q]), stream'[q][i].type = "Data"
               PROVE  Follows(stream'[q][i-1], stream'[q][i].id)
    BY DEF Chained
  <2>1. CASE q # p
    BY <1>0, <1>7, <2>1 DEF Chained
  <2>2. CASE q = p
    <3>1. i \in 1..Len(Tail(s)) /\ i - 1 \in 1..Len(Tail(s)) /\ i + 1 \in 2..Len(s)
      BY SMT, <1>3, <1>6, <2>2
    <3>2. stream'[q][i] = s[i + 1] /\ stream'[q][i - 1] = s[(i - 1) + 1]
      BY <1>3, <1>6, <2>2, <3>1
    <3>3. (i - 1) + 1 = (i + 1) - 1
      BY SMT, <3>1
    <3> QED
      BY <1>10, <3>1, <3>2, <3>3
  <2> QED
    BY <2>1, <2>2
<1>12. Expected'
  <2> SUFFICES ASSUME NEW q \in Plugins, stream'[q] # <<>>, stream'[q][1].type = "Data"
               PROVE  stream'[q][1].id = held'[q]
    BY DEF Expected
  <2>1. CASE q # p
    BY <1>0, <1>7, <2>1 DEF Expected
  <2>2. CASE q = p
    <3>1. 1 \in 1..Len(Tail(s)) /\ 2 \in 2..Len(s) /\ 2 \in 1..Len(s)
      BY SMT, <1>3, <1>6, <2>2
    <3>2. stream'[q][1] = s[2]
      BY SMTT(30), <1>3, <1>6, <2>2, <3>1
    <3>3. s \in Seq(Message)
      BY <1>1
    <3>4. s[2] \in Message
      BY SMT, <3>1, <3>3
    <3>5. s[2].id \in Nat
      BY <3>4 DEF Message
    <3>6. Follows(s[1], s[2].id)
      BY SMT, <1>10, <2>2, <3>1, <3>2
    <3> QED
      BY <1>5, <1>6, <2>2, <3>2, <3>5, <3>6
  <2> QED
    BY <2>1, <2>2
<1>13. Ready'
  <2> SUFFICES ASSUME NEW q \in Plugins, cur[q] \in announced
               PROVE  IF stream'[q] = <<>> THEN held'[q] = cur[q]
                      ELSE Follows(stream'[q][Len(stream'[q])], cur[q])
    BY <1>2 DEF Ready
  <2>1. CASE q # p
    BY <1>0, <1>7, <2>1 DEF Ready
  <2>2. CASE q = p
    <3>1. Follows(s[Len(s)], cur[p]) /\ cur[p] \in Nat
      BY SMT, <1>0, <1>1, <2>2 DEF Ready, TypeOK, s
    <3>2. CASE Tail(s) = <<>>
      BY <1>3, <1>5, <1>6, <2>2, <3>1, <3>2
    <3>3. CASE Tail(s) # <<>>
      <4>1. Len(Tail(s)) \in 1..Len(Tail(s)) /\ Len(Tail(s)) + 1 = Len(s)
        BY SMT, <1>3, <3>3
      <4>2. Tail(s)[Len(Tail(s))] = s[Len(s)]
        BY <1>3, <4>1
      <4> QED
        BY <1>6, <2>2, <3>1, <3>3, <4>2
    <3> QED
      BY <3>2, <3>3
  <2> QED
    BY <2>1, <2>2
<1> QED
  BY <1>8, <1>9, <1>11, <1>12, <1>13 DEF StreamInv

(* The comms process restarts.                                             *)
LEMMA ForgetInv == StreamInv /\ Forget => StreamInv'
<1> SUFFICES ASSUME StreamInv, Forget PROVE StreamInv'
  OBVIOUS
<1>1. TypeOK'
  BY SMT DEF Forget, StreamInv, TypeOK, NoSession
<1>2. Owned' /\ Owing' /\ Ready'
  BY SMT DEF Forget, StreamInv, TypeOK, Owned, Owing, Ready, NoSession
<1>3. Chained' /\ Expected'
  BY DEF Forget, StreamInv, Chained, Expected
<1> QED
  BY <1>1, <1>2, <1>3 DEF StreamInv

(* Every step keeps the invariant.                                         *)
LEMMA NextInv == StreamInv /\ [Next]_vars => StreamInv'
<1> SUFFICES ASSUME StreamInv, [Next]_vars PROVE StreamInv'
  OBVIOUS
<1>1. ASSUME NEW p \in Plugins, Open(p) \/ Announce(p) \/ GiveUp(p) \/ Data(p) \/ Read(p)
      PROVE StreamInv'
  BY <1>1, OpenInv, AnnounceInv, GiveUpInv, DataInv, ReadInv
<1>2. CASE Forget
  BY <1>2, ForgetInv
<1>3. CASE UNCHANGED vars
  BY <1>3 DEF vars, StreamInv, TypeOK, Owned, Owing, Owes, Chained, Ready, Expected
<1> QED
  BY <1>1, <1>2, <1>3 DEF Next

(***************************************************************************)
(* A service that reads rust_agent_<plugin>_rx never meets data of a       *)
(* session other than the one it was last told of (receiver.rs, handle_    *)
(* data), for any set of plugins and any number of sessions, restarts of   *)
(* the comms process and announcements given up half way.                  *)
(***************************************************************************)
THEOREM ServiceIsInStep == Spec => []DataIsExpected
<1>1. StreamInv => DataIsExpected
  <2> SUFFICES ASSUME StreamInv, NEW p \in Plugins, stream[p] # <<>>, Head(stream[p]).type = "Data"
               PROVE  Head(stream[p]).id = held[p]
    BY DEF DataIsExpected
  <2>1. stream[p] \in Seq(Message)
    BY DEF StreamInv, TypeOK
  <2>2. Head(stream[p]) = stream[p][1]
    BY <2>1, TailFacts
  <2> QED
    BY <2>2 DEF StreamInv, Expected
<1> QED
  BY <1>1, InitInv, NextInv, PTL DEF Spec
=============================================================================
