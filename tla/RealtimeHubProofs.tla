--------------------------- MODULE RealtimeHubProofs ---------------------------
(***************************************************************************)
(* Proofs about RealtimeHub, for any number of clients, users and          *)
(* notifications, whenever clients come and go.                            *)
(***************************************************************************)
EXTENDS RealtimeHub, TLAPS

TypeOK ==
  /\ peer \in [Conns -> {"new", "reading", "stalled", "gone"}]
  /\ clients \subseteq Conns /\ copy \subseteq Conns
  /\ notified \in 0..MaxEvents
  /\ inbox \in Seq(Event) /\ taken \in Seq(Event)
  /\ handing \in Event \cup {Nil} /\ current \in Event \cup {Nil}
  /\ joined \in [Conns -> Nat]
  /\ written \in [Conns -> Seq(Event)]

\* On its way from the database to Run an event keeps its place: those taken
\* come before the one in the channel, and that before those not received.
InCommitOrder ==
  /\ \A i, j \in DOMAIN taken : i < j => taken[i].id < taken[j].id
  /\ \A i \in DOMAIN taken :
       /\ taken[i].id <= notified
       /\ handing # Nil => taken[i].id < handing.id
       /\ \A j \in DOMAIN inbox : taken[i].id < inbox[j].id
  /\ handing # Nil => /\ handing.id <= notified
                      /\ \A j \in DOMAIN inbox : handing.id < inbox[j].id
  /\ \A i, j \in DOMAIN inbox : i < j => inbox[i].id < inbox[j].id
  /\ \A i \in DOMAIN inbox : inbox[i].id <= notified

\* While Run has clients left to write to it writes the last message taken.
WritesTheLast ==
  /\ current # Nil => Len(taken) > 0 /\ current = taken[Len(taken)]
  /\ copy # {} => current # Nil

\* A client of the copy registered before that message was taken, and one that
\* has not registered is nowhere.
RegisteredBefore ==
  \A c \in Conns :
    /\ joined[c] <= Len(taken)
    /\ c \in copy => joined[c] < Len(taken)
    /\ peer[c] = "new" => c \notin clients /\ c \notin copy /\ written[c] = <<>>

IInv == TypeOK /\ InCommitOrder /\ WritesTheLast /\ RegisteredBefore /\ DeliversInOrder

-----------------------------------------------------------------------------
(***************************************************************************)
(* The parts of the invariant that say how things are ordered.             *)
(***************************************************************************)

\* A step keeps the types.
LEMMA TypesKept ==
  ASSUME TypeOK, WritesTheLast, [Next]_vars
  PROVE  TypeOK'
<1> USE HubAssumption DEF TypeOK
<1>1. ASSUME NEW c \in Conns, Register(c) PROVE TypeOK'
  BY <1>1 DEF Register, listener
<1>2. ASSUME NEW c \in Conns, PeerChanges(c) PROVE TypeOK'
  BY <1>2 DEF PeerChanges, listener, history
<1>3. ASSUME NEW c \in Conns, ReadFails(c) PROVE TypeOK'
  BY <1>3 DEF ReadFails, listener, history
<1>4. ASSUME NEW c \in Conns, Write(c) PROVE TypeOK'
  <2>1. current \in Event
    BY <1>4 DEF Write, WritesTheLast
  <2>2. Append(written[c], current) \in Seq(Event)
    BY <2>1
  <2>3. written' \in [Conns -> Seq(Event)]
    BY <1>4, <2>2 DEF Write
  <2> QED BY <1>4, <2>3 DEF Write, listener
<1>5. ASSUME NEW user \in Users \cup {Nil}, Notify(user) PROVE TypeOK'
  <2> DEFINE new == [id |-> notified', user |-> user]
  <2>1. notified' \in 0..MaxEvents /\ new \in Event
    BY <1>5 DEF Notify, Event
  <2>2. inbox' \in Seq(Event)
    BY <1>5, <2>1 DEF Notify
  <2> QED BY <1>5, <2>1, <2>2 DEF Notify, history
<1>6. CASE LoseConnection
  BY <1>6 DEF LoseConnection, history
<1>7. CASE WaitForNotification
  BY <1>7 DEF WaitForNotification, history
<1>8. CASE TakeMessage
  BY <1>8 DEF TakeMessage
<1>9. CASE FinishMessage
  BY <1>9 DEF FinishMessage, listener, history
<1>10. CASE UNCHANGED vars
  BY <1>10 DEF vars, listener, history
<1> QED BY <1>1, <1>2, <1>3, <1>4, <1>5, <1>6, <1>7, <1>8, <1>9, <1>10 DEF Next

\* Events on their way are numbered.
LEMMA EventsNumbered ==
  ASSUME TypeOK
  PROVE  /\ \A i \in DOMAIN taken : taken[i].id \in Nat
         /\ \A i \in DOMAIN inbox : inbox[i].id \in Nat
         /\ handing # Nil => handing.id \in Nat
<1>1. \A e \in Event : e.id \in Nat
  BY HubAssumption DEF Event
<1> QED BY <1>1 DEF TypeOK

\* What the connections of clients do leaves the events in their order.
LEMMA OrderKept ==
  ASSUME IInv, [Next]_vars
  PROVE  InCommitOrder'
<1> USE HubAssumption, NilIsNoEvent
<1>1. CASE UNCHANGED <<taken, handing, inbox, notified>>
  BY <1>1 DEF IInv, InCommitOrder
<1> USE EventsNumbered DEF IInv
<1>2. ASSUME NEW user \in Users \cup {Nil}, Notify(user) PROVE InCommitOrder'
  <2>1. /\ notified' = notified + 1 /\ UNCHANGED <<taken, handing>>
        /\ notified \in Nat
    BY <1>2 DEF Notify, IInv, TypeOK, listener, history
  <2>2. CASE inbox' = inbox
    BY <2>1, <2>2 DEF InCommitOrder
  <2>3. CASE inbox' = Append(inbox, [id |-> notified', user |-> user])
    <3>1. /\ Len(inbox') = Len(inbox) + 1 /\ Len(inbox) \in Nat
          /\ DOMAIN inbox' = 1 .. Len(inbox) + 1 /\ DOMAIN inbox = 1 .. Len(inbox)
          /\ \A j \in 1 .. Len(inbox) : inbox'[j] = inbox[j]
          /\ inbox'[Len(inbox) + 1].id = notified + 1
      BY <2>1, <2>3 DEF IInv, TypeOK
    <3>2. \A i \in DOMAIN taken : taken[i].id \in Nat /\ taken[i].id <= notified
      BY DEF InCommitOrder
    <3>3. \A i \in DOMAIN inbox : inbox[i].id \in Nat /\ inbox[i].id <= notified
      BY DEF InCommitOrder
    <3>4. handing # Nil => handing.id \in Nat /\ handing.id <= notified
      BY DEF InCommitOrder
    <3>5. \A i, j \in DOMAIN inbox' : i < j => inbox'[i].id < inbox'[j].id
      BY <2>1, <3>1, <3>3 DEF InCommitOrder
    <3> QED BY <2>1, <3>1, <3>2, <3>3, <3>4, <3>5 DEF InCommitOrder
  <2> QED BY <1>2, <2>2, <2>3 DEF Notify
<1>3. CASE LoseConnection
  <2>1. inbox' = <<>> /\ UNCHANGED <<taken, handing, notified>>
    BY <1>3 DEF LoseConnection, history
  <2>2. DOMAIN inbox' = {}
    BY <2>1
  <2> QED BY <2>1, <2>2 DEF IInv, InCommitOrder
<1>4. CASE WaitForNotification
  <2>1. /\ UNCHANGED <<taken, notified>>
        /\ handing = Nil /\ inbox # <<>> /\ handing' = Head(inbox) /\ inbox' = Tail(inbox)
    BY <1>4 DEF WaitForNotification, history
  <2>2. /\ Len(inbox) \in Nat \ {0} /\ 1 \in DOMAIN inbox /\ handing' = inbox[1]
        /\ DOMAIN inbox = 1 .. Len(inbox) /\ DOMAIN inbox' = 1 .. Len(inbox) - 1
        /\ \A j \in DOMAIN inbox' : j + 1 \in DOMAIN inbox /\ inbox'[j] = inbox[j + 1]
    BY <2>1 DEF IInv, TypeOK
  <2> QED BY <2>1, <2>2 DEF IInv, InCommitOrder
<1>5. CASE TakeMessage
  <2>1. /\ UNCHANGED <<inbox, notified>>
        /\ handing # Nil /\ handing' = Nil /\ taken' = Append(taken, handing)
    BY <1>5 DEF TakeMessage
  <2>2. /\ Len(taken) \in Nat /\ DOMAIN taken = 1 .. Len(taken)
        /\ DOMAIN taken' = 1 .. Len(taken) + 1
        /\ \A j \in 1 .. Len(taken) : taken'[j] = taken[j]
        /\ taken'[Len(taken) + 1] = handing
    BY <2>1 DEF IInv, TypeOK
  <2> QED BY <2>1, <2>2 DEF IInv, InCommitOrder
<1> QED
  BY <1>1, <1>2, <1>3, <1>4, <1>5
     DEF Next, Register, PeerChanges, ReadFails, Write, FinishMessage, vars,
         listener, history

\* Run keeps to the last message until it has come to every client of its copy.
LEMMA LastKept ==
  ASSUME IInv, [Next]_vars
  PROVE  WritesTheLast'
<1>1. CASE TakeMessage
  <2>1. /\ current' = handing /\ taken' = Append(taken, handing)
        /\ handing \in Event /\ taken \in Seq(Event) /\ current' # Nil
    BY <1>1 DEF TakeMessage, IInv, TypeOK
  <2>2. Len(taken') > 0 /\ taken'[Len(taken')] = handing
    BY <2>1
  <2> QED BY <2>1, <2>2 DEF WritesTheLast
<1>2. CASE FinishMessage
  BY <1>2 DEF FinishMessage, WritesTheLast, history
<1>3. ASSUME NEW c \in Conns, Write(c) PROVE WritesTheLast'
  BY <1>3 DEF Write, WritesTheLast, IInv
<1>4. CASE UNCHANGED <<current, taken, copy>>
  BY <1>4 DEF WritesTheLast, IInv
<1> QED
  BY <1>1, <1>2, <1>3, <1>4
     DEF Next, Register, PeerChanges, ReadFails, Notify, LoseConnection,
         WaitForNotification, vars, listener, history

\* Run copies clients that are there, and so have registered before.
LEMMA RegistrationKept ==
  ASSUME IInv, [Next]_vars
  PROVE  RegisteredBefore'
<1> USE DEF IInv, TypeOK, RegisteredBefore
<1>1. ASSUME NEW c \in Conns, Register(c) PROVE RegisteredBefore'
  BY <1>1 DEF Register
<1>2. ASSUME NEW c \in Conns, PeerChanges(c) PROVE RegisteredBefore'
  BY <1>2 DEF PeerChanges, history
<1>3. ASSUME NEW c \in Conns, ReadFails(c) PROVE RegisteredBefore'
  BY <1>3 DEF ReadFails, history
<1>4. ASSUME NEW c \in Conns, Write(c) PROVE RegisteredBefore'
  BY <1>4 DEF Write
<1>5. CASE TakeMessage
  <2>1. /\ taken' = Append(taken, handing) /\ copy' = clients
        /\ handing \in Event
        /\ UNCHANGED <<peer, clients, joined, written>>
    BY <1>5 DEF TakeMessage
  <2>2. Len(taken') = Len(taken) + 1 /\ Len(taken) \in Nat
    BY <2>1
  <2> QED BY <2>1, <2>2
<1>6. CASE UNCHANGED <<peer, clients, copy, joined, taken, written>>
  BY <1>6
<1> QED
  BY <1>1, <1>2, <1>3, <1>4, <1>5, <1>6
     DEF Next, Notify, LoseConnection, WaitForNotification, FinishMessage, vars,
         history

-----------------------------------------------------------------------------
(***************************************************************************)
(* What a client has been written.                                         *)
(***************************************************************************)

\* DeliversInOrder of one connection.
Delivered(c) ==
  /\ \A n \in DOMAIN written[c] : \E i \in Due(c) : taken[i] = written[c][n]
  /\ \A m, n \in DOMAIN written[c] : m < n => written[c][m].id < written[c][n].id
  /\ c \in clients /\ peer[c] # "gone"
       => \A i \in Due(c) : WasWritten(c, taken[i])
  /\ \A i, j \in Due(c) :
       i < j /\ WasWritten(c, taken[j]) => WasWritten(c, taken[i])

\* A connection for which the same is due, that has been written the same and
\* is no more among the clients than it was, is delivered what it was.
LEMMA DeliveredAsBefore ==
  ASSUME NEW d \in Conns, Delivered(d),
         Due(d)' = Due(d), \A i \in Due(d) : taken'[i] = taken[i],
         written'[d] = written[d],
         d \in clients' /\ peer'[d] # "gone" => d \in clients /\ peer[d] # "gone"
  PROVE  Delivered(d)'
BY DEF Delivered, WasWritten

\* One more message is due to a connection that will not get it: what it has
\* been written still is a first part.
LEMMA DeliveredNoMore ==
  ASSUME NEW d \in Conns, Delivered(d), NEW last \in Nat,
         Due(d) \subseteq Nat, \A i \in Due(d) : i < last,
         Due(d)' \in {Due(d), Due(d) \cup {last}},
         \A i \in Due(d) : taken'[i] = taken[i] /\ taken'[i] # taken'[last],
         written'[d] = written[d],
         d \notin clients' \/ peer'[d] = "gone"
  PROVE  Delivered(d)'
<1>1. ~WasWritten(d, taken[last])'
  BY DEF Delivered, WasWritten
<1>2. \A i \in Due(d) : WasWritten(d, taken[i])' <=> WasWritten(d, taken[i])
  BY DEF WasWritten
<1>3. \A i, j \in Due(d)' :
        i < j /\ WasWritten(d, taken[j])' => WasWritten(d, taken[i])'
  BY <1>1, <1>2 DEF Delivered
<1> QED BY <1>3 DEF Delivered

\* What is due to a connection was taken, and its order tells it apart.
LEMMA DueWasTaken ==
  ASSUME IInv, NEW d \in Conns
  PROVE  /\ taken \in Seq(Event) /\ Len(taken) \in Nat /\ DOMAIN taken = 1 .. Len(taken)
         /\ Due(d) \subseteq Nat /\ Due(d) \subseteq DOMAIN taken
         /\ joined[d] \in Nat
         /\ \A i, j \in DOMAIN taken : i < j => taken[i] # taken[j]
<1>1. /\ taken \in Seq(Event) /\ Len(taken) \in Nat /\ DOMAIN taken = 1 .. Len(taken)
      /\ joined[d] \in Nat
  BY DEF IInv, TypeOK
<1>2. Due(d) \subseteq Nat /\ Due(d) \subseteq DOMAIN taken
  BY <1>1 DEF Due
<1>3. \A i, j \in DOMAIN taken : i < j => taken[i] # taken[j]
  BY EventsNumbered DEF IInv, InCommitOrder
<1> QED BY <1>1, <1>2, <1>3

\* When Run writes the last message to c, c has got all that was due before.
LEMMA WrittenInOrder ==
  ASSUME IInv, NEW c \in Conns, Write(c), Owns(c, current),
         c \in clients, peer[c] = "reading",
         written' = [written EXCEPT ![c] = Append(@, current)],
         copy' = copy \ {c}, UNCHANGED <<taken, joined>>
  PROVE  Delivered(c)'
<1> DEFINE last == Len(taken)
           got == Len(written[c])
<1>1. /\ c \in copy /\ current = taken[last] /\ last \in Nat \ {0}
      /\ joined[c] \in Nat /\ joined[c] < last
  BY DueWasTaken DEF Write, IInv, WritesTheLast, RegisteredBefore
<1>2. Due(c)' = Due(c) \cup {last} /\ last \notin Due(c) /\ \A i \in Due(c) : i < last
  <2>1. copy' = copy \ {c} /\ UNCHANGED <<taken, joined>>
    OBVIOUS
  <2> QED BY <1>1, <2>1 DEF Due, Owns
<1>3. current \in Event /\ written[c] \in Seq(Event)
  BY <1>1, DueWasTaken DEF IInv, TypeOK
<1>4. /\ got \in Nat /\ DOMAIN written[c] = 1 .. got
      /\ DOMAIN written'[c] = 1 .. got + 1
      /\ \A n \in 1 .. got : written'[c][n] = written[c][n]
      /\ written'[c][got + 1] = taken[last]
  <2>1. written'[c] = Append(written[c], current)
    BY DEF IInv, TypeOK
  <2> QED BY <1>1, <1>3, <2>1
<1>5. Delivered(c)
  BY DEF IInv, DeliversInOrder, Delivered
<1> HIDE DEF last, got
<1>6. \A n \in 1 .. got : \E i \in Due(c) : taken[i] = written[c][n]
  BY <1>4, <1>5 DEF Delivered
<1>7. \A n \in DOMAIN written'[c] : \E i \in Due(c)' : taken'[i] = written'[c][n]
  BY <1>2, <1>4, <1>6
<1>8. \A n \in 1 .. got : /\ written[c][n].id \in Nat
                          /\ written[c][n].id < taken[last].id
  <2>1. last \in DOMAIN taken
    BY <1>1, DueWasTaken DEF last
  <2> QED
    BY <1>2, <1>6, <2>1, DueWasTaken, EventsNumbered DEF IInv, InCommitOrder
<1>9. \A m, n \in DOMAIN written'[c] :
        m < n => written'[c][m].id < written'[c][n].id
  BY <1>4, <1>5, <1>8 DEF Delivered
<1>10. \A i \in Due(c) : WasWritten(c, taken[i])
  BY <1>5 DEF Delivered
<1>11. \A i \in Due(c)' : WasWritten(c, taken[i])'
  BY <1>2, <1>4, <1>10 DEF WasWritten
<1> QED BY <1>7, <1>9, <1>11 DEF Delivered

\* A step of Run or of a client keeps what every client is promised.
LEMMA DeliveryKept ==
  ASSUME IInv, [Next]_vars
  PROVE  DeliversInOrder'
<1> SUFFICES ASSUME NEW d \in Conns PROVE Delivered(d)'
  BY DEF DeliversInOrder, Delivered
<1>1. Delivered(d)
  BY DEF IInv, DeliversInOrder, Delivered
<1>2. ASSUME UNCHANGED <<joined, taken, written>>, d \in copy' <=> d \in copy,
             d \in clients' /\ peer'[d] # "gone" => d \in clients /\ peer[d] # "gone"
      PROVE  Delivered(d)'
  <2>1. Due(d)' = Due(d)
    BY <1>2 DEF Due, Owns
  <2> QED BY <1>1, <1>2, <2>1, DeliveredAsBefore
<1>3. ASSUME NEW c \in Conns, Register(c) PROVE Delivered(d)'
  <2>1. /\ UNCHANGED <<taken, written, copy>> /\ peer[c] = "new"
        /\ clients' = clients \cup {c} /\ joined' = [joined EXCEPT ![c] = Len(taken)]
        /\ \A e \in Conns \ {c} : peer'[e] = peer[e]
    BY <1>3 DEF Register, IInv, TypeOK
  <2>2. CASE d = c
    <3>1. joined'[c] = Len(taken) /\ Len(taken) \in Nat
      BY <2>1, DueWasTaken DEF IInv, TypeOK
    <3>2. Due(c)' = {}
      BY <2>1, <3>1 DEF Due
    <3>3. written'[c] = <<>>
      BY <2>1 DEF IInv, RegisteredBefore
    <3>4. DOMAIN written'[c] = {}
      BY <3>3
    <3> QED BY <2>2, <3>2, <3>4 DEF Delivered
  <2>3. CASE d # c
    <3>1. joined'[d] = joined[d]
      BY <2>1, <2>3 DEF IInv, TypeOK
    <3>2. Due(d)' = Due(d)
      BY <2>1, <3>1 DEF Due, Owns
    <3> QED BY <1>1, <2>1, <2>3, <3>2, DeliveredAsBefore
  <2> QED BY <2>2, <2>3
<1>4. ASSUME NEW c \in Conns, PeerChanges(c) PROVE Delivered(d)'
  <2>1. /\ UNCHANGED <<joined, taken, written, copy, clients>>
        /\ peer'[d] # "gone" => peer[d] # "gone"
    BY <1>4 DEF PeerChanges, history, IInv, TypeOK
  <2> QED BY <1>2, <2>1
<1>5. ASSUME NEW c \in Conns, ReadFails(c) PROVE Delivered(d)'
  <2>1. /\ UNCHANGED <<joined, taken, written, copy, peer>>
        /\ clients' \subseteq clients
    BY <1>5 DEF ReadFails, history
  <2> QED BY <1>2, <2>1
<1>6. ASSUME NEW c \in Conns, Write(c) PROVE Delivered(d)'
  <2>1. /\ c \in copy /\ copy' = copy \ {c} /\ UNCHANGED <<taken, joined, peer>>
        /\ clients' \subseteq clients
    BY <1>6 DEF Write
  <2>2. CASE d # c
    <3>1. written'[d] = written[d]
      BY <1>6, <2>2 DEF Write, IInv, TypeOK
    <3>2. Due(d)' = Due(d)
      BY <2>1, <2>2 DEF Due, Owns
    <3> QED BY <1>1, <2>1, <3>1, <3>2, DeliveredAsBefore
  <2>3. /\ current = taken[Len(taken)] /\ Len(taken) \in Nat \ {0}
        /\ Len(taken) \in DOMAIN taken
    BY <2>1, DueWasTaken DEF IInv, WritesTheLast
  <2>4. CASE ~Owns(c, current) /\ d = c /\ written' = written
    <3>1. Due(d)' = Due(d)
      BY <2>1, <2>3, <2>4 DEF Due, Owns
    <3> QED BY <1>1, <2>1, <2>4, <3>1, DeliveredAsBefore
  <2>5. CASE /\ Owns(c, current) /\ c \in clients /\ peer[c] = "reading" /\ d = c
             /\ written' = [written EXCEPT ![c] = Append(@, current)]
    BY <1>6, <2>1, <2>5, WrittenInOrder
  <2>6. CASE d = c /\ (c \notin clients \/ peer[c] = "gone") /\ written' = written
    <3> DEFINE last == Len(taken)
    <3>1. Due(d)' \in {Due(d), Due(d) \cup {last}} /\ \A i \in Due(d) : i < last
      <4>1. \A i \in Due(d) : i < last
        BY <2>1, <2>3, <2>6, DueWasTaken DEF Due
      <4>2. Due(d) \subseteq Due(d)' /\ Due(d)' \subseteq Due(d) \cup {last}
        BY <2>1, <2>3, <2>6, <4>1 DEF Due, Owns
      <4> QED BY <4>1, <4>2
    <3>2. \A i \in Due(d) : taken'[i] = taken[i] /\ taken'[i] # taken'[last]
      BY <2>1, <2>3, <3>1, DueWasTaken
    <3>3. d \notin clients' \/ peer'[d] = "gone"
      BY <2>1, <2>6
    <3>4. last \in Nat /\ Due(d) \subseteq Nat /\ written'[d] = written[d]
      BY <2>6, DueWasTaken
    <3> HIDE DEF last
    <3> QED BY <1>1, <3>1, <3>2, <3>3, <3>4, DeliveredNoMore
  <2> QED BY <1>6, <2>2, <2>4, <2>5, <2>6 DEF Write
<1>7. CASE TakeMessage
  <2> DEFINE last == Len(taken) + 1
  <2>1. /\ UNCHANGED <<peer, clients, joined, written>> /\ copy' = clients /\ copy = {}
        /\ handing \in Event /\ handing # Nil /\ taken' = Append(taken, handing)
    BY <1>7 DEF TakeMessage, IInv, TypeOK, WritesTheLast
  <2>2. /\ Len(taken) \in Nat /\ DOMAIN taken = 1 .. Len(taken)
        /\ Len(taken') = last
        /\ \A j \in 1 .. Len(taken) : taken'[j] = taken[j]
        /\ taken'[last] = handing
    BY <2>1, DueWasTaken
  <2>3. /\ Due(d) \subseteq Nat /\ \A i \in Due(d) : i \in 1 .. Len(taken) /\ i < last
        /\ joined[d] \in Nat /\ joined[d] <= Len(taken)
    BY <2>2, DueWasTaken DEF IInv, RegisteredBefore
  <2>4. \A i \in Due(d) : taken'[i] = taken[i] /\ taken'[i] # taken'[last]
    BY <2>1, <2>2, <2>3, EventsNumbered DEF IInv, InCommitOrder
  <2>5. Due(d) \subseteq Due(d)' /\ Due(d)' \subseteq Due(d) \cup {last}
    BY <2>1, <2>2, <2>3 DEF Due, Owns
  <2>6. CASE d \in clients
    <3>1. last \notin Due(d)'
      BY <2>1, <2>2, <2>6 DEF Due
    <3>2. Due(d)' = Due(d)
      BY <2>3, <2>5, <3>1
    <3> QED BY <1>1, <2>1, <2>4, <3>2, DeliveredAsBefore
  <2>7. CASE d \notin clients
    <3>1. last \in Nat /\ Due(d)' \in {Due(d), Due(d) \cup {last}}
      <4>1. last \in Nat
        BY <2>2
      <4> HIDE DEF last
      <4> QED BY <2>5, <4>1
    <3>2. d \notin clients' /\ written'[d] = written[d]
      BY <2>1, <2>7
    <3>3. Due(d) \subseteq Nat /\ \A i \in Due(d) : i < last
      BY <2>3
    <3> HIDE DEF last
    <3> QED BY <1>1, <2>4, <3>1, <3>2, <3>3, DeliveredNoMore
  <2> QED BY <2>6, <2>7
<1>8. CASE UNCHANGED <<peer, clients, joined, taken, written>> /\ copy' = copy
  BY <1>2, <1>8
<1> QED
  BY <1>3, <1>4, <1>5, <1>6, <1>7, <1>8
     DEF Next, Notify, LoseConnection, WaitForNotification, FinishMessage, vars,
         history

-----------------------------------------------------------------------------
(***************************************************************************)
(* The invariant, and what follows from it.                                *)
(***************************************************************************)

\* Every step keeps the invariant.
LEMMA HubStep == IInv /\ [Next]_vars => IInv'
BY TypesKept, OrderKept, LastKept, RegistrationKept, DeliveryKept DEF IInv

\* It holds at the start, when nobody has registered and nothing is notified.
LEMMA HubInit == Init => IInv
<1> SUFFICES ASSUME Init PROVE IInv
  OBVIOUS
<1>1. TypeOK
  BY HubAssumption DEF Init, TypeOK
<1>2. DOMAIN taken = {} /\ DOMAIN inbox = {} /\ Len(taken) = 0
  BY DEF Init
<1>3. InCommitOrder /\ WritesTheLast /\ RegisteredBefore
  BY <1>2 DEF Init, InCommitOrder, WritesTheLast, RegisteredBefore
<1>4. DeliversInOrder
  <2>1. ASSUME NEW c \in Conns PROVE Due(c) = {} /\ DOMAIN written[c] = {}
    BY <1>2 DEF Init, Due
  <2> QED BY <2>1 DEF DeliversInOrder
<1> QED BY <1>1, <1>3, <1>4 DEF IInv

\* However clients come and go while Run writes without its lock, each is
\* written its events once and in the order of their commits, all of them
\* since it registered while it is there, and none after one it missed.
THEOREM ClientsGetTheirEvents == Spec => []DeliversInOrder
<1>1. IInv => DeliversInOrder
  BY DEF IInv
<1> QED BY HubInit, HubStep, <1>1, PTL DEF Spec
==============================================================================
