----------------------------- MODULE RealtimeHub -----------------------------
(***************************************************************************)
(* Notifications of changed rows, from PostgreSQL to WebSocket clients.    *)
(* A trigger notifies the channel realtime_events; the listener's          *)
(* goroutine receives the notifications in the order of their commits and  *)
(* hands each over an unbuffered channel to Hub.Run, which copies the map  *)
(* of clients under its lock and then, without the lock, writes to each    *)
(* client of the copy that owns the event.  A goroutine for every client   *)
(* registers it, reads until that fails, and unregisters it; so does Run   *)
(* when a write fails.                                                     *)
(*                                                                         *)
(* A connection is a *websocket.Conn that is used for one client only.  A  *)
(* client is stalled when it does not read and all buffers between Run and *)
(* it are full.                                                            *)
(***************************************************************************)
EXTENDS Naturals, Sequences

CONSTANTS
  Conns,       \* the connections clients make
  Users,
  UserOf,      \* the user of each connection's token
  MaxEvents,   \* bound: the notifications there may be
  Nil          \* no event; a row without a user

ASSUME HubAssumption ==
  UserOf \in [Conns -> Users] /\ Nil \notin Users /\ MaxEvents \in Nat

VARIABLES
  peer,        \* what each client does
  serving,     \* the connections with a goroutine that reads
  clients,     \* Hub.clients
  notified,    \* how many notifications there have been
  connected,   \* whether the listener has its connection
  inbox,       \* the notifications it has not received
  handing,     \* the one it is putting into the channel
  current,     \* the message Run has taken from the channel
  copy,        \* the clients of its copy it has not come to
  taken,       \* history: the messages Run has copied the clients for
  joined,      \* history: how many those were when each client registered
  written      \* the messages written to each connection

listener == <<connected, inbox, handing>>
history  == <<taken, joined, written>>
vars == <<peer, serving, clients, notified, listener, current, copy, history>>

Event == [id : 1..MaxEvents, user : Users \cup {Nil}]

ASSUME NilIsNoEvent == Nil \notin Event

Init ==
  /\ peer = [c \in Conns |-> "new"]
  /\ serving = {} /\ clients = {}
  /\ notified = 0
  /\ connected = TRUE /\ inbox = <<>> /\ handing = Nil
  /\ current = Nil /\ copy = {}
  /\ taken = <<>>
  /\ joined = [c \in Conns |-> 0]
  /\ written = [c \in Conns |-> <<>>]

-----------------------------------------------------------------------------
(***************************************************************************)
(* Clients and the goroutines that read from them.                         *)
(***************************************************************************)
Register(c) ==
  /\ peer[c] = "new"
  /\ peer' = [peer EXCEPT ![c] = "reading"]
  /\ serving' = serving \cup {c}
  /\ clients' = clients \cup {c}
  /\ joined' = [joined EXCEPT ![c] = Len(taken)]
  /\ UNCHANGED <<notified, listener, current, copy, taken, written>>

\* A client stops reading what it is sent, reads again, or is gone.
PeerChanges(c) ==
  /\ \/ peer[c] = "reading" /\ peer' = [peer EXCEPT ![c] = "stalled"]
     \/ peer[c] = "stalled" /\ peer' = [peer EXCEPT ![c] = "reading"]
     \/ peer[c] \in {"reading", "stalled"} /\ peer' = [peer EXCEPT ![c] = "gone"]
  /\ UNCHANGED <<serving, clients, notified, listener, current, copy, history>>

\* ReadMessage fails, as the peer is gone or the connection was closed.
ReadFails(c) ==
  /\ c \in serving
  /\ peer[c] = "gone" \/ c \notin clients
  /\ serving' = serving \ {c}
  /\ clients' = clients \ {c}
  /\ UNCHANGED <<peer, notified, listener, current, copy, history>>

-----------------------------------------------------------------------------
(***************************************************************************)
(* The listener.                                                           *)
(***************************************************************************)
Notify(user) ==
  /\ notified < MaxEvents
  /\ notified' = notified + 1
  /\ inbox' = IF connected
                THEN Append(inbox, [id |-> notified', user |-> user]) ELSE inbox
  /\ UNCHANGED <<peer, serving, clients, connected, handing, current, copy, history>>

\* From now on WaitForNotification fails, and the listener tries again.
LoseConnection ==
  /\ connected /\ connected' = FALSE
  /\ inbox' = <<>>
  /\ UNCHANGED <<peer, serving, clients, notified, handing, current, copy, history>>

WaitForNotification ==
  /\ handing = Nil /\ inbox # <<>>
  /\ handing' = Head(inbox)
  /\ inbox' = Tail(inbox)
  /\ UNCHANGED <<peer, serving, clients, notified, connected, current, copy, history>>

-----------------------------------------------------------------------------
(***************************************************************************)
(* Hub.Run.                                                                *)
(***************************************************************************)
TakeMessage ==
  /\ current = Nil /\ handing # Nil
  /\ current' = handing
  /\ handing' = Nil
  /\ copy' = clients
  /\ taken' = Append(taken, current')
  /\ UNCHANGED <<peer, serving, clients, notified, connected, inbox, joined, written>>

Owns(c, event) == event.user \in {Nil, UserOf[c]}

Write_StopsAtError(c) ==   \* break for continue
  /\ c \in copy
  /\ \/ ~Owns(c, current) /\ UNCHANGED <<clients, written>> /\ copy' = copy \ {c}
     \/ /\ Owns(c, current) /\ c \in clients /\ peer[c] = "reading"
        /\ written' = [written EXCEPT ![c] = Append(@, current)]
        /\ clients' = clients /\ copy' = copy \ {c}
     \/ /\ Owns(c, current) /\ (c \notin clients \/ peer[c] = "gone")
        /\ clients' \in {clients, clients \ {c}}
        /\ written' = written /\ copy' = {}
  /\ UNCHANGED <<peer, serving, notified, listener, current, taken, joined>>

Write_Locked(c) ==   \* keeps the lock, for which Unregister then waits
  /\ c \in copy
  /\ \/ ~Owns(c, current) /\ UNCHANGED <<clients, written>>
     \/ /\ Owns(c, current) /\ c \in clients /\ peer[c] = "reading"
        /\ written' = [written EXCEPT ![c] = Append(@, current)]
        /\ clients' = clients
  /\ copy' = copy \ {c}
  /\ UNCHANGED <<peer, serving, notified, listener, current, taken, joined>>

\* WriteMessage, in any order of the clients.  It blocks while the peer does
\* not read, as no write has a deadline; once the peer is gone it may still
\* succeed or fail, and on a closed connection it fails.
Write(c) ==
  /\ c \in copy
  /\ \/ ~Owns(c, current) /\ UNCHANGED <<clients, written>>
     \/ /\ Owns(c, current) /\ c \in clients /\ peer[c] = "reading"
        /\ written' = [written EXCEPT ![c] = Append(@, current)]
        /\ clients' = clients
     \/ /\ Owns(c, current) /\ (c \notin clients \/ peer[c] = "gone")
        /\ clients' \in {clients, clients \ {c}}
        /\ written' = written
  /\ copy' = copy \ {c}
  /\ UNCHANGED <<peer, serving, notified, listener, current, taken, joined>>

FinishMessage ==
  /\ current # Nil /\ copy = {}
  /\ current' = Nil
  /\ UNCHANGED <<peer, serving, clients, notified, listener, copy, history>>

-----------------------------------------------------------------------------
Next ==
  \/ \E c \in Conns : Register(c) \/ PeerChanges(c) \/ ReadFails(c) \/ Write(c)
  \/ \E user \in Users \cup {Nil} : Notify(user)
  \/ LoseConnection
  \/ WaitForNotification
  \/ TakeMessage
  \/ FinishMessage

\* The goroutines run, and a write that does not block ends.
Fairness ==
  /\ \A c \in Conns : WF_vars(ReadFails(c)) /\ WF_vars(Write(c))
  /\ WF_vars(WaitForNotification)
  /\ WF_vars(TakeMessage)
  /\ WF_vars(FinishMessage)

Spec == Init /\ [][Next]_vars /\ Fairness

-----------------------------------------------------------------------------
\* The positions in taken of the messages for c that Run has come to since c
\* registered.
Due(c) ==
  {i \in joined[c] + 1 .. Len(taken) :
     Owns(c, taken[i]) /\ (i = Len(taken) => c \notin copy)}

WasWritten(c, event) == \E n \in DOMAIN written[c] : written[c][n] = event

\* A connection is written the events of its user and those without a user,
\* each once and in the order they were committed: all since it registered
\* while the client is there, however clients come and go between the copy and
\* the writes, and a first part of them if it went.
DeliversInOrder ==
  \A c \in Conns :
    /\ \A n \in DOMAIN written[c] : \E i \in Due(c) : taken[i] = written[c][n]
    /\ \A m, n \in DOMAIN written[c] : m < n => written[c][m].id < written[c][n].id
    /\ c \in clients /\ peer[c] # "gone"
         => \A i \in Due(c) : WasWritten(c, taken[i])
    /\ \A i, j \in Due(c) :
         i < j /\ WasWritten(c, taken[j]) => WasWritten(c, taken[i])

\* Run comes to every event the listener was sent, unless the listener loses
\* its connection or a client does not read what it is written.
EventsTaken ==
  \A n \in 1..MaxEvents :
    (\E i \in DOMAIN inbox : inbox[i].id = n) ~>
      \/ (\E i \in DOMAIN taken : taken[i].id = n) /\ current = Nil
      \/ ~connected \/ \E c \in Conns : peer[c] = "stalled"
==============================================================================
