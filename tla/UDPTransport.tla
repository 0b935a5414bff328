---------------------------- MODULE UDPTransport -----------------------------
(***************************************************************************)
(* Connections over UDP and the table of the transport socket              *)
(* (src/daemon/transport/udp/UDPConnection.cpp, UDPInterface.cpp,          *)
(* transport/Socket.cpp, Connection.cpp).                                  *)
(*                                                                         *)
(* A UDPConnection is an address in Conn, used again once it is free.  It  *)
(* lives while the table, a send under way or a user refers to it: the     *)
(* waits on its two timers hold only the raw pointer.  Destroying it       *)
(* aborts them.  A wait that has expired is a handler in "ready" and can   *)
(* no longer be aborted; handlers run one at a time, in order.             *)
(*                                                                         *)
(* Peers send any datagram at any time, which covers a network that loses, *)
(* doubles and reorders them.  The callbacks of the interface are set.     *)
(***************************************************************************)
EXTENDS Integers, SequencesExt

CONSTANTS
  Conn,           \* addresses of UDPConnection objects (bound: how many live at once)
  Endpoint,       \* endpoints of peers
  Timeout,        \* transport.udp.inactivity_timeout
  outgoing_only,  \* transport.udp.outgoing_only
  MaxReady,       \* bound: expired waits of a timer whose handlers have not run
  Null

ASSUME UDPAssumption ==
  /\ Timeout \in Nat \ {0} /\ MaxReady \in Nat \ {0}
  /\ outgoing_only \in BOOLEAN /\ Null \notin Conn \cup Endpoint

VARIABLES
  object,       \* the connection at each address, or Null: "sending" says that a send
                \* is under way, "keepalive" that conn_send_timer is waited on,
                \* "waiting" for what conn_receive_timeout is, "left" the time it has left
  connections,  \* Socket::connections
  held,         \* connections that users have a pointer to
  ready,        \* handlers of the io_service that are ready to run
  silence,      \* time since a keep-alive of the endpoint, up to Timeout
  outcome       \* "running"; "terminated" by an exception; "undefined"

objectVars == <<object, held>>
tableVars == <<connections>>
loopVars == <<ready, outcome>>
udpVars == <<objectVars, tableVars, loopVars, silence>>

Handler == [conn : Conn, kind : {"keepalive", "inactive", "connecting"}]
Connection ==
  [endpoint : Endpoint, connected : BOOLEAN, sending : BOOLEAN, keepalive : BOOLEAN,
   waiting : {"nothing", "inactive", "connecting"}, left : 0..Timeout]
Datagram == {"KEEPALIVE", "DISCONNECT", "CONNECT", "DATA"}

ASSUME UDPNullAssumption == Null \notin Connection

UDPTypeOK ==
  /\ object \in [Conn -> Connection \cup {Null}] /\ held \subseteq Conn
  /\ connections \in [Endpoint -> Conn \cup {Null}]
  /\ ready \in Seq(Handler)
  /\ silence \in [Endpoint -> 0..Timeout]
  /\ outcome \in {"running", "terminated", "undefined"}

NoObjects == [c \in Conn |-> Null]
NoEntries == [e \in Endpoint |-> Null]

UDPInit ==
  /\ object = NoObjects /\ held = {}
  /\ connections = NoEntries
  /\ ready = <<>> /\ outcome = "running"
  /\ silence = [e \in Endpoint |-> 0]

Running == outcome = "running"
Lives(c) == object[c] # Null
Registered(e) == connections[e] # Null

-----------------------------------------------------------------------------
(***************************************************************************)
(* Steps on one object, then on the table.                                 *)
(***************************************************************************)

New(e) == [endpoint |-> e, connected |-> FALSE, sending |-> FALSE, keepalive |-> FALSE,
           waiting |-> "nothing", left |-> 0]

\* A send holds the connection until its handler has run.
send(o) == [o EXCEPT !.sending = TRUE]

\* Mutant: the timer is not set again.
sendKeepAlive_once(o) == [send(o) EXCEPT !.keepalive = FALSE]

sendKeepAlive(o) == [send(o) EXCEPT !.keepalive = TRUE]

receivedConnect(o) == sendKeepAlive([o EXCEPT !.connected = TRUE])

\* Mutant: the time goes on from the first keep-alive.
receivedKeepAlive_first(o) ==
  [o EXCEPT !.waiting = "inactive", !.left = IF o.waiting = "inactive" THEN @ ELSE Timeout, !.connected = TRUE]

receivedKeepAlive(o) == [o EXCEPT !.waiting = "inactive", !.left = Timeout, !.connected = TRUE]

\* Both timers are cancelled; the handlers of the waits see that and do nothing.
receivedDisconnect(o) == [o EXCEPT !.keepalive = FALSE, !.waiting = "nothing", !.left = 0, !.connected = FALSE]

\* connect() keeps no copy of the callback it is given.
connect(o) == [send(o) EXCEPT !.waiting = "connecting", !.left = Timeout]

\* insert() leaves an entry as it is.
registerConnection(e, c) == IF Registered(e) THEN connections ELSE [connections EXCEPT ![e] = c]

\* Mutant: the entry stays.
unregisterConnection_not(e) == connections

\* The entry of the endpoint goes, whichever connection it is of.
unregisterConnection(e) == [connections EXCEPT ![e] = Null]

\* The wait of connect() takes an abort for success: its handler runs.
AbortRuns(c, o) == IF o.waiting = "connecting" THEN <<[conn |-> c, kind |-> "connecting"]>> ELSE <<>>

Referenced(c, o, table, users) == o.sending \/ c \in users \/ \E e \in Endpoint : table[e] = c

\* The object at address c becomes o, the table and the users' pointers are
\* given, and so are the handlers that were ready; what nobody refers to any
\* more is deleted.  (Connections that wait for connect() are not in the table,
\* so that only c may leave its wait behind.)
Update(c, o, table, users, handlers) ==
  LET Dead(d, p) == p # Null /\ ~Referenced(d, p, table, users) IN
    /\ object' = [d \in Conn |-> IF d = c THEN IF Dead(c, o) THEN Null ELSE o
                                ELSE IF Dead(d, object[d]) THEN Null ELSE object[d]]
    /\ connections' = table /\ held' = users
    /\ ready' = IF Dead(c, o) THEN handlers \o AbortRuns(c, o) ELSE handlers

-----------------------------------------------------------------------------
(***************************************************************************)
(* A datagram arrives: UDPInterface::handleReceive.                        *)
(***************************************************************************)

handleReceive(e, message) ==
  /\ Running
  /\ IF Registered(e)
     THEN LET c == connections[e]
              o == object[c]
          IN \/ /\ message = "KEEPALIVE"
                /\ Update(c, receivedKeepAlive(o), connections, held, ready)
             \/ /\ message = "DISCONNECT"    \* disconnect_callback may keep the pointer
                /\ \E users \in {held, held \cup {c}} :
                     Update(c, receivedDisconnect(o), unregisterConnection(o.endpoint), users, ready)
             \/ /\ message \in {"CONNECT", "DATA"}    \* and so may receive_callback
                /\ held' = held \cup {c} /\ UNCHANGED <<object, connections, ready>>
     ELSE IF message = "CONNECT" /\ ~outgoing_only
     THEN \E c \in Conn : /\ ~Lives(c)
                          /\ Update(c, receivedConnect(New(e)), registerConnection(e, c), held, ready)
     ELSE FALSE    \* nothing changes
  /\ silence' = IF message = "KEEPALIVE" THEN [silence EXCEPT ![e] = 0] ELSE silence
  /\ UNCHANGED outcome

-----------------------------------------------------------------------------
(***************************************************************************)
(* Timers.                                                                 *)
(***************************************************************************)

Tick ==
  /\ Running
  /\ object' = [c \in Conn |-> IF Lives(c) /\ object[c].left > 0 THEN [object[c] EXCEPT !.left = @ - 1] ELSE object[c]]
  /\ silence' = [e \in Endpoint |-> IF silence[e] < Timeout THEN silence[e] + 1 ELSE Timeout]
  /\ UNCHANGED <<held, connections, ready, outcome>>

Expires(c, kind) ==
  /\ Len(SelectSeq(ready, LAMBDA h : h = [conn |-> c, kind |-> kind])) < MaxReady
  /\ ready' = Append(ready, [conn |-> c, kind |-> kind])
  /\ UNCHANGED <<held, connections, outcome, silence>>

\* The period of the keep-alives is any time.
expireSend(c) ==
  /\ Running /\ Lives(c) /\ object[c].keepalive
  /\ object' = [object EXCEPT ![c].keepalive = FALSE]
  /\ Expires(c, "keepalive")

expireReceive(c) ==
  /\ Running /\ Lives(c) /\ object[c].waiting # "nothing" /\ object[c].left = 0
  /\ object' = [object EXCEPT ![c].waiting = "nothing"]
  /\ Expires(c, object[c].waiting)

-----------------------------------------------------------------------------
(***************************************************************************)
(* Handlers.                                                               *)
(***************************************************************************)

\* The daemon is gone, with all it knew.
Down(how) ==
  /\ outcome' = how
  /\ object' = NoObjects /\ held' = {} /\ connections' = NoEntries /\ ready' = <<>>

\* The handler runs on a connection that was deleted, or reads a reference to a
\* local variable that no longer exists.
Undefined == Down("undefined")

\* sendKeepAlive() as a handler.
runKeepalive(h) ==
  IF Lives(h.conn)
  THEN /\ Update(h.conn, sendKeepAlive(object[h.conn]), connections, held, Tail(ready))
       /\ UNCHANGED outcome
  ELSE Undefined

\* The handler of receivedKeepAlive() gets at the interface by a reference to a
\* local variable: it may work all the same.  The keep-alives go on.
runInactive(h) ==
  \/ Undefined
  \/ /\ Lives(h.conn)
     /\ \E users \in {held, held \cup {h.conn}} :
          Update(h.conn, [object[h.conn] EXCEPT !.connected = FALSE],
                 unregisterConnection(object[h.conn].endpoint), users, Tail(ready))
     /\ UNCHANGED outcome

\* The handler of connect() calls the empty connecting_callback.
runConnecting(h) ==
  IF Lives(h.conn) THEN Down("terminated") ELSE Undefined

runReady ==
  /\ Running /\ ready # <<>>
  /\ LET h == Head(ready) IN
     \/ h.kind = "keepalive" /\ runKeepalive(h)
     \/ h.kind = "inactive" /\ runInactive(h)
     \/ h.kind = "connecting" /\ runConnecting(h)
  /\ UNCHANGED silence

\* The last of the sends under way is done.
handleSend(c) ==
  /\ Running /\ Lives(c) /\ object[c].sending
  /\ Update(c, [object[c] EXCEPT !.sending = FALSE], connections, held, ready)
  /\ UNCHANGED <<outcome, silence>>

\* Users of a connection send on it, whether it is connected or not, or drop it.
userSends(c) ==
  /\ Running /\ c \in held
  /\ Update(c, send(object[c]), connections, held, ready)
  /\ UNCHANGED <<outcome, silence>>

release(c) ==
  /\ Running /\ c \in held
  /\ Update(c, object[c], connections, held \ {c}, ready)
  /\ UNCHANGED <<outcome, silence>>

UDPNext ==
  \/ Tick \/ runReady
  \/ \E e \in Endpoint, message \in Datagram : handleReceive(e, message)
  \/ \E c \in Conn : expireSend(c) \/ expireReceive(c) \/ handleSend(c) \/ userSends(c) \/ release(c)

\* Time passes, the kernel completes sends, and the io_service runs what is ready.
UDPFairness ==
  /\ WF_udpVars(Tick) /\ WF_udpVars(runReady)
  /\ \A c \in Conn : WF_udpVars(expireSend(c)) /\ WF_udpVars(expireReceive(c)) /\ WF_udpVars(handleSend(c))

UDPSpec == UDPInit /\ [][UDPNext]_udpVars /\ UDPFairness

-----------------------------------------------------------------------------
(***************************************************************************)
(* Properties.                                                             *)
(***************************************************************************)

Queued(c, kind) == Contains(ready, [conn |-> c, kind |-> kind])

\* A connection in the table exists, is the one of its endpoint, takes part in
\* traffic (connected(), which the overlay asks for) and goes on sending keep-alives,
\* whatever handlers of earlier connections at its address were still ready.
RegisteredServed ==
  \A e \in Endpoint : Registered(e) =>
    LET c == connections[e] IN
      /\ Lives(c) /\ object[c].endpoint = e /\ object[c].connected
      /\ object[c].keepalive \/ Queued(c, "keepalive")

\* The inactivity timer of a connection in the table expires only after its peer has
\* been silent for the whole time-out, since every keep-alive moves it
\* (UDPConnection.cpp:50).
ExpiresAfterSilence ==
  [][\A e \in Endpoint :
       Registered(e) /\ ~Queued(connections[e], "inactive") /\ Queued(connections[e], "inactive")' /\ connections'[e] = connections[e]
         => silence[e] = Timeout]_udpVars

\* A peer that has sent a keep-alive and then falls silent does not stay in the table
\* (UDPConnection.cpp:51): its connection is dropped, or the daemon goes down.
SilentPeersDropped ==
  \A e \in Endpoint :
    Registered(e) /\ object[connections[e]].waiting = "inactive" /\ silence[e] = Timeout
      ~> ~Registered(e) \/ silence[e] < Timeout

\* Keep-alives are sent again and again for as long as a connection is in the table
\* (UDPConnection.cpp:36).
KeepalivesContinue == \A e \in Endpoint : []<>(Registered(e) => Queued(connections[e], "keepalive"))
=============================================================================
