------------------------------- MODULE Overlay -------------------------------
(***************************************************************************)
(* The overlay's connections and the socket that holds them                *)
(* (src/daemon/overlay/Connection.cpp, Socket.cpp).                        *)
(*                                                                         *)
(* An object of class Connection is an address in Conn.  It lives while a  *)
(* wait on its timer, the socket or a user refers to it (shared_ptr), and  *)
(* its address is used again.  The callbacks given to connect() are        *)
(* members of Call.  A handler of the io_service is one step; what a wait  *)
(* completes with is settled when it expires or is aborted, the handler    *)
(* runs later.  A wait that has expired can no longer be aborted.          *)
(*                                                                         *)
(* Messages that the socket does not handle by itself change nothing and   *)
(* are not steps.                                                          *)
(***************************************************************************)
EXTENDS Integers, SequencesExt

CONSTANTS
  Conn,       \* addresses of Connection objects
  TH,         \* hashes of transport keys, our own among them
  Transport,  \* transport connections
  Call,       \* callbacks of connect()
  Timeout,    \* overlay.connection.timeout
  Null

ASSUME OverlayAssumption == Timeout \in Nat \ {0} /\ Null \notin Conn \cup TH

VARIABLES
  object,       \* the connection at each address, or Null; "left" is the time its
                \* callback_timer has left, "inits" the handshakes since its last search
  connections,  \* Socket::connections
  wait,         \* the wait made for each callback: its connection and status, or Null
  told,         \* what each callback was called with
  age,          \* time since the callback was passed to connect(), up to Timeout
  held,         \* connections that users hold a pointer to
  alive,        \* transports that are connected()
  own_th,       \* the hash of our current key
  outcome       \* "running" or "undefined"

objectVars == <<object, held>>
callVars == <<wait, told, age>>
socketVars == <<connections, own_th, outcome>>
overlayVars == <<objectVars, callVars, socketVars, alive>>

State == {"CLOSED", "SEARCHING_TRANSPORT", "FOUND_TRANSPORT", "HANDSHAKE_INIT_SENT", "ESTABLISHED"}
Connection == [state : State, transports : {s \in Seq(Transport) : IsInjective(s)},
               inits : 0..2, left : 0..Timeout]
Wait == [conn : Conn, status : {"pending", "expired", "aborted"}]

ASSUME OverlayNullAssumption == Null \notin Connection \cup Wait

OverlayTypeOK ==
  /\ object \in [Conn -> Connection \cup {Null}] /\ held \subseteq Conn
  /\ connections \in [TH -> Conn \cup {Null}]
  /\ wait \in [Call -> Wait \cup {Null}]
  /\ told \in [Call -> {"nothing", "timed_out", "connected", "dropped"}] /\ age \in [Call -> 0..Timeout]
  /\ alive \subseteq Transport /\ own_th \in TH
  /\ outcome \in {"running", "undefined"}

OverlayInit ==
  /\ object = [c \in Conn |-> Null] /\ held = {}
  /\ connections = [th \in TH |-> Null]
  /\ wait = [f \in Call |-> Null] /\ told = [f \in Call |-> "nothing"] /\ age = [f \in Call |-> 0]
  /\ alive = Transport /\ own_th \in TH /\ outcome = "running"

Running == outcome = "running"
Lives(c) == object[c] # Null
Waiting(f) == wait[f] # Null

-----------------------------------------------------------------------------
(***************************************************************************)
(* Connection::connect.  It sends a handshake if a transport was found.    *)
(* Each call moves the one timer of the connection, which aborts a wait    *)
(* that has not expired.  (connect_callbacks is appended to and never      *)
(* read.)                                                                  *)
(***************************************************************************)

New == [state |-> "CLOSED", transports |-> <<>>, inits |-> 0, left |-> 0]
SomeAlive(o) == \E i \in DOMAIN o.transports : o.transports[i] \in alive

\* Socket::send(): without a transport that is alive the connection goes
\* back to searching.
Sent(o, inits) ==
  IF SomeAlive(o) THEN [o EXCEPT !.inits = @ + inits]
  ELSE [o EXCEPT !.state = "SEARCHING_TRANSPORT", !.inits = 0]

\* Mutant: the state is not changed after the handshake.
HandshakeSent_again(o) == IF o.state = "FOUND_TRANSPORT" THEN Sent(o, 1) ELSE o

\* The handshake is taken to be sent whatever became of it.
HandshakeSent(o) ==
  IF o.state = "FOUND_TRANSPORT" THEN [Sent(o, 1) EXCEPT !.state = "HANDSHAKE_INIT_SENT"] ELSE o

\* callback_timer.expires_at().
ExpiresAt(o) == [o EXCEPT !.left = Timeout]

\* Mutant: one timer for all connections.
Aborted_all(c) ==
  [f \in Call |-> IF Waiting(f) /\ wait[f].status = "pending" THEN [wait[f] EXCEPT !.status = "aborted"] ELSE wait[f]]

\* Mutant: earlier waits go on until the new time.
Aborted_none(c) == wait

Aborted(c) ==
  [f \in Call |-> IF Waiting(f) /\ wait[f].conn = c /\ wait[f].status = "pending"
                  THEN [wait[f] EXCEPT !.status = "aborted"] ELSE wait[f]]

\* connect(f) of the connection o at address c.
Connect(c, o, f) ==
  /\ ~Waiting(f)
  /\ age' = [age EXCEPT ![f] = 0]
  /\ IF o.state = "ESTABLISHED"
     THEN /\ told' = [told EXCEPT ![f] = "connected"]
          /\ object' = [object EXCEPT ![c] = o]
          /\ UNCHANGED wait
     ELSE /\ told' = [told EXCEPT ![f] = "nothing"]
          /\ wait' = [Aborted(c) EXCEPT ![f] = [conn |-> c, status |-> "pending"]]
          /\ object' = [object EXCEPT ![c] = HandshakeSent(ExpiresAt(o))]

\* A user that has the connection calls connect().
connect(c, f) ==
  /\ Running /\ c \in held
  /\ Connect(c, object[c], f)
  /\ UNCHANGED <<held, socketVars, alive>>

\* Socket::connect(): the connection that is registered, or a new one, which
\* is not registered.
socketConnect(th, f) ==
  /\ Running
  /\ IF connections[th] # Null THEN Connect(connections[th], object[connections[th]], f)
     ELSE \E c \in Conn : ~Lives(c) /\ Connect(c, New, f)
  /\ UNCHANGED <<held, socketVars, alive>>

-----------------------------------------------------------------------------
(***************************************************************************)
(* The timer and its handler.                                              *)
(***************************************************************************)

Tick ==
  /\ Running /\ \E f \in Call : Waiting(f)
  /\ object' = [c \in Conn |-> IF Lives(c) /\ object[c].left > 0 THEN [object[c] EXCEPT !.left = @ - 1] ELSE object[c]]
  /\ age' = [f \in Call |-> IF Waiting(f) /\ age[f] < Timeout THEN age[f] + 1 ELSE age[f]]
  /\ UNCHANGED <<held, wait, told, socketVars, alive>>

expire(f) ==
  /\ Running /\ Waiting(f) /\ wait[f].status = "pending" /\ object[wait[f].conn].left = 0
  /\ wait' = [wait EXCEPT ![f].status = "expired"]
  /\ UNCHANGED <<objectVars, told, age, socketVars, alive>>

\* Mutant: the error code is not looked at.
Verdict_ignored(status) == "timed_out"

\* A callback whose wait was aborted is destroyed without being called.
Verdict(status) == IF status = "expired" THEN "timed_out" ELSE "dropped"

\* Mutant: the wait is bound to the raw pointer only.
Referenced_raw(c, waits, users) == c \in users \/ \E th \in TH : connections[th] = c

Referenced(c, waits, users) ==
  c \in users \/ (\E f \in Call : waits[f] # Null /\ waits[f].conn = c) \/ \E th \in TH : connections[th] = c

\* connectTimeout(); the callback may keep the pointer it gets.  The last
\* reference to go deletes the connection.
connectTimeout(f) ==
  /\ Running /\ Waiting(f) /\ wait[f].status # "pending"
  /\ LET c == wait[f].conn IN
     /\ told' = [told EXCEPT ![f] = Verdict(wait[f].status)]
     /\ wait' = [wait EXCEPT ![f] = Null]
     /\ held' \in {held, IF told'[f] = "timed_out" THEN held \cup {c} ELSE held}
     /\ object' = IF Referenced(c, wait', held') THEN object ELSE [object EXCEPT ![c] = Null]
  /\ UNCHANGED <<age, socketVars, alive>>

release(c) ==
  /\ Running /\ c \in held
  /\ held' = held \ {c}
  /\ object' = IF Referenced(c, wait, held') THEN object ELSE [object EXCEPT ![c] = Null]
  /\ UNCHANGED <<callVars, socketVars, alive>>

-----------------------------------------------------------------------------
(***************************************************************************)
(* The other methods of a connection.                                      *)
(***************************************************************************)

Update(c, o) ==
  /\ object' = [object EXCEPT ![c] = o]
  /\ UNCHANGED <<held, callVars, socketVars, alive>>

\* send() of a payload: what may not be sent is answered by a posted callback.
send(c, encrypted, force_non_connected) ==
  /\ Running /\ c \in held
  /\ LET connected == object[c].state = "ESTABLISHED"
         allowed == IF encrypted THEN connected ELSE connected \/ force_non_connected
     IN Update(c, IF allowed THEN Sent(object[c], 0) ELSE object[c])

\* A verified transport goes to the front of the list, another to its end; the place
\* where it was found before is erased.
Listed(transports, t, verified) ==
  LET others == RemoveFirst(transports, t) IN
    IF verified THEN <<t>> \o others ELSE Append(others, t)

Known(o, t, verified) ==
  [o EXCEPT !.transports = Listed(@, t, verified),
            !.state = IF @ = "SEARCHING_TRANSPORT" THEN "FOUND_TRANSPORT" ELSE @]

updateTransport(c, t, verified) ==
  /\ Running /\ c \in held
  /\ Update(c, Known(object[c], t, verified))

\* process(): the origin of the message becomes a transport; the payloads go
\* to processors, and processHandshake() is empty.
Processed(o, origin) == Known(o, origin, FALSE)

disconnect(c) ==
  /\ Running /\ c \in held
  /\ Update(c, [object[c] EXCEPT !.state = "CLOSED"])

\* A transport connection is made or lost.
transportChanges(t) ==
  /\ Running
  /\ alive' = IF t \in alive THEN alive \ {t} ELSE alive \cup {t}
  /\ UNCHANGED <<objectVars, callVars, socketVars>>

-----------------------------------------------------------------------------
(***************************************************************************)
(* Socket::process.  dest is Null in a message without a destination.      *)
(***************************************************************************)

\* The destination as the socket sees it: parsed from the source.
Destination(src, dest) == IF dest # Null THEN src ELSE Null

\* What the socket does with a message.
Handling(src, dest) ==
  LET d == Destination(src, dest) IN
    IF d = own_th THEN "self" ELSE IF d # Null THEN "relay" ELSE "request"

\* processRelay() and processRequest() do nothing.  processSelf() registers a
\* connection if the source has none, and then goes through the iterator that
\* find() returned, which is end() in that case.
receive(src, dest, origin) ==
  /\ Running
  /\ Handling(src, dest) = "self"
  /\ IF connections[src] = Null
     THEN \E c \in Conn : /\ ~Lives(c)
                          /\ object' = [object EXCEPT ![c] = New]
                          /\ connections' = [connections EXCEPT ![src] = c]
                          /\ outcome' = "undefined"
     ELSE /\ object' = [object EXCEPT ![connections[src]] = Processed(@, origin)]
          /\ UNCHANGED <<connections, outcome>>
  /\ UNCHANGED <<held, callVars, own_th, alive>>

\* KeyProvider makes a new key.
rotate(th) ==
  /\ Running
  /\ own_th' = th
  /\ UNCHANGED <<objectVars, callVars, connections, outcome, alive>>

-----------------------------------------------------------------------------
User(c) ==
  \/ release(c) \/ disconnect(c)
  \/ \E f \in Call : connect(c, f)
  \/ \E encrypted, force \in BOOLEAN : send(c, encrypted, force)
  \/ \E t \in Transport, verified \in BOOLEAN : updateTransport(c, t, verified)

Handler(f) == expire(f) \/ connectTimeout(f)

OverlayNext ==
  \/ Tick
  \/ \E f \in Call : Handler(f) \/ \E th \in TH : socketConnect(th, f)
  \/ \E c \in Conn : User(c)
  \/ \E t \in Transport : transportChanges(t)
  \/ \E src \in TH, dest \in TH \cup {Null}, t \in Transport : receive(src, dest, t)
  \/ \E th \in TH : rotate(th)

\* Time passes and the io_service runs handlers that are ready.  Users are not
\* obliged to anything.
OverlaySpec ==
  /\ OverlayInit /\ [][OverlayNext]_overlayVars
  /\ WF_overlayVars(Tick) /\ \A f \in Call : WF_overlayVars(Handler(f))

-----------------------------------------------------------------------------
(***************************************************************************)
(* Properties.                                                             *)
(***************************************************************************)

\* A caller is told timed_out not before the time-out has passed since its own
\* call, although calls share one timer (Connection.cpp:146).
NeverToldEarly == \A f \in Call : told[f] = "timed_out" => age[f] = Timeout

\* A callback that is passed to connect() is called, unless a later connect() of
\* the same connection has moved the timer before it expired.
DroppedOnlyBySuccessor ==
  [][\A f \in Call : Waiting(f) /\ wait[f].status = "pending" /\ wait'[f] # wait[f] =>
       \/ wait'[f].status = "expired"
       \/ \E g \in Call \ {f} : wait'[g] = [conn |-> wait[f].conn, status |-> "pending"] /\ wait[g] = Null]_overlayVars

\* Every wait ends, also when others call connect() again and again: a callback
\* is called or dropped, and nothing keeps its connection for ever.
WaitsEnd == \A f \in Call : Waiting(f) ~> told[f] # "nothing" \/ ~Running

\* Connection.cpp:162, "check state before. Do not spam": between two searches
\* for a transport at most one handshake is sent.
OneHandshakePerSearch == \A c \in Conn : Lives(c) => object[c].inits <= 1

\* connectTimeout() runs on a connection that still exists, although nobody else
\* may refer to it any more: the wait is bound to the raw pointer and to a
\* shared one (Connection.cpp:147).
WaitsOnLiveConnection == \A f \in Call : Waiting(f) => Lives(wait[f].conn)
=============================================================================
