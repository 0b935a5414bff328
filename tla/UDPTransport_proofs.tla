------------------------ MODULE UDPTransport_proofs -------------------------
(***************************************************************************)
(* Proofs about the table of UDP connections, for any number of endpoints  *)
(* and connections, any time-out and any number of handlers that are late; *)
(* and about discovery over the transport, for any bootstrap files.        *)
(***************************************************************************)
EXTENDS Discovery, SequenceTheorems, TLAPS

-----------------------------------------------------------------------------
(***************************************************************************)
(* Handlers in the queue of the io_service.                                *)
(***************************************************************************)

\* A handler that becomes ready is put at the end.
LEMMA QueuedAppend ==
  ASSUME NEW q \in Seq(Handler), NEW h \in Handler, NEW k \in Handler
  PROVE  Contains(Append(q, h), k) <=> Contains(q, k) \/ k = h
BY DEF Contains

\* Handlers of aborted waits are put at the end.
LEMMA QueuedConcat ==
  ASSUME NEW q \in Seq(Handler), NEW r \in Seq(Handler), NEW k \in Handler
  PROVE  Contains(q \o r, k) <=> Contains(q, k) \/ Contains(r, k)
<1>1. Contains(q, k) => Contains(q \o r, k)
  BY DEF Contains
<1>2. ASSUME NEW i \in 1..Len(r), r[i] = k PROVE Contains(q \o r, k)
  <2>1. Len(q) + i \in 1..Len(q \o r) /\ (q \o r)[Len(q) + i] = r[i]
    OBVIOUS
  <2> QED BY <1>2, <2>1 DEF Contains
<1>3. ASSUME NEW i \in 1..Len(q \o r), (q \o r)[i] = k PROVE Contains(q, k) \/ Contains(r, k)
  <2>1. CASE i <= Len(q)
    BY <1>3, <2>1 DEF Contains
  <2>2. CASE i > Len(q)
    <3>1. i - Len(q) \in 1..Len(r) /\ (q \o r)[i] = r[i - Len(q)]
      BY <2>2
    <3> QED BY <1>3, <3>1 DEF Contains
  <2> QED BY <2>1, <2>2
<1> QED BY <1>1, <1>2, <1>3 DEF Contains

\* The first handler is taken out; the others stay.
LEMMA QueuedTail ==
  ASSUME NEW q \in Seq(Handler), q # <<>>, NEW k \in Handler
  PROVE  /\ Contains(Tail(q), k) => Contains(q, k)
         /\ Contains(q, k) /\ k # Head(q) => Contains(Tail(q), k)
         /\ Head(q) \in Handler /\ Tail(q) \in Seq(Handler)
BY DEF Contains

-----------------------------------------------------------------------------
(***************************************************************************)
(* The inductive invariant.                                                *)
(***************************************************************************)

\* The connection o at address c can be the one in the table for endpoint e.
Serves(c, o, e, handlers) ==
  /\ o.endpoint = e /\ o.connected
  /\ o.keepalive \/ Contains(handlers, [conn |-> c, kind |-> "keepalive"])

\* Its inactivity timer has at least the time left that the peer has to be silent yet.
Timely(o, quiet) == o.waiting = "inactive" => o.left + quiet >= Timeout

UDPInv ==
  /\ UDPTypeOK
  /\ \A c \in held : Lives(c)
  /\ \A e \in Endpoint : Registered(e) =>
       LET c == connections[e] IN Lives(c) /\ Serves(c, object[c], e, ready) /\ Timely(object[c], silence[e])

\* The initial states.
LEMMA InitInv == UDPInit => UDPInv
<1>1. <<>> \in Seq(Handler)
  OBVIOUS
<1> QED BY <1>1, UDPAssumption DEF UDPInit, UDPInv, UDPTypeOK, NoObjects, NoEntries, Registered

\* The daemon goes down.
LEMMA DownInv ==
  ASSUME UDPInv, NEW how \in {"terminated", "undefined"}, Down(how), silence' \in [Endpoint -> 0..Timeout]
  PROVE  UDPInv'
<1>1. <<>> \in Seq(Handler)
  OBVIOUS
<1> QED BY <1>1 DEF Down, UDPInv, UDPTypeOK, NoObjects, NoEntries, Registered

\* One connection, the table and the users' pointers change, and what nobody refers to
\* any more is deleted.  What is in the table or held by a user afterwards is c, which
\* then has to be fit for it, or was there before.
LEMMA UpdateInv ==
  ASSUME UDPInv, NEW c \in Conn, NEW o \in Connection,
         NEW table \in [Endpoint -> Conn \cup {Null}], NEW users \in SUBSET Conn, NEW handlers \in Seq(Handler),
         Update(c, o, table, users, handlers),
         \A d \in users : d = c \/ Lives(d),
         \A e \in Endpoint : table[e] # Null /\ table[e] = c => Serves(c, o, e, handlers) /\ Timely(o, silence'[e]),
         \A e \in Endpoint : table[e] # Null /\ table[e] # c =>
           connections[e] = table[e] /\ silence'[e] = silence[e] /\ Serves(table[e], object[table[e]], e, handlers),
         silence' \in [Endpoint -> 0..Timeout], outcome' = outcome
  PROVE  UDPInv'
<1> DEFINE Dead(d, p) == p # Null /\ ~Referenced(d, p, table, users)
<1>1. /\ object' = [d \in Conn |-> IF d = c THEN IF Dead(c, o) THEN Null ELSE o
                                  ELSE IF Dead(d, object[d]) THEN Null ELSE object[d]]
      /\ connections' = table /\ held' = users
      /\ ready' = IF Dead(c, o) THEN handlers \o AbortRuns(c, o) ELSE handlers
  BY DEF Update
<1>2. o # Null
  BY UDPNullAssumption
<1>3. object \in [Conn -> Connection \cup {Null}]
  BY DEF UDPInv, UDPTypeOK
<1>4. AbortRuns(c, o) \in Seq(Handler)
  <2>1. [conn |-> c, kind |-> "connecting"] \in Handler
    BY DEF Handler
  <2>2. <<[conn |-> c, kind |-> "connecting"]>> \in Seq(Handler) /\ <<>> \in Seq(Handler)
    BY <2>1
  <2> QED BY <2>2 DEF AbortRuns
<1> HIDE DEF Dead
<1>5. ready' \in Seq(Handler) /\ \A k \in Handler : Contains(handlers, k) => Contains(ready', k)
  BY <1>1, <1>4, QueuedConcat
<1>6. UDPTypeOK'
  BY <1>1, <1>3, <1>5 DEF UDPInv, UDPTypeOK
<1>7. \A d \in Conn : ((\E e \in Endpoint : table[e] = d) \/ d \in users) =>
        /\ d = c => object'[d] = o
        /\ d # c => object'[d] = object[d]
  <2> SUFFICES ASSUME NEW d \in Conn, (\E e \in Endpoint : table[e] = d) \/ d \in users
               PROVE  (d = c => object'[d] = o) /\ (d # c => object'[d] = object[d])
    OBVIOUS
  <2>1. \A p : Referenced(d, p, table, users)
    BY DEF Referenced
  <2>2. \A p : ~Dead(d, p)
    BY <2>1 DEF Dead
  <2> QED BY <1>1, <2>2
<1>8. \A d \in held' : Lives(d)'
  <2> SUFFICES ASSUME NEW d \in users PROVE object'[d] # Null
    BY <1>1 DEF Lives
  <2> QED BY <1>2, <1>7 DEF Lives
<1>9. ASSUME NEW e \in Endpoint, table[e] # Null
      PROVE  /\ object'[table[e]] # Null /\ Serves(table[e], object'[table[e]], e, ready')
             /\ Timely(object'[table[e]], silence'[e])
  <2>1. table[e] \in Conn /\ [conn |-> table[e], kind |-> "keepalive"] \in Handler
    BY <1>9 DEF Handler
  <2>2. CASE table[e] = c
    <3>1. object'[c] = o
      BY <1>7, <2>2
    <3>2. Serves(c, o, e, handlers) /\ Timely(o, silence'[e])
      BY <1>9, <2>2
    <3>3. Serves(c, o, e, ready')
      BY <1>5, <2>1, <2>2, <3>2 DEF Serves
    <3> QED BY <1>2, <2>2, <3>1, <3>2, <3>3
  <2>3. CASE table[e] # c
    <3>1. object'[table[e]] = object[table[e]]
      BY <1>7, <2>1, <2>3
    <3>2. connections[e] = table[e] /\ silence'[e] = silence[e] /\ Serves(table[e], object[table[e]], e, handlers)
      BY <1>9, <2>3
    <3>3. Lives(table[e]) /\ Timely(object[table[e]], silence[e])
      BY <1>9, <3>2 DEF UDPInv, Registered
    <3>4. Serves(table[e], object[table[e]], e, ready')
      BY <1>5, <2>1, <3>2 DEF Serves
    <3> QED BY <3>1, <3>2, <3>3, <3>4 DEF Lives
  <2> QED BY <2>2, <2>3
<1>10. \A e \in Endpoint : Registered(e)' =>
         /\ Lives(connections[e])' /\ Serves(connections[e], object[connections[e]], e, ready)'
         /\ Timely(object[connections[e]], silence[e])'
  BY <1>1, <1>9 DEF Registered, Lives, Serves, Timely
<1> QED BY <1>6, <1>8, <1>10 DEF UDPInv

\* What the invariant says of an entry of the table.
LEMMA Entry ==
  ASSUME UDPInv, NEW e \in Endpoint, Registered(e)
  PROVE  LET c == connections[e] IN
           /\ c \in Conn /\ Lives(c) /\ object[c] \in Connection /\ object[c].endpoint = e
           /\ Serves(c, object[c], e, ready) /\ Timely(object[c], silence[e])
           /\ [conn |-> c, kind |-> "keepalive"] \in Handler
BY DEF UDPInv, UDPTypeOK, Registered, Lives, Serves, Handler

\* An address that is free is not in the table.
LEMMA FreeNotInTable ==
  ASSUME UDPInv, NEW c \in Conn, ~Lives(c), NEW e \in Endpoint
  PROVE  connections[e] # c
<1>1. c # Null
  BY UDPAssumption
<1> QED BY <1>1 DEF UDPInv, Registered

\* A connection that users refer to.
LEMMA HeldLives ==
  ASSUME UDPInv, NEW c \in held
  PROVE  c \in Conn /\ Lives(c) /\ object[c] \in Connection
BY DEF UDPInv, UDPTypeOK, Lives

\* The handler at the head of the queue has run on a connection: the others in the
\* table have what they need in the rest of the queue.
LEMMA OthersAfterHead ==
  ASSUME UDPInv, ready # <<>>, NEW e \in Endpoint, Registered(e),
         connections[e] # Head(ready).conn \/ Head(ready).kind # "keepalive"
  PROVE  Serves(connections[e], object[connections[e]], e, Tail(ready))
<1> DEFINE k == [conn |-> connections[e], kind |-> "keepalive"]
<1>1. k \in Handler /\ Serves(connections[e], object[connections[e]], e, ready)
  BY Entry
<1>2. ready \in Seq(Handler)
  BY DEF UDPInv, UDPTypeOK
<1>3. k # Head(ready)
  OBVIOUS
<1>4. Contains(ready, k) => Contains(Tail(ready), k)
  BY <1>1, <1>2, <1>3, QueuedTail
<1> QED BY <1>1, <1>4 DEF Serves

\* The object changes in what makes no difference to the table.
Same(o, p) ==
  /\ p \in Connection /\ p.endpoint = o.endpoint /\ p.connected = o.connected /\ p.keepalive = o.keepalive
  /\ p.waiting = o.waiting /\ p.left = o.left

\* A send begins or ends, or a user drops the connection.
LEMMA SameInv ==
  ASSUME UDPInv, NEW c \in Conn, Lives(c), NEW p, Same(object[c], p), NEW users \in SUBSET held,
         Update(c, p, connections, users, ready), UNCHANGED <<outcome, silence>>
  PROVE  UDPInv'
<1>1. connections \in [Endpoint -> Conn \cup {Null}] /\ ready \in Seq(Handler) /\ silence' \in [Endpoint -> 0..Timeout]
      /\ users \in SUBSET Conn /\ \A d \in users : Lives(d)
  BY DEF UDPInv, UDPTypeOK
<1>2. ASSUME NEW e \in Endpoint, connections[e] # Null, connections[e] = c
      PROVE  Serves(c, p, e, ready) /\ Timely(p, silence'[e])
  <2>1. Serves(c, object[c], e, ready) /\ Timely(object[c], silence[e])
    BY <1>2, Entry DEF Registered
  <2> QED BY <2>1 DEF Serves, Timely, Same
<1>3. ASSUME NEW e \in Endpoint, connections[e] # Null, connections[e] # c
      PROVE  silence'[e] = silence[e] /\ Serves(connections[e], object[connections[e]], e, ready)
  BY <1>3, Entry DEF Registered
<1>4. p \in Connection
  BY DEF Same
<1> QED BY <1>1, <1>2, <1>3, <1>4, UpdateInv

\* handleSend(), userSends() and release().
LEMMA UsersInv ==
  ASSUME UDPInv, NEW c \in Conn, handleSend(c) \/ userSends(c) \/ release(c)
  PROVE  UDPInv'
<1>1. CASE handleSend(c)
  <2>1. Lives(c) /\ Same(object[c], [object[c] EXCEPT !.sending = FALSE])
    BY <1>1 DEF handleSend, Same, Connection, UDPInv, UDPTypeOK, Lives
  <2> QED BY <1>1, <2>1, SameInv DEF handleSend
<1>2. CASE userSends(c)
  <2>1. Lives(c) /\ Same(object[c], send(object[c]))
    BY <1>2, HeldLives DEF userSends, Same, Connection, send
  <2> QED BY <1>2, <2>1, SameInv DEF userSends
<1>3. CASE release(c)
  <2>1. Lives(c) /\ Same(object[c], object[c])
    BY <1>3, HeldLives DEF release, Same
  <2>2. Update(c, object[c], connections, held \ {c}, ready) /\ UNCHANGED <<outcome, silence>>
    BY <1>3 DEF release
  <2> QED BY <2>1, <2>2, SameInv
<1> QED BY <1>1, <1>2, <1>3

\* Changes of one field.
LEMMA Fields ==
  ASSUME NEW o \in Connection
  PROVE  /\ \A b \in BOOLEAN : [o EXCEPT !.connected = b] \in Connection
         /\ \A b \in BOOLEAN : [o EXCEPT !.keepalive = b] \in Connection
         /\ \A b \in BOOLEAN : [o EXCEPT !.sending = b] \in Connection
         /\ \A w \in {"nothing", "inactive", "connecting"} : [o EXCEPT !.waiting = w] \in Connection
         /\ \A n \in 0..Timeout : [o EXCEPT !.left = n] \in Connection
<1>1. \A b \in BOOLEAN : [o EXCEPT !.connected = b] \in Connection
  BY DEF Connection
<1>2. \A b \in BOOLEAN : [o EXCEPT !.keepalive = b] \in Connection
  BY DEF Connection
<1>3. \A b \in BOOLEAN : [o EXCEPT !.sending = b] \in Connection
  BY DEF Connection
<1>4. \A w \in {"nothing", "inactive", "connecting"} : [o EXCEPT !.waiting = w] \in Connection
  BY DEF Connection
<1>5. \A n \in 0..Timeout : [o EXCEPT !.left = n] \in Connection
  BY DEF Connection
<1> QED BY <1>1, <1>2, <1>3, <1>4, <1>5

\* What a datagram makes of a connection.
LEMMA Received ==
  ASSUME NEW o \in Connection
  PROVE  /\ receivedKeepAlive(o) \in Connection /\ receivedDisconnect(o) \in Connection
         /\ receivedKeepAlive(o).left = Timeout /\ receivedKeepAlive(o).endpoint = o.endpoint
         /\ receivedKeepAlive(o).connected /\ receivedKeepAlive(o).keepalive = o.keepalive
<1>1. 0 \in 0..Timeout /\ Timeout \in 0..Timeout
  BY UDPAssumption
<1>2. receivedKeepAlive(o) = [[[o EXCEPT !.waiting = "inactive"] EXCEPT !.left = Timeout] EXCEPT !.connected = TRUE]
  BY DEF receivedKeepAlive, Connection
<1>3. receivedDisconnect(o) =
        [[[[o EXCEPT !.keepalive = FALSE] EXCEPT !.waiting = "nothing"] EXCEPT !.left = 0] EXCEPT !.connected = FALSE]
  BY DEF receivedDisconnect, Connection
<1>4. receivedKeepAlive(o) \in Connection
  <2>1. [o EXCEPT !.waiting = "inactive"] \in Connection
    BY Fields
  <2>2. [[o EXCEPT !.waiting = "inactive"] EXCEPT !.left = Timeout] \in Connection
    BY <1>1, <2>1, Fields
  <2> QED BY <1>2, <2>2, Fields
<1>5. receivedDisconnect(o) \in Connection
  <2>1. [o EXCEPT !.keepalive = FALSE] \in Connection
    BY Fields
  <2>2. [[o EXCEPT !.keepalive = FALSE] EXCEPT !.waiting = "nothing"] \in Connection
    BY <2>1, Fields
  <2>3. [[[o EXCEPT !.keepalive = FALSE] EXCEPT !.waiting = "nothing"] EXCEPT !.left = 0] \in Connection
    BY <1>1, <2>2, Fields
  <2> QED BY <1>3, <2>3, Fields
<1>6. receivedKeepAlive(o).left = Timeout /\ receivedKeepAlive(o).endpoint = o.endpoint
  BY DEF receivedKeepAlive, Connection
<1>7. receivedKeepAlive(o).connected /\ receivedKeepAlive(o).keepalive = o.keepalive
  BY DEF receivedKeepAlive, Connection
<1> QED BY <1>4, <1>5, <1>6, <1>7

\* A keep-alive is sent, and the next one is planned.
LEMMA KeptAlive ==
  ASSUME NEW o \in Connection
  PROVE  LET p == sendKeepAlive(o) IN
           /\ p \in Connection /\ p.endpoint = o.endpoint /\ p.connected = o.connected /\ p.keepalive
           /\ p.waiting = o.waiting /\ p.left = o.left
<1>1. send(o) \in Connection
  BY Fields DEF send
<1>2. sendKeepAlive(o) \in Connection
  BY <1>1, Fields DEF sendKeepAlive
<1>3. send(o).endpoint = o.endpoint /\ send(o).connected = o.connected /\ send(o).waiting = o.waiting /\ send(o).left = o.left
  BY DEF send, Connection
<1> HIDE DEF send
<1> QED BY <1>1, <1>2, <1>3 DEF sendKeepAlive, Connection

\* A new connection, and the one that a connect datagram makes of it.
LEMMA Accepted ==
  ASSUME NEW e \in Endpoint
  PROVE  /\ New(e) \in Connection
         /\ LET p == receivedConnect(New(e)) IN
              p \in Connection /\ p.endpoint = e /\ p.connected /\ p.keepalive /\ p.waiting = "nothing"
<1>1. New(e) \in Connection
  BY UDPAssumption DEF New, Connection
<1> DEFINE o == [New(e) EXCEPT !.connected = TRUE]
<1>2. o \in Connection
  BY <1>1, Fields
<1>3. o.endpoint = e /\ o.connected /\ o.waiting = "nothing"
  BY DEF New
<1> HIDE DEF o
<1> QED BY <1>1, <1>2, <1>3, KeptAlive DEF receivedConnect, o

\* A connection leaves the table, and may stay with its users.
LEMMA LeaveInv ==
  ASSUME UDPInv, NEW c \in Conn, Lives(c), NEW p \in Connection, NEW users \in {held, held \cup {c}},
         NEW handlers \in Seq(Handler),
         \A e \in Endpoint : Registered(e) => Serves(connections[e], object[connections[e]], e, handlers),
         Update(c, p, unregisterConnection(object[c].endpoint), users, handlers), UNCHANGED <<outcome, silence>>
  PROVE  UDPInv'
<1> DEFINE table == unregisterConnection(object[c].endpoint)
<1>1. /\ table \in [Endpoint -> Conn \cup {Null}] /\ silence' \in [Endpoint -> 0..Timeout]
      /\ users \in SUBSET Conn /\ \A d \in users : d = c \/ Lives(d)
  BY DEF UDPInv, UDPTypeOK, unregisterConnection
<1>2. ASSUME NEW e \in Endpoint, table[e] # Null
      PROVE  connections[e] = table[e] /\ Registered(e) /\ e # object[c].endpoint
  BY <1>2 DEF UDPInv, UDPTypeOK, unregisterConnection, Registered
<1>3. ASSUME NEW e \in Endpoint, table[e] # Null PROVE table[e] # c
  <2>1. connections[e] = table[e] /\ e # object[c].endpoint /\ object[connections[e]].endpoint = e
    BY <1>2, <1>3, Entry
  <2> QED BY <2>1
<1>4. ASSUME NEW e \in Endpoint, table[e] # Null
      PROVE  silence'[e] = silence[e] /\ Serves(table[e], object[table[e]], e, handlers)
  BY <1>2, <1>4
<1> HIDE DEF table
<1> QED BY <1>1, <1>2, <1>3, <1>4, UpdateInv DEF table

\* A datagram arrives.
LEMMA HandleReceiveInv ==
  ASSUME UDPInv, NEW e \in Endpoint, NEW message \in Datagram, handleReceive(e, message)
  PROVE  UDPInv'
<1>1. /\ outcome' = outcome /\ silence' = IF message = "KEEPALIVE" THEN [silence EXCEPT ![e] = 0] ELSE silence
      /\ connections \in [Endpoint -> Conn \cup {Null}] /\ ready \in Seq(Handler) /\ held \in SUBSET Conn
      /\ \A d \in held : Lives(d)
  BY DEF handleReceive, UDPInv, UDPTypeOK
<1>2. /\ silence' \in [Endpoint -> 0..Timeout]
      /\ \A f \in Endpoint : f # e => silence'[f] = silence[f]
  BY <1>1, UDPAssumption DEF UDPInv, UDPTypeOK
<1>3. \A f \in Endpoint : Registered(f) => Serves(connections[f], object[connections[f]], f, ready)
  BY Entry
<1>4. CASE Registered(e)
  <2> DEFINE c == connections[e]
             o == object[c]
  <2>1. c \in Conn /\ Lives(c) /\ o \in Connection /\ o.endpoint = e
    BY <1>4, Entry
  <2>2. CASE message = "KEEPALIVE" /\ Update(c, receivedKeepAlive(o), connections, held, ready)
    <3>1. receivedKeepAlive(o) \in Connection /\ receivedKeepAlive(o).left = Timeout
      BY <2>1, Received
    <3>2. ASSUME NEW f \in Endpoint, connections[f] # Null, connections[f] = c
          PROVE  Serves(c, receivedKeepAlive(o), f, ready) /\ Timely(receivedKeepAlive(o), silence'[f])
      <4>1. Serves(c, o, f, ready)
        BY <1>3, <3>2 DEF Registered
      <4>2. Serves(c, receivedKeepAlive(o), f, ready)
        BY <2>1, <4>1, Received DEF Serves
      <4>3. silence'[f] \in 0..Timeout
        BY <1>2
      <4> QED BY <3>1, <4>2, <4>3, UDPAssumption DEF Timely
    <3>3. ASSUME NEW f \in Endpoint, connections[f] # Null, connections[f] # c
          PROVE  silence'[f] = silence[f] /\ Serves(connections[f], object[connections[f]], f, ready)
      BY <1>2, <1>3, <3>3 DEF Registered
    <3> QED BY <1>1, <1>2, <2>1, <2>2, <3>1, <3>2, <3>3, UpdateInv
  <2>3. ASSUME message = "DISCONNECT", NEW users \in {held, held \cup {c}},
               Update(c, receivedDisconnect(o), unregisterConnection(o.endpoint), users, ready)
        PROVE  UDPInv'
    <3>1. receivedDisconnect(o) \in Connection
      BY <2>1, Received
    <3>2. UNCHANGED <<outcome, silence>>
      BY <1>1, <2>3
    <3> QED BY <1>1, <1>3, <2>1, <2>3, <3>1, <3>2, LeaveInv
  <2>4. CASE message \in {"CONNECT", "DATA"} /\ held' = held \cup {c} /\ UNCHANGED <<object, connections, ready>>
    <3>1. UDPTypeOK' /\ (\A d \in held' : Lives(d)') /\ silence' = silence
      BY <1>1, <2>1, <2>4 DEF UDPInv, UDPTypeOK, Lives
    <3> QED BY <2>4, <3>1 DEF UDPInv, Registered, Lives, Serves, Timely
  <2> QED BY <1>4, <2>2, <2>3, <2>4 DEF handleReceive
<1>5. CASE ~Registered(e)
  <2>1. PICK c \in Conn : ~Lives(c) /\ Update(c, receivedConnect(New(e)), registerConnection(e, c), held, ready)
    BY <1>5 DEF handleReceive
  <2> DEFINE p == receivedConnect(New(e))
             table == registerConnection(e, c)
  <2>2. /\ p \in Connection /\ p.endpoint = e /\ p.connected /\ p.keepalive /\ p.waiting = "nothing"
    BY Accepted
  <2>3. /\ table \in [Endpoint -> Conn \cup {Null}] /\ table[e] = c
        /\ \A f \in Endpoint : f # e => table[f] = connections[f]
    BY <1>1, <1>5 DEF registerConnection
  <2> HIDE DEF p, table
  <2>4. ASSUME NEW f \in Endpoint, table[f] # Null, table[f] = c
        PROVE  Serves(c, p, f, ready) /\ Timely(p, silence'[f])
    <3>1. f = e
      BY <2>1, <2>3, <2>4, FreeNotInTable
    <3> QED BY <2>2, <3>1 DEF Serves, Timely
  <2>5. ASSUME NEW f \in Endpoint, table[f] # Null, table[f] # c
        PROVE  connections[f] = table[f] /\ silence'[f] = silence[f] /\ Serves(table[f], object[table[f]], f, ready)
    BY <1>2, <1>3, <2>3, <2>5 DEF Registered
  <2> QED BY <1>1, <1>2, <2>1, <2>2, <2>3, <2>4, <2>5, UpdateInv DEF p, table
<1> QED BY <1>4, <1>5

\* Time passes: a timer and the silence that is wanted of the peer change together.
LEMMA TickInv ==
  ASSUME UDPInv, Tick
  PROVE  UDPInv'
<1> DEFINE Later(c) == IF Lives(c) /\ object[c].left > 0 THEN [object[c] EXCEPT !.left = @ - 1] ELSE object[c]
<1>1. /\ object' = [c \in Conn |-> Later(c)] /\ UNCHANGED <<held, connections, ready, outcome>>
      /\ silence' = [e \in Endpoint |-> IF silence[e] < Timeout THEN silence[e] + 1 ELSE Timeout]
  BY DEF Tick
<1>2. /\ object \in [Conn -> Connection \cup {Null}] /\ silence \in [Endpoint -> 0..Timeout]
      /\ Timeout \in Nat
  BY UDPAssumption DEF UDPInv, UDPTypeOK
<1>3. ASSUME NEW c \in Conn, Lives(c)
      PROVE  /\ Later(c) \in Connection
             /\ Later(c).left = IF object[c].left > 0 THEN object[c].left - 1 ELSE 0
             /\ Later(c).endpoint = object[c].endpoint /\ Later(c).waiting = object[c].waiting
             /\ Later(c).connected = object[c].connected /\ Later(c).keepalive = object[c].keepalive
  <2>1. object[c] \in Connection /\ object[c].left \in 0..Timeout
    BY <1>2, <1>3 DEF Lives, Connection
  <2>2. CASE object[c].left > 0
    <3>1. object[c].left - 1 \in 0..Timeout /\ Later(c) = [object[c] EXCEPT !.left = object[c].left - 1]
      BY <1>2, <1>3, <2>1, <2>2
    <3>2. Later(c) \in Connection
      BY <2>1, <3>1, Fields
    <3>3. Later(c).left = object[c].left - 1
      BY <2>1, <3>1 DEF Connection
    <3>4. /\ Later(c).endpoint = object[c].endpoint /\ Later(c).waiting = object[c].waiting
          /\ Later(c).connected = object[c].connected /\ Later(c).keepalive = object[c].keepalive
      BY <2>1, <3>1 DEF Connection
    <3> QED BY <2>2, <3>2, <3>3, <3>4
  <2>3. CASE ~(object[c].left > 0)
    BY <2>1, <2>3
  <2> QED BY <2>2, <2>3
<1>4. \A c \in Conn : ~Lives(c) => Later(c) = Null
  BY DEF Lives
<1> HIDE DEF Later
<1>5. silence' \in [Endpoint -> 0..Timeout]
  BY <1>1, <1>2
<1>6. \A c \in Conn : Later(c) \in Connection \cup {Null} /\ (Lives(c) => Later(c) # Null)
  BY <1>3, <1>4, UDPNullAssumption
<1>7. UDPTypeOK'
  BY <1>1, <1>5, <1>6 DEF UDPInv, UDPTypeOK
<1>8. \A d \in held' : Lives(d)'
  BY <1>1, <1>6 DEF UDPInv, UDPTypeOK, Lives
<1>9. ASSUME NEW e \in Endpoint, Registered(e)
      PROVE  /\ object'[connections[e]] # Null /\ Serves(connections[e], object'[connections[e]], e, ready)
             /\ Timely(object'[connections[e]], silence'[e])
  <2> DEFINE c == connections[e]
  <2>1. /\ c \in Conn /\ Lives(c) /\ object[c] \in Connection /\ Serves(c, object[c], e, ready)
        /\ Timely(object[c], silence[e])
    BY <1>9, Entry
  <2>2. object'[c] = Later(c)
    BY <1>1, <2>1
  <2>3. Serves(c, Later(c), e, ready)
    BY <1>3, <2>1 DEF Serves
  <2>4. Timely(Later(c), silence'[e])
    <3>1. object[c].left \in 0..Timeout /\ silence[e] \in 0..Timeout
      BY <1>2, <2>1 DEF Connection
    <3>2. /\ Later(c).left = IF object[c].left > 0 THEN object[c].left - 1 ELSE 0
          /\ Later(c).waiting = object[c].waiting
          /\ silence'[e] = IF silence[e] < Timeout THEN silence[e] + 1 ELSE Timeout
      BY <1>1, <1>3, <2>1
    <3>3. object[c].waiting = "inactive" => object[c].left + silence[e] >= Timeout
      BY <2>1 DEF Timely
    <3> HIDE DEF c
    <3> QED BY <1>2, <3>1, <3>2, <3>3 DEF Timely
  <2> QED BY <1>6, <2>1, <2>2, <2>3, <2>4
<1>10. \A e \in Endpoint : Registered(e)' =>
         /\ Lives(connections[e])' /\ Serves(connections[e], object[connections[e]], e, ready)'
         /\ Timely(object[connections[e]], silence[e])'
  BY <1>1, <1>9 DEF Registered, Lives, Serves, Timely
<1> QED BY <1>7, <1>8, <1>10 DEF UDPInv

\* One connection changes when a timer of it expires, and a handler is put in the queue.
LEMMA ExpireInv ==
  ASSUME UDPInv, NEW c \in Conn, Lives(c), NEW p \in Connection, NEW h \in Handler,
         object' = [object EXCEPT ![c] = p], ready' = Append(ready, h),
         UNCHANGED <<held, connections, outcome, silence>>,
         p.endpoint = object[c].endpoint, p.connected = object[c].connected,
         p.keepalive = object[c].keepalive \/ h = [conn |-> c, kind |-> "keepalive"],
         p.waiting = "inactive" => object[c].waiting = "inactive" /\ p.left = object[c].left
  PROVE  UDPInv'
<1>1. object \in [Conn -> Connection \cup {Null}] /\ ready \in Seq(Handler) /\ p # Null
  BY UDPNullAssumption DEF UDPInv, UDPTypeOK
<1>2. ready' \in Seq(Handler) /\ \A k \in Handler : Contains(ready', k) <=> Contains(ready, k) \/ k = h
  BY <1>1, QueuedAppend
<1>3. object' \in [Conn -> Connection \cup {Null}] /\ \A d \in Conn : object'[d] = IF d = c THEN p ELSE object[d]
  BY <1>1
<1>4. UDPTypeOK'
  BY <1>2, <1>3 DEF UDPInv, UDPTypeOK
<1>5. \A d \in held' : Lives(d)'
  BY <1>1, <1>3 DEF UDPInv, UDPTypeOK, Lives
<1>6. ASSUME NEW e \in Endpoint, Registered(e)
      PROVE  /\ object'[connections[e]] # Null /\ Serves(connections[e], object'[connections[e]], e, ready')
             /\ Timely(object'[connections[e]], silence[e])
  <2> DEFINE d == connections[e]
             k == [conn |-> d, kind |-> "keepalive"]
  <2>1. /\ d \in Conn /\ Lives(d) /\ Serves(d, object[d], e, ready) /\ Timely(object[d], silence[e]) /\ k \in Handler
    BY <1>6, Entry
  <2>2. Contains(ready, k) => Contains(ready', k)
    BY <1>2, <2>1
  <2>3. CASE d = c
    <3>1. object'[d] = p
      BY <1>3, <2>3
    <3>2. h = k => Contains(ready', k)
      BY <1>2, <2>1
    <3>3. Serves(d, p, e, ready')
      BY <2>1, <2>2, <2>3, <3>2 DEF Serves
    <3>4. Timely(p, silence[e])
      BY <2>1, <2>3 DEF Timely
    <3> QED BY <1>1, <3>1, <3>3, <3>4
  <2>4. CASE d # c
    <3>1. object'[d] = object[d]
      BY <1>3, <2>1, <2>4
    <3> QED BY <2>1, <2>2, <3>1 DEF Serves, Lives
  <2> QED BY <2>3, <2>4
<1>7. \A e \in Endpoint : Registered(e)' =>
        /\ Lives(connections[e])' /\ Serves(connections[e], object[connections[e]], e, ready)'
        /\ Timely(object[connections[e]], silence[e])'
  BY <1>6 DEF Registered, Lives, Serves, Timely
<1> QED BY <1>4, <1>5, <1>7 DEF UDPInv

\* conn_send_timer or conn_receive_timeout of a connection expires.
LEMMA TimersInv ==
  ASSUME UDPInv, NEW c \in Conn, expireSend(c) \/ expireReceive(c)
  PROVE  UDPInv'
<1>1. CASE expireSend(c)
  <2> DEFINE p == [object[c] EXCEPT !.keepalive = FALSE]
             h == [conn |-> c, kind |-> "keepalive"]
  <2>1. Lives(c) /\ object[c] \in Connection /\ h \in Handler
    BY <1>1 DEF expireSend, UDPInv, UDPTypeOK, Lives, Handler
  <2>2. p \in Connection
    BY <2>1, Fields
  <2>3. /\ p.endpoint = object[c].endpoint /\ p.connected = object[c].connected
        /\ p.waiting = object[c].waiting /\ p.left = object[c].left
    BY <2>1 DEF Connection
  <2>4. /\ object' = [object EXCEPT ![c] = p] /\ ready' = Append(ready, h)
        /\ UNCHANGED <<held, connections, outcome, silence>>
    BY <1>1 DEF expireSend, Expires
  <2> HIDE DEF p
  <2> QED BY <2>1, <2>2, <2>3, <2>4, ExpireInv
<1>2. CASE expireReceive(c)
  <2> DEFINE p == [object[c] EXCEPT !.waiting = "nothing"]
             h == [conn |-> c, kind |-> object[c].waiting]
  <2>1. Lives(c) /\ object[c] \in Connection /\ object[c].waiting \in {"inactive", "connecting"}
    BY <1>2 DEF expireReceive, UDPInv, UDPTypeOK, Lives, Connection
  <2>2. p \in Connection
    BY <2>1, Fields
  <2>3. h \in Handler
    BY <2>1 DEF Handler
  <2>4. /\ p.endpoint = object[c].endpoint /\ p.connected = object[c].connected
        /\ p.keepalive = object[c].keepalive /\ p.waiting = "nothing"
    BY <2>1 DEF Connection
  <2>5. /\ object' = [object EXCEPT ![c] = p] /\ ready' = Append(ready, h)
        /\ UNCHANGED <<held, connections, outcome, silence>>
    BY <1>2 DEF expireReceive, Expires
  <2> HIDE DEF p, h
  <2> QED BY <2>1, <2>2, <2>3, <2>4, <2>5, ExpireInv
<1> QED BY <1>1, <1>2

\* The io_service runs the handler at the head of its queue.
LEMMA RunReadyInv ==
  ASSUME UDPInv, runReady
  PROVE  UDPInv'
<1> DEFINE h == Head(ready)
           c == h.conn
<1>1. /\ ready # <<>> /\ UNCHANGED silence /\ ready \in Seq(Handler)
      /\ connections \in [Endpoint -> Conn \cup {Null}] /\ silence' \in [Endpoint -> 0..Timeout]
      /\ held \in SUBSET Conn /\ \A d \in held : Lives(d)
  BY DEF runReady, UDPInv, UDPTypeOK
<1>2. h \in Handler /\ Tail(ready) \in Seq(Handler)
  BY <1>1
<1>3. c \in Conn /\ (Lives(c) => object[c] \in Connection)
  BY <1>2 DEF Handler, UDPInv, UDPTypeOK, Lives
<1>4. \A how \in {"terminated", "undefined"} : Down(how) => UDPInv'
  BY <1>1, DownInv
<1>5. CASE h.kind = "keepalive" /\ runKeepalive(h)
  <2>1. CASE ~Lives(c)
    BY <1>4, <1>5, <2>1 DEF runKeepalive, Undefined
  <2>2. CASE Lives(c)
    <3> DEFINE p == sendKeepAlive(object[c])
    <3>1. Update(c, p, connections, held, Tail(ready)) /\ UNCHANGED outcome
      BY <1>5, <2>2 DEF runKeepalive
    <3>2. /\ p \in Connection /\ p.endpoint = object[c].endpoint /\ p.connected = object[c].connected /\ p.keepalive
          /\ p.waiting = object[c].waiting /\ p.left = object[c].left
      BY <1>3, <2>2, KeptAlive
    <3> HIDE DEF p
    <3>3. ASSUME NEW e \in Endpoint, connections[e] # Null, connections[e] = c
          PROVE  Serves(c, p, e, Tail(ready)) /\ Timely(p, silence'[e])
      <4>1. Serves(c, object[c], e, ready) /\ Timely(object[c], silence[e])
        BY <3>3, Entry DEF Registered
      <4> QED BY <1>1, <3>2, <4>1 DEF Serves, Timely
    <3>4. ASSUME NEW e \in Endpoint, connections[e] # Null, connections[e] # c
          PROVE  silence'[e] = silence[e] /\ Serves(connections[e], object[connections[e]], e, Tail(ready))
      BY <1>1, <3>4, OthersAfterHead DEF Registered
    <3>5. p \in Connection /\ Tail(ready) \in Seq(Handler)
      BY <1>2, <3>2
    <3>6. outcome' = outcome
      BY <3>1
    <3> HIDE DEF c
    <3> QED BY <1>1, <1>3, <3>1, <3>3, <3>4, <3>5, <3>6, UpdateInv
  <2> QED BY <2>1, <2>2
<1>6. CASE h.kind = "inactive" /\ runInactive(h)
  <2>1. CASE Undefined
    BY <1>4, <2>1 DEF Undefined
  <2>2. CASE ~Undefined
    <3> DEFINE p == [object[c] EXCEPT !.connected = FALSE]
    <3>1. Lives(c) /\ UNCHANGED outcome
      BY <1>6, <2>2 DEF runInactive
    <3>2. PICK users \in {held, held \cup {c}} :
            Update(c, p, unregisterConnection(object[c].endpoint), users, Tail(ready))
      BY <1>6, <2>2 DEF runInactive
    <3>3. p \in Connection
      BY <1>3, <3>1, Fields
    <3>4. \A e \in Endpoint : Registered(e) => Serves(connections[e], object[connections[e]], e, Tail(ready))
      BY <1>1, <1>6, OthersAfterHead
    <3> HIDE DEF p
    <3> QED BY <1>1, <1>2, <1>3, <3>1, <3>2, <3>3, <3>4, LeaveInv
  <2> QED BY <2>1, <2>2
<1>7. CASE h.kind = "connecting" /\ runConnecting(h)
  BY <1>4, <1>7 DEF runConnecting, Undefined
<1> QED BY <1>5, <1>6, <1>7 DEF runReady

\* Nothing changes.
LEMMA StutterInv ==
  ASSUME UDPInv, UNCHANGED <<objectVars, tableVars, loopVars>>, UNCHANGED silence
  PROVE  UDPInv'
BY DEF objectVars, tableVars, loopVars, UDPInv, UDPTypeOK, Registered, Lives, Serves, Timely

\* Every step.
LEMMA NextInv ==
  ASSUME UDPInv, [UDPNext]_udpVars
  PROVE  UDPInv'
<1>1. CASE Tick
  BY <1>1, TickInv
<1>2. CASE runReady
  BY <1>2, RunReadyInv
<1>3. ASSUME NEW e \in Endpoint, NEW message \in Datagram, handleReceive(e, message) PROVE UDPInv'
  BY <1>3, HandleReceiveInv
<1>4. ASSUME NEW c \in Conn, expireSend(c) \/ expireReceive(c) PROVE UDPInv'
  BY <1>4, TimersInv
<1>5. ASSUME NEW c \in Conn, handleSend(c) \/ userSends(c) \/ release(c) PROVE UDPInv'
  BY <1>5, UsersInv
<1>6. CASE UNCHANGED udpVars
  BY <1>6, StutterInv DEF udpVars
<1> QED BY <1>1, <1>2, <1>3, <1>4, <1>5, <1>6 DEF UDPNext

\* The inductive invariant holds in every behaviour.
LEMMA UDPInvariant == UDPSpec => []UDPInv
BY InitInv, NextInv, PTL DEF UDPSpec

-----------------------------------------------------------------------------
(***************************************************************************)
(* The theorems.                                                           *)
(***************************************************************************)

\* The connections, the table, the timers and the queue keep their types: no entry of
\* Socket::connections is an address outside Conn, and no timer runs longer than
\* transport.udp.inactivity_timeout.
THEOREM UDPTypeCorrect == UDPSpec => []UDPTypeOK
<1>1. UDPInv => UDPTypeOK
  BY DEF UDPInv
<1> QED BY <1>1, UDPInvariant, PTL

\* Whatever datagrams arrive and however late the handlers of the timers run, a
\* connection in Socket::connections exists, belongs to its endpoint, is connected
\* and has its next keep-alive planned.
THEOREM RegisteredServedCorrect == UDPSpec => []RegisteredServed
<1>1. UDPInv => RegisteredServed
  BY DEF UDPInv, RegisteredServed, Serves, Queued
<1> QED BY <1>1, UDPInvariant, PTL

\* Deleting a connection leaves no handler of an inactivity timer behind.
LEMMA UpdateQueue ==
  ASSUME NEW c \in Conn, NEW o, NEW table, NEW users, NEW handlers \in Seq(Handler),
         Update(c, o, table, users, handlers), NEW k \in Handler, k.kind = "inactive", Contains(ready', k)
  PROVE  Contains(handlers, k)
<1> DEFINE a == [conn |-> c, kind |-> "connecting"]
<1>1. ready' = handlers \/ ready' = handlers \o AbortRuns(c, o)
  BY DEF Update
<1>2. a \in Handler /\ k # a
  BY DEF Handler
<1> HIDE DEF a
<1>3. AbortRuns(c, o) = <<a>> \/ AbortRuns(c, o) = <<>>
  BY DEF AbortRuns, a
<1>4. AbortRuns(c, o) \in Seq(Handler) /\ ~Contains(AbortRuns(c, o), k)
  <2>1. <<>> \in Seq(Handler) /\ <<a>> \in Seq(Handler)
    BY <1>2
  <2>2. ~Contains(<<>>, k)
    BY DEF Contains
  <2>3. ~Contains(<<a>>, k)
    BY <1>2 DEF Contains
  <2> QED BY <1>3, <2>1, <2>2, <2>3
<1> QED BY <1>1, <1>4, QueuedConcat

\* Only the expiry of the inactivity timer of a connection makes its handler ready.
LEMMA QueuedByExpiry ==
  ASSUME UDPInv, [UDPNext]_udpVars, NEW c \in Conn, ~Queued(c, "inactive"), Queued(c, "inactive")'
  PROVE  expireReceive(c) /\ object[c].waiting = "inactive"
<1> DEFINE k == [conn |-> c, kind |-> "inactive"]
<1>1. k \in Handler /\ k.kind = "inactive" /\ ~Contains(ready, k) /\ Contains(ready', k)
  BY DEF Handler, Queued
<1>2. ready \in Seq(Handler) /\ ready' # ready
  BY <1>1 DEF UDPInv, UDPTypeOK
<1>3. ASSUME NEW d \in Conn, NEW o, NEW table, NEW users PROVE ~Update(d, o, table, users, ready)
  BY <1>1, <1>2, UpdateQueue
<1>4. ASSUME NEW how, Down(how) PROVE FALSE
  BY <1>1, <1>4 DEF Down, Contains
<1>5. ASSUME NEW d \in Conn, NEW kind \in {"keepalive", "inactive", "connecting"}, Expires(d, kind)
      PROVE  d = c /\ kind = "inactive"
  <2>1. [conn |-> d, kind |-> kind] \in Handler /\ ready' = Append(ready, [conn |-> d, kind |-> kind])
    BY <1>5 DEF Expires, Handler
  <2>2. k = [conn |-> d, kind |-> kind]
    BY <1>1, <1>2, <2>1, QueuedAppend
  <2> QED BY <2>2
<1> HIDE DEF k
<1>6. ~Tick /\ ~UNCHANGED udpVars
  BY <1>2 DEF Tick, udpVars, loopVars
<1>7. ~runReady
  <2> SUFFICES ASSUME runReady PROVE FALSE
    OBVIOUS
  <2> DEFINE h == Head(ready)
  <2>1. ready # <<>> /\ h \in Handler /\ Tail(ready) \in Seq(Handler) /\ ~Contains(Tail(ready), k)
    BY <1>1, <1>2, QueuedTail DEF runReady
  <2>2. h.conn \in Conn
    BY <2>1 DEF Handler
  <2> HIDE DEF h
  <2>3. ASSUME NEW o, NEW table, NEW users, Update(h.conn, o, table, users, Tail(ready)) PROVE FALSE
    BY <1>1, <2>1, <2>2, <2>3, UpdateQueue
  <2> QED BY <1>4, <2>3 DEF runReady, runKeepalive, runInactive, runConnecting, Undefined, h
<1>8. ASSUME NEW e \in Endpoint, NEW message \in Datagram, handleReceive(e, message) PROVE FALSE
  <2>1. Registered(e) => connections[e] \in Conn
    BY DEF Registered, UDPInv, UDPTypeOK
  <2> QED BY <1>2, <1>3, <1>8, <2>1 DEF handleReceive
<1>9. ASSUME NEW d \in Conn PROVE ~handleSend(d) /\ ~userSends(d) /\ ~release(d)
  BY <1>3 DEF handleSend, userSends, release
<1>10. ASSUME NEW d \in Conn PROVE ~expireSend(d)
  BY <1>5 DEF expireSend
<1>11. ASSUME NEW d \in Conn, expireReceive(d) PROVE expireReceive(c) /\ object[c].waiting = "inactive"
  <2>1. object[d].waiting \in {"keepalive", "inactive", "connecting"}
    BY <1>11 DEF expireReceive, UDPInv, UDPTypeOK, Lives, Connection
  <2> QED BY <1>5, <1>11, <2>1 DEF expireReceive
<1> QED BY <1>6, <1>7, <1>8, <1>9, <1>10, <1>11 DEF UDPNext

\* The inactivity timer of a connection in the table never expires before the peer has
\* been silent for all of transport.udp.inactivity_timeout, for every length of it and
\* every order of keep-alives, timers and late handlers.
THEOREM ExpiresAfterSilenceCorrect == UDPSpec => ExpiresAfterSilence
<1> DEFINE Early == \A e \in Endpoint :
             Registered(e) /\ ~Queued(connections[e], "inactive") /\ Queued(connections[e], "inactive")'
             /\ connections'[e] = connections[e] => silence[e] = Timeout
<1>1. ASSUME UDPInv, [UDPNext]_udpVars PROVE Early
  <2> SUFFICES ASSUME NEW e \in Endpoint, Registered(e), ~Queued(connections[e], "inactive"),
                      Queued(connections[e], "inactive")', connections'[e] = connections[e]
               PROVE  silence[e] = Timeout
    BY DEF Queued
  <2> DEFINE c == connections[e]
  <2>1. c \in Conn /\ Timely(object[c], silence[e])
    BY <1>1, Entry
  <2>2. expireReceive(c) /\ object[c].waiting = "inactive"
    BY <1>1, <2>1, QueuedByExpiry DEF Queued
  <2>3. object[c].left = 0 /\ silence[e] \in 0..Timeout
    BY <1>1, <2>2 DEF expireReceive, UDPInv, UDPTypeOK
  <2>4. object[c].left + silence[e] >= Timeout
    BY <2>1, <2>2 DEF Timely
  <2> HIDE DEF c
  <2> QED BY <2>3, <2>4, UDPAssumption
<1> QED BY <1>1, UDPInvariant, PTL DEF UDPSpec, ExpiresAfterSilence

-----------------------------------------------------------------------------
(***************************************************************************)
(* Discovery.  The inductive invariant of the transport is kept by the     *)
(* connections that discovery makes.                                       *)
(***************************************************************************)

\* The buffer of receive() holds an announcement that was received.
BufferAnnounced == announced # {} => \E address \in Address : <<address, udp_buffer>> \in announced

DiscoveryInv == DiscoveryTypeOK /\ UDPInv /\ BufferAnnounced

\* An outgoing connection, which waits for an answer.
LEMMA Connected ==
  ASSUME NEW e \in Endpoint
  PROVE  connect(New(e)) \in Connection /\ connect(New(e)).endpoint = e /\ connect(New(e)).sending
<1>1. New(e) \in Connection /\ New(e).endpoint = e
  BY UDPAssumption DEF New, Connection
<1> DEFINE o == send(New(e))
           p == [o EXCEPT !.waiting = "connecting"]
<1>2. o \in Connection
  BY <1>1, Fields DEF send
<1>3. o.endpoint = e /\ o.sending
  BY <1>1 DEF send, Connection
<1>4. p \in Connection
  BY <1>2, Fields
<1>5. Timeout \in 0..Timeout
  BY UDPAssumption
<1>6. connect(New(e)) = [p EXCEPT !.left = Timeout]
  <2> HIDE DEF o
  <2> QED BY <1>2 DEF connect, Connection, o
<1>7. p.endpoint = e /\ p.sending
  <2> HIDE DEF o
  <2> QED BY <1>2, <1>3 DEF Connection
<1>8. connect(New(e)) \in Connection
  <2> HIDE DEF p
  <2> QED BY <1>4, <1>5, <1>6, Fields
<1>9. connect(New(e)).endpoint = e /\ connect(New(e)).sending
  <2> HIDE DEF p
  <2> QED BY <1>4, <1>6, <1>7 DEF Connection
<1> QED BY <1>8, <1>9

\* UDPInterface::connect() disturbs no entry of the table, and the connection lives.
LEMMA InterfaceConnect ==
  ASSUME UDPInv, NEW e \in Endpoint, interfaceConnect(e), UNCHANGED silence
  PROVE  UDPInv' /\ Connects(e)
<1>1. PICK c \in Conn : ~Lives(c) /\ Update(c, connect(New(e)), connections, held, ready) /\ UNCHANGED outcome
  BY DEF interfaceConnect
<1> DEFINE o == connect(New(e))
<1>2. o \in Connection /\ o.endpoint = e /\ o.sending /\ o # Null
  BY Connected, UDPNullAssumption
<1> HIDE DEF o
<1>3. /\ connections \in [Endpoint -> Conn \cup {Null}] /\ ready \in Seq(Handler) /\ held \in SUBSET Conn
      /\ silence' \in [Endpoint -> 0..Timeout] /\ \A d \in held : Lives(d)
  BY DEF UDPInv, UDPTypeOK
<1>4. \A f \in Endpoint : connections[f] # c
  BY <1>1, FreeNotInTable
<1>5. \A f \in Endpoint : connections[f] # Null =>
        silence'[f] = silence[f] /\ Serves(connections[f], object[connections[f]], f, ready)
  BY Entry DEF Registered
<1>6. UDPInv'
  BY <1>1, <1>2, <1>3, <1>4, <1>5, UpdateInv DEF o
<1>7. object'[c] = o
  BY <1>1, <1>2 DEF Update, Referenced, o
<1>8. Connects(e)
  BY <1>1, <1>2, <1>7 DEF Connects, Lives
<1> QED BY <1>6, <1>8

\* DiscoveryService::handshake().
LEMMA Handshake ==
  ASSUME UDPInv, NEW e \in Endpoint, handshake(e), UNCHANGED silence
  PROVE  UDPInv' /\ (interface => Registered(e) \/ Connects(e))
<1>1. CASE Registered(e)
  BY <1>1, StutterInv DEF handshake
<1>2. CASE ~Registered(e) /\ interface
  BY <1>2, InterfaceConnect DEF handshake, socketConnect
<1>3. CASE ~Registered(e) /\ ~interface
  <2>1. Down("undefined") /\ silence' \in [Endpoint -> 0..Timeout]
    BY <1>3 DEF handshake, socketConnect, UDPInv, UDPTypeOK
  <2> QED BY <1>3, <2>1, DownInv
<1> QED BY <1>1, <1>2, <1>3

\* The endpoint of an announcement.
LEMMA Announced ==
  ASSUME NEW address \in Address, NEW port \in Port
  PROVE  <<address, port>> \in Endpoint
BY DiscoveryAssumption

\* A line of the bootstrap file.
LEMMA BootstrapInv ==
  ASSUME DiscoveryInv, bootstrapLine
  PROVE  DiscoveryInv'
<1>1. lines # <<>> /\ lines' = Tail(lines) /\ UNCHANGED <<silence, interface, lpd, udp_buffer, announced, odd>>
  BY DEF bootstrapLine, lpdVars
<1>2. lines \in Seq(Line) /\ silence' \in [Endpoint -> 0..Timeout] /\ UDPInv
  BY <1>1 DEF DiscoveryInv, DiscoveryTypeOK, UDPTypeOK
<1>3. Head(lines) \in Line /\ lines' \in Seq(Line)
  BY <1>1, <1>2
<1>4. Head(lines).endpoint \in Endpoint
  BY <1>3 DEF Line
<1>5. UDPInv'
  <2>1. CASE UNCHANGED <<objectVars, tableVars, loopVars>>
    BY <1>1, <1>2, <2>1, StutterInv
  <2>2. CASE Down("terminated")
    BY <1>2, <2>2, DownInv
  <2>3. CASE handshake(Head(lines).endpoint)
    BY <1>1, <1>2, <1>4, <2>3, Handshake
  <2> QED BY <2>1, <2>2, <2>3 DEF bootstrapLine
<1> QED BY <1>1, <1>3, <1>5 DEF DiscoveryInv, DiscoveryTypeOK, UDPInv, BufferAnnounced

\* An announcement is received: what is parsed was announced before, or is anything.
LEMMA ReceivedInv ==
  ASSUME DiscoveryInv, NEW address \in Address, NEW port \in Port, processReceived(address, port)
  PROVE  DiscoveryInv'
<1>1. /\ announced' = announced \cup {<<address, port>>} /\ udp_buffer' = port /\ odd' = ~odd
      /\ UNCHANGED <<silence, interface, lpd, lines>> /\ UDPInv
  BY DEF processReceived, startVars, DiscoveryInv
<1>2. PICK parsed \in Parsed(udp_buffer, port) :
        IF parsed = Null THEN UNCHANGED <<objectVars, tableVars, loopVars>> ELSE handshake(<<address, parsed>>)
  BY DEF processReceived
<1>3. parsed \in Port \cup {Null}
  BY <1>2 DEF Parsed, DiscoveryInv, DiscoveryTypeOK
<1>4. UDPInv'
  <2>1. CASE parsed = Null
    BY <1>1, <1>2, <2>1, StutterInv
  <2>2. CASE parsed # Null
    <3>1. <<address, parsed>> \in Endpoint /\ handshake(<<address, parsed>>)
      BY <1>2, <1>3, <2>2, Announced
    <3> QED BY <1>1, <3>1, Handshake
  <2> QED BY <2>1, <2>2
<1>5. announced' \subseteq Endpoint
  BY <1>1, Announced DEF DiscoveryInv, DiscoveryTypeOK
<1>6. BufferAnnounced'
  BY <1>1 DEF BufferAnnounced
<1>7. odd' \in BOOLEAN
  BY <1>1
<1> QED BY <1>1, <1>4, <1>5, <1>6, <1>7 DEF DiscoveryInv, DiscoveryTypeOK, UDPInv

\* Every step.
LEMMA DiscoveryNextInv ==
  ASSUME DiscoveryInv, [DiscoveryNext]_discoveryVars
  PROVE  DiscoveryInv'
<1>1. CASE bootstrapLine
  BY <1>1, BootstrapInv
<1>2. ASSUME NEW address \in Address, NEW port \in Port, processReceived(address, port) PROVE DiscoveryInv'
  BY <1>2, ReceivedInv
<1>3. CASE UDPNext /\ UNCHANGED <<startVars, lpdVars>>
  <2>1. UDPInv'
    BY <1>3, NextInv DEF DiscoveryInv
  <2> QED BY <1>3, <2>1 DEF DiscoveryInv, DiscoveryTypeOK, UDPInv, BufferAnnounced, startVars, lpdVars
<1>4. CASE UNCHANGED discoveryVars
  <2>1. UDPInv'
    BY <1>4, NextInv DEF DiscoveryInv, discoveryVars
  <2> QED BY <1>4, <2>1 DEF DiscoveryInv, DiscoveryTypeOK, UDPInv, BufferAnnounced, discoveryVars, startVars, lpdVars
<1> QED BY <1>1, <1>2, <1>3, <1>4 DEF DiscoveryNext

\* The inductive invariant holds in every behaviour.
LEMMA DiscoveryInvariant == DiscoverySpec => []DiscoveryInv
<1>1. DiscoveryInit => DiscoveryInv
  BY InitInv, DiscoveryAssumption DEF DiscoveryInit, DiscoveryInv, DiscoveryTypeOK, UDPInv, BufferAnnounced
<1> QED BY <1>1, DiscoveryNextInv, PTL DEF DiscoverySpec

-----------------------------------------------------------------------------
(***************************************************************************)
(* The theorems.                                                           *)
(***************************************************************************)

\* The transport and the state of BootstrapDiscovery and UDPLPD keep their types.
THEOREM DiscoveryTypeCorrect == DiscoverySpec => []DiscoveryTypeOK
<1>1. DiscoveryInv => DiscoveryTypeOK
  BY DEF DiscoveryInv
<1> QED BY <1>1, DiscoveryInvariant, PTL

\* The connections that DiscoveryService::handshake() makes, while peers connect to us
\* at the same time, leave every connection in the table as the transport promises.
THEOREM DiscoveryServedCorrect == DiscoverySpec => []RegisteredServed
<1>1. DiscoveryInv => RegisteredServed
  BY DEF DiscoveryInv, UDPInv, RegisteredServed, Serves, Queued
<1> QED BY <1>1, DiscoveryInvariant, PTL

\* Daemons on one port find each other although UDPLPD::receive() copies its buffer
\* too early: the announcement that is parsed instead is of the same port.
THEOREM OnePortCorrect == DiscoverySpec => OnePortDiscovered
<1> DEFINE Found == \A address \in Address, port \in Port :
             /\ announced # {} /\ announced \subseteq Address \X {port}
             /\ interface /\ processReceived(address, port)
             => Registered(<<address, port>>) \/ Connects(<<address, port>>)
<1>1. ASSUME DiscoveryInv PROVE Found
  <2> SUFFICES ASSUME NEW address \in Address, NEW port \in Port, announced # {}, announced \subseteq Address \X {port},
                      interface, processReceived(address, port)
               PROVE  Registered(<<address, port>>) \/ Connects(<<address, port>>)
    OBVIOUS
  <2>1. udp_buffer = port /\ port # Null
    BY <1>1, DiscoveryAssumption DEF DiscoveryInv, BufferAnnounced
  <2>2. Parsed(udp_buffer, port) = {port}
    BY <2>1 DEF Parsed
  <2>3. handshake(<<address, port>>) /\ UNCHANGED silence
    BY <2>1, <2>2 DEF processReceived
  <2> QED BY <1>1, <2>3, Announced, Handshake DEF DiscoveryInv
<1> QED BY <1>1, DiscoveryInvariant, PTL DEF OnePortDiscovered
=============================================================================
