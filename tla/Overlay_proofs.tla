--------------------------- MODULE Overlay_proofs ---------------------------
(***************************************************************************)
(* Proofs about the overlay's connections, for any number of connections,  *)
(* transports and callers, and any time-out.                               *)
(***************************************************************************)
EXTENDS Overlay, SequenceTheorems, TLAPS

-----------------------------------------------------------------------------
(***************************************************************************)
(* The list of transports.                                                 *)
(***************************************************************************)

\* Erasing a place of a list without repetitions leaves one, in which what was at
\* the place no longer is.
LEMMA RemoveAtInjective ==
  ASSUME NEW S, NEW s \in Seq(S), IsInjective(s), NEW i \in 1..Len(s)
  PROVE  /\ RemoveAt(s, i) \in Seq(S) /\ IsInjective(RemoveAt(s, i))
         /\ \A k \in 1..Len(RemoveAt(s, i)) : RemoveAt(s, i)[k] # s[i]
<1> DEFINE a == SubSeq(s, 1, i - 1)
           b == SubSeq(s, i + 1, Len(s))
<1>1. s \in [1..Len(s) -> S] /\ Len(s) \in Nat /\ DOMAIN s = 1..Len(s)
  BY LenProperties
<1>2. a \in Seq(S) /\ Len(a) = i - 1 /\ \A k \in 1..i - 1 : a[k] = s[k]
  <2>1. 1 \in Int /\ i - 1 \in Int /\ \A k \in 1..i - 1 : s[k] \in S
    BY <1>1
  <2>2. /\ a \in Seq(S) /\ Len(a) = IF 1 <= i - 1 THEN i - 1 - 1 + 1 ELSE 0
        /\ \A k \in 1..i - 1 - 1 + 1 : a[k] = s[1 + k - 1]
    BY <2>1, SubSeqProperties
  <2> QED BY <2>2
<1>3. b \in Seq(S) /\ Len(b) = Len(s) - i /\ \A k \in 1..Len(s) - i : b[k] = s[i + k]
  <2>1. i + 1 \in Int /\ Len(s) \in Int /\ \A k \in i + 1..Len(s) : s[k] \in S
    BY <1>1
  <2>2. /\ b \in Seq(S) /\ Len(b) = IF i + 1 <= Len(s) THEN Len(s) - (i + 1) + 1 ELSE 0
        /\ \A k \in 1..Len(s) - (i + 1) + 1 : b[k] = s[i + 1 + k - 1]
    BY <2>1, SubSeqProperties
  <2> HIDE DEF b
  <2>3. Len(b) = Len(s) - i
    <3>1. Len(b) = IF i + 1 <= Len(s) THEN Len(s) - (i + 1) + 1 ELSE 0
      BY <2>2
    <3>2. Len(s) \in Nat
      BY <1>1
    <3> QED BY <3>1, <3>2
  <2>4. ASSUME NEW k \in 1..Len(s) - i PROVE b[k] = s[i + k]
    <3>1. k \in 1..Len(s) - (i + 1) + 1 /\ i + 1 + k - 1 = i + k
      BY <1>1
    <3> QED BY <2>2, <3>1
  <2> QED BY <2>2, <2>3, <2>4, Zenon
<1> DEFINE r == a \o b
<1>4. /\ r \in Seq(S) /\ Len(r) = Len(s) - 1
      /\ \A k \in 1..Len(s) - 1 : r[k] = IF k < i THEN s[k] ELSE s[k + 1]
  <2>1. /\ r \in Seq(S) /\ Len(r) = Len(a) + Len(b)
        /\ \A k \in 1..Len(a) + Len(b) : r[k] = IF k <= Len(a) THEN a[k] ELSE b[k - Len(a)]
    BY <1>2, <1>3, ConcatProperties
  <2> HIDE DEF a, b, r
  <2>2. Len(r) = Len(s) - 1
    BY <1>1, <1>2, <1>3, <2>1
  <2>3. ASSUME NEW k \in 1..Len(s) - 1, k < i PROVE r[k] = s[k]
    <3>1. k \in 1..i - 1 /\ k \in 1..Len(a) + Len(b) /\ k <= Len(a)
      BY <1>1, <1>2, <1>3, <2>3
    <3> QED BY <1>2, <2>1, <3>1
  <2>4. ASSUME NEW k \in 1..Len(s) - 1, ~(k < i) PROVE r[k] = s[k + 1]
    <3>1. r[k] = b[k - Len(a)] /\ k - Len(a) \in 1..Len(s) - i /\ i + (k - Len(a)) = k + 1
      BY <1>1, <1>2, <1>3, <2>1, <2>4
    <3> QED BY <1>3, <3>1
  <2> QED BY <2>1, <2>2, <2>3, <2>4
<1>5. DOMAIN r = 1..Len(s) - 1
  BY <1>4, LenProperties
<1> HIDE DEF a, b, r
<1>6. IsInjective(r)
  <2> SUFFICES ASSUME NEW k \in 1..Len(s) - 1, NEW m \in 1..Len(s) - 1, r[k] = r[m] PROVE k = m
    BY <1>5 DEF IsInjective
  <2>1. \A p, q \in 1..Len(s) : s[p] = s[q] => p = q
    BY <1>1 DEF IsInjective
  <2> QED BY <1>1, <1>4, <2>1
<1>7. \A k \in 1..Len(s) - 1 : r[k] # s[i]
  BY <1>1, <1>4 DEF IsInjective
<1> QED BY <1>4, <1>6, <1>7 DEF RemoveAt, r, a, b

\* Without repetitions, std::find() finds the one place.
LEMMA RemoveFirstInjective ==
  ASSUME NEW S, NEW s \in Seq(S), IsInjective(s), NEW t
  PROVE  /\ RemoveFirst(s, t) \in Seq(S) /\ IsInjective(RemoveFirst(s, t))
         /\ \A k \in 1..Len(RemoveFirst(s, t)) : RemoveFirst(s, t)[k] # t
<1>1. CASE \E i \in 1..Len(s) : s[i] = t
  <2>1. PICK i \in 1..Len(s) : s[i] = t
    BY <1>1
  <2> DEFINE I == {k \in 1..Len(s) : s[k] = t}
  <2>2. I = {i}
    BY <2>1, LenProperties DEF IsInjective
  <2>3. Min(I) = i
    BY <2>2 DEF Min
  <2>4. RemoveFirst(s, t) = RemoveAt(s, i)
    BY <1>1, <2>2, <2>3 DEF RemoveFirst, SelectInSeq
  <2> QED BY <2>1, <2>4, RemoveAtInjective
<1>2. CASE ~ \E i \in 1..Len(s) : s[i] = t
  BY <1>2 DEF RemoveFirst
<1> QED BY <1>1, <1>2

\* updateTransport() lists a transport once.
LEMMA ListedInjective ==
  ASSUME NEW s \in Seq(Transport), IsInjective(s), NEW t \in Transport, NEW verified \in BOOLEAN
  PROVE  Listed(s, t, verified) \in Seq(Transport) /\ IsInjective(Listed(s, t, verified))
<1> DEFINE others == RemoveFirst(s, t)
<1>1. others \in Seq(Transport) /\ IsInjective(others) /\ \A k \in 1..Len(others) : others[k] # t
  BY RemoveFirstInjective
<1>2. Listed(s, t, verified) = IF verified THEN <<t>> \o others ELSE Append(others, t)
  BY DEF Listed
<1> HIDE DEF others
<1>3. Append(others, t) \in Seq(Transport) /\ IsInjective(Append(others, t))
  BY <1>1 DEF IsInjective
<1>4. <<t>> \o others \in Seq(Transport) /\ IsInjective(<<t>> \o others)
  BY <1>1 DEF IsInjective
<1> QED BY <1>2, <1>3, <1>4

-----------------------------------------------------------------------------
(***************************************************************************)
(* One connection.                                                         *)
(***************************************************************************)

\* While a transport is searched for, and until the one that was found is used, no
\* handshake has been sent; otherwise at most one has.
Good(o) ==
  /\ o \in Connection /\ o.inits <= 1
  /\ o.state \in {"SEARCHING_TRANSPORT", "FOUND_TRANSPORT"} => o.inits = 0

\* A new connection.
LEMMA NewGood == Good(New)
<1>1. <<>> \in Seq(Transport) /\ IsInjective(<<>>)
  BY DEF IsInjective
<1> QED BY <1>1, OverlayAssumption DEF Good, New, Connection, State

\* Without a transport the connection searches for one.
LEMMA SearchingGood ==
  ASSUME NEW o, Good(o), NEW n, ~SomeAlive(o)
  PROVE  Good(Sent(o, n)) /\ Sent(o, n).left = o.left
<1> DEFINE q == [state |-> "SEARCHING_TRANSPORT", transports |-> o.transports, inits |-> 0, left |-> o.left]
<1>1. o \in Connection
  BY DEF Good
<1>2. Sent(o, n) = q
  BY <1>1 DEF Sent, Connection
<1>3. q \in Connection
  BY <1>1 DEF Connection, State
<1> QED BY <1>2, <1>3 DEF Good

\* connect() of a connection that is not established sets the timer.
LEMMA ConnectGood ==
  ASSUME NEW o, Good(o)
  PROVE  Good(HandshakeSent(ExpiresAt(o))) /\ HandshakeSent(ExpiresAt(o)).left = Timeout
<1> DEFINE p == ExpiresAt(o)
<1>1. Good(p) /\ p.left = Timeout /\ p.state = o.state
  BY OverlayAssumption DEF Good, ExpiresAt, Connection
<1> HIDE DEF p
<1>2. CASE p.state = "FOUND_TRANSPORT"
  <2>1. Sent(p, 1) \in Connection /\ Sent(p, 1).inits <= 1 /\ Sent(p, 1).left = Timeout
    <3>1. CASE SomeAlive(p)
      BY <1>1, <1>2, <3>1 DEF Good, Sent, Connection
    <3>2. CASE ~SomeAlive(p)
      BY <1>1, <3>2, SearchingGood DEF Good
    <3> QED BY <3>1, <3>2
  <2> QED BY <1>2, <2>1 DEF HandshakeSent, Good, Connection, State, p
<1>3. CASE p.state # "FOUND_TRANSPORT"
  BY <1>1, <1>3 DEF HandshakeSent, p
<1> QED BY <1>2, <1>3

\* send() of a payload.
LEMMA SentGood ==
  ASSUME NEW o, Good(o)
  PROVE  Good(Sent(o, 0)) /\ Sent(o, 0).left = o.left
<1>1. CASE SomeAlive(o)
  BY <1>1 DEF Good, Sent, Connection
<1>2. CASE ~SomeAlive(o)
  BY <1>2, SearchingGood
<1> QED BY <1>1, <1>2

\* A transport becomes known.
LEMMA KnownGood ==
  ASSUME NEW o, Good(o), NEW t \in Transport, NEW verified \in BOOLEAN
  PROVE  Good(Known(o, t, verified)) /\ Known(o, t, verified).left = o.left
<1> DEFINE l == Listed(o.transports, t, verified)
<1>1. l \in Seq(Transport) /\ IsInjective(l)
  BY ListedInjective DEF Good, Connection
<1>2. Known(o, t, verified) = [o EXCEPT !.transports = l,
        !.state = IF @ = "SEARCHING_TRANSPORT" THEN "FOUND_TRANSPORT" ELSE @]
  BY DEF Known
<1> HIDE DEF l
<1> QED BY <1>1, <1>2 DEF Good, Connection, State

\* disconnect().
LEMMA ClosedGood ==
  ASSUME NEW o, Good(o)
  PROVE  Good([o EXCEPT !.state = "CLOSED"]) /\ [o EXCEPT !.state = "CLOSED"].left = o.left
BY DEF Good, Connection, State

-----------------------------------------------------------------------------
(***************************************************************************)
(* The inductive invariant.                                                *)
(***************************************************************************)

\* Whoever refers to a connection keeps it alive.
ReferencesLive ==
  /\ \A c \in held : Lives(c)
  /\ \A th \in TH : connections[th] # Null => Lives(connections[th])
  /\ WaitsOnLiveConnection

\* The callback of a wait has not been called.  While the wait is pending, the timer is
\* the one its own call has set; once it has expired, the time-out has passed.
TimersFit ==
  \A f \in Call : Waiting(f) =>
    /\ told[f] = "nothing"
    /\ wait[f].status = "pending" => age[f] + object[wait[f].conn].left = Timeout
    /\ wait[f].status = "expired" => age[f] = Timeout

OverlayInv ==
  /\ OverlayTypeOK /\ ReferencesLive /\ TimersFit /\ NeverToldEarly
  /\ \A c \in Conn : Lives(c) => Good(object[c])

\* The initial states.
LEMMA InitInv == OverlayInit => OverlayInv
BY OverlayAssumption
   DEF OverlayInit, OverlayInv, OverlayTypeOK, ReferencesLive, WaitsOnLiveConnection, TimersFit, NeverToldEarly,
       Lives, Waiting

\* A connection changes while its timer goes on.
LEMMA UpdateInv ==
  ASSUME OverlayInv, NEW c \in Conn, Lives(c), NEW o, Good(o), o.left = object[c].left,
         object' = [object EXCEPT ![c] = o], UNCHANGED <<held, callVars, socketVars, alive>>
  PROVE  OverlayInv'
<1>1. o # Null /\ o \in Connection
  BY OverlayNullAssumption DEF Good
<1>2. OverlayTypeOK'
  BY <1>1 DEF OverlayInv, OverlayTypeOK, callVars, socketVars
<1>3. ReferencesLive'
  BY <1>1 DEF OverlayInv, OverlayTypeOK, ReferencesLive, WaitsOnLiveConnection, Lives, Waiting, callVars, socketVars
<1>4. TimersFit'
  BY <1>1 DEF OverlayInv, OverlayTypeOK, TimersFit, Waiting, callVars, Wait
<1>5. NeverToldEarly'
  BY DEF OverlayInv, NeverToldEarly, callVars
<1>6. \A d \in Conn : Lives(d)' => Good(object[d])'
  BY <1>1 DEF OverlayInv, OverlayTypeOK, Lives, Good
<1> QED BY <1>2, <1>3, <1>4, <1>5, <1>6 DEF OverlayInv

\* connect(), of a connection or of the socket.
LEMMA ConnectInv ==
  ASSUME OverlayInv, NEW c \in Conn, NEW o, NEW f \in Call, Connect(c, o, f),
         (Lives(c) /\ o = object[c]) \/ (~Lives(c) /\ o = New),
         UNCHANGED <<held, socketVars, alive>>
  PROVE  OverlayInv'
<1>1. Good(o)
  BY NewGood DEF OverlayInv
<1>2. CASE o.state = "ESTABLISHED"
  <2>1. Lives(c) /\ o = object[c]
    BY <1>2 DEF New
  <2>2. object' = object /\ wait' = wait /\ ~Waiting(f)
    BY <1>2, <2>1 DEF Connect, OverlayInv, OverlayTypeOK
  <2>3. told' = [told EXCEPT ![f] = "connected"] /\ age' = [age EXCEPT ![f] = 0]
    BY <1>2 DEF Connect
  <2>4. OverlayTypeOK'
    BY <2>2, <2>3, OverlayAssumption DEF OverlayInv, OverlayTypeOK, socketVars
  <2>5. ReferencesLive'
    BY <2>2 DEF OverlayInv, ReferencesLive, WaitsOnLiveConnection, Lives, Waiting, socketVars
  <2>6. TimersFit' /\ NeverToldEarly'
    BY <2>2, <2>3 DEF OverlayInv, OverlayTypeOK, TimersFit, NeverToldEarly, Waiting
  <2>7. \A d \in Conn : Lives(d)' => Good(object[d])'
    BY <2>2 DEF OverlayInv, Lives, Good
  <2> QED BY <2>4, <2>5, <2>6, <2>7 DEF OverlayInv
<1>3. CASE o.state # "ESTABLISHED"
  <2> DEFINE p == HandshakeSent(ExpiresAt(o))
             w == [conn |-> c, status |-> "pending"]
  <2>1. Good(p) /\ p.left = Timeout /\ p # Null /\ p \in Connection
    BY <1>1, ConnectGood, OverlayNullAssumption DEF Good
  <2>2. w \in Wait /\ w # Null
    BY OverlayNullAssumption DEF Wait
  <2>3. /\ ~Waiting(f) /\ object' = [object EXCEPT ![c] = p] /\ wait' = [Aborted(c) EXCEPT ![f] = w]
        /\ told' = [told EXCEPT ![f] = "nothing"] /\ age' = [age EXCEPT ![f] = 0]
    BY <1>3 DEF Connect
  <2> HIDE DEF p
  <2>4. ASSUME NEW g \in Call, g # f
        PROVE  /\ wait[g] = Null => wait'[g] = Null
               /\ Waiting(g) => wait'[g] \in Wait /\ wait'[g] # Null /\ wait'[g].conn = wait[g].conn
               /\ Waiting(g) /\ wait'[g].status = "pending" => wait'[g] = wait[g] /\ wait[g].conn # c
               /\ Waiting(g) /\ wait'[g].status = "expired" => wait[g].status = "expired"
    BY <2>3, <2>4, OverlayNullAssumption DEF Aborted, Waiting, OverlayInv, OverlayTypeOK, Wait
  <2>5. wait'[f] = w /\ wait' \in [Call -> Wait \cup {Null}]
    BY <2>2, <2>3, <2>4 DEF Aborted, Waiting
  <2>6. OverlayTypeOK'
    BY <2>1, <2>3, <2>5, OverlayAssumption DEF OverlayInv, OverlayTypeOK, socketVars
  <2>7. ReferencesLive'
    <3>1. \A d \in Conn : Lives(d) \/ d = c => Lives(d)'
      BY <2>1, <2>3 DEF Lives, OverlayInv, OverlayTypeOK
    <3>2. WaitsOnLiveConnection'
      BY <2>2, <2>4, <2>5, <3>1 DEF OverlayInv, OverlayTypeOK, ReferencesLive, WaitsOnLiveConnection, Waiting, Wait
    <3> QED BY <3>1, <3>2 DEF OverlayInv, OverlayTypeOK, ReferencesLive, socketVars
  <2>8. TimersFit'
    <3>1. ASSUME NEW g \in Call, g # f, Waiting(g)'
          PROVE  /\ told'[g] = "nothing"
                 /\ wait'[g].status = "pending" => age'[g] + object'[wait'[g].conn].left = Timeout
                 /\ wait'[g].status = "expired" => age'[g] = Timeout
      BY <2>3, <2>4, <3>1 DEF OverlayInv, OverlayTypeOK, TimersFit, Waiting, Wait
    <3>2. told'[f] = "nothing" /\ age'[f] + object'[wait'[f].conn].left = Timeout /\ wait'[f].status = "pending"
      BY <2>1, <2>3, <2>5, OverlayAssumption DEF OverlayInv, OverlayTypeOK
    <3> QED BY <3>1, <3>2 DEF TimersFit
  <2>9. NeverToldEarly'
    BY <2>3 DEF OverlayInv, OverlayTypeOK, NeverToldEarly
  <2>10. \A d \in Conn : Lives(d)' => Good(object[d])'
    BY <2>1, <2>3 DEF OverlayInv, OverlayTypeOK, Lives, Good
  <2> QED BY <2>6, <2>7, <2>8, <2>9, <2>10 DEF OverlayInv
<1> QED BY <1>2, <1>3

\* A reference to a connection goes, and the connection with it if it was the last.
LEMMA DropInv ==
  ASSUME OverlayInv, NEW c \in Conn, Lives(c), held' \subseteq held \cup {c},
         wait' \in [Call -> Wait \cup {Null}],
         \A f \in Call : wait'[f] # wait[f] => wait'[f] = Null,
         object' = IF Referenced(c, wait', held') THEN object ELSE [object EXCEPT ![c] = Null],
         UNCHANGED <<socketVars, age, alive>>
  PROVE  /\ ReferencesLive'
         /\ object' \in [Conn -> Connection \cup {Null}] /\ held' \subseteq Conn
         /\ \A f \in Call : Waiting(f)' => wait'[f] = wait[f] /\ object'[wait[f].conn] = object[wait[f].conn]
         /\ \A d \in Conn : Lives(d)' => Good(object[d])'
<1>1. object' \in [Conn -> Connection \cup {Null}] /\ held' \subseteq Conn
  BY DEF OverlayInv, OverlayTypeOK
<1>2. \A d \in Conn : Lives(d) /\ d # c => object'[d] = object[d]
  BY DEF OverlayInv, OverlayTypeOK
<1>3. Referenced(c, wait', held') => object'[c] = object[c]
  OBVIOUS
<1>4. \A d \in held' : Lives(d)'
  <2> SUFFICES ASSUME NEW d \in held' PROVE Lives(d)'
    OBVIOUS
  <2>1. d \in Conn /\ Lives(d)
    BY <1>1 DEF OverlayInv, ReferencesLive
  <2>2. d = c => Referenced(c, wait', held')
    BY DEF Referenced
  <2> QED BY <1>2, <1>3, <2>1, <2>2 DEF Lives
<1>5. \A th \in TH : connections'[th] # Null => Lives(connections[th])'
  <2> SUFFICES ASSUME NEW th \in TH, connections[th] # Null PROVE object'[connections[th]] # Null
    BY DEF socketVars, Lives
  <2>1. connections[th] \in Conn /\ Lives(connections[th])
    BY DEF OverlayInv, OverlayTypeOK, ReferencesLive
  <2>2. connections[th] = c => Referenced(c, wait', held')
    BY DEF Referenced
  <2> QED BY <1>2, <1>3, <2>1, <2>2 DEF Lives
<1>6. ASSUME NEW f \in Call, Waiting(f)'
      PROVE  wait'[f] = wait[f] /\ Lives(wait[f].conn) /\ object'[wait[f].conn] = object[wait[f].conn]
  <2>1. wait'[f] = wait[f] /\ wait[f] \in Wait /\ Lives(wait[f].conn)
    BY <1>6 DEF OverlayInv, OverlayTypeOK, ReferencesLive, WaitsOnLiveConnection, Waiting
  <2>2. wait[f].conn \in Conn
    BY <2>1 DEF Wait
  <2>3. wait[f].conn = c => Referenced(c, wait', held')
    BY <1>6, <2>1 DEF Referenced, Waiting
  <2> QED BY <1>2, <1>3, <2>1, <2>2, <2>3
<1>7. WaitsOnLiveConnection'
  BY <1>6 DEF WaitsOnLiveConnection, Lives
<1>8. ASSUME NEW d \in Conn, Lives(d)' PROVE Good(object[d])'
  <2>1. object'[d] = object[d] /\ Lives(d)
    BY <1>8 DEF OverlayInv, OverlayTypeOK, Lives
  <2> QED BY <2>1 DEF OverlayInv, Good
<1> QED BY <1>1, <1>4, <1>5, <1>6, <1>7, <1>8 DEF ReferencesLive

\* The handler of the timer.
LEMMA ConnectTimeoutInv ==
  ASSUME OverlayInv, NEW f \in Call, connectTimeout(f)
  PROVE  OverlayInv'
<1> DEFINE c == wait[f].conn
<1>1. wait[f] \in Wait /\ c \in Conn /\ Lives(c)
  BY DEF connectTimeout, OverlayInv, OverlayTypeOK, ReferencesLive, WaitsOnLiveConnection, Waiting, Wait
<1>2. wait' = [wait EXCEPT ![f] = Null] /\ told' = [told EXCEPT ![f] = Verdict(wait[f].status)]
  BY DEF connectTimeout
<1>3. wait' \in [Call -> Wait \cup {Null}] /\ \A g \in Call : wait'[g] # wait[g] => wait'[g] = Null
  BY <1>2 DEF OverlayInv, OverlayTypeOK
<1>4. held' \subseteq held \cup {c}
  BY DEF connectTimeout
<1>5. /\ ReferencesLive'
      /\ object' \in [Conn -> Connection \cup {Null}] /\ held' \subseteq Conn
      /\ \A g \in Call : Waiting(g)' => wait'[g] = wait[g] /\ object'[wait[g].conn] = object[wait[g].conn]
      /\ \A d \in Conn : Lives(d)' => Good(object[d])'
  BY <1>1, <1>3, <1>4, DropInv DEF connectTimeout
<1>6. OverlayTypeOK'
  BY <1>2, <1>3, <1>5 DEF connectTimeout, OverlayInv, OverlayTypeOK, Verdict, socketVars
<1>7. TimersFit'
  <2> SUFFICES ASSUME NEW g \in Call, Waiting(g)'
               PROVE  /\ told'[g] = "nothing"
                      /\ wait'[g].status = "pending" => age'[g] + object'[wait'[g].conn].left = Timeout
                      /\ wait'[g].status = "expired" => age'[g] = Timeout
    BY DEF TimersFit
  <2>1. wait'[g] = wait[g] /\ object'[wait[g].conn] = object[wait[g].conn] /\ Waiting(g) /\ age' = age
    BY <1>5 DEF connectTimeout, Waiting
  <2>2. g # f
    BY <1>2 DEF OverlayInv, OverlayTypeOK, Waiting
  <2>3. told'[g] = told[g]
    BY <1>2, <2>2 DEF OverlayInv, OverlayTypeOK
  <2> QED BY <2>1, <2>3 DEF OverlayInv, TimersFit
<1>8. NeverToldEarly'
  BY <1>1, <1>2 DEF connectTimeout, OverlayInv, OverlayTypeOK, NeverToldEarly, TimersFit, Verdict, Waiting
<1> QED BY <1>5, <1>6, <1>7, <1>8 DEF OverlayInv

\* A user drops a connection.
LEMMA ReleaseInv ==
  ASSUME OverlayInv, NEW c \in Conn, release(c)
  PROVE  OverlayInv'
<1>1. Lives(c) /\ held' \subseteq held \cup {c} /\ UNCHANGED <<wait, told, age, socketVars, alive>>
  BY DEF release, OverlayInv, ReferencesLive, callVars
<1>2. wait' \in [Call -> Wait \cup {Null}] /\ \A g \in Call : wait'[g] # wait[g] => wait'[g] = Null
  BY <1>1 DEF OverlayInv, OverlayTypeOK
<1>3. object' = IF Referenced(c, wait', held') THEN object ELSE [object EXCEPT ![c] = Null]
  BY <1>1 DEF release
<1>4. /\ ReferencesLive'
      /\ object' \in [Conn -> Connection \cup {Null}] /\ held' \subseteq Conn
      /\ \A g \in Call : Waiting(g)' => wait'[g] = wait[g] /\ object'[wait[g].conn] = object[wait[g].conn]
      /\ \A d \in Conn : Lives(d)' => Good(object[d])'
  BY <1>1, <1>2, <1>3, DropInv
<1>5. OverlayTypeOK'
  BY <1>1, <1>2, <1>4 DEF OverlayInv, OverlayTypeOK, socketVars
<1>6. TimersFit' /\ NeverToldEarly'
  BY <1>1, <1>4 DEF OverlayInv, TimersFit, NeverToldEarly, Waiting
<1> QED BY <1>4, <1>5, <1>6 DEF OverlayInv

\* Time passes.
LEMMA TickInv == ASSUME OverlayInv, Tick PROVE OverlayInv'
<1>1. UNCHANGED <<held, wait, told, socketVars, alive>>
  BY DEF Tick
<1>2. ASSUME NEW c \in Conn, Lives(c)
      PROVE  /\ object'[c] \in Connection /\ object'[c] # Null /\ Good(object'[c])
             /\ object'[c].left = IF object[c].left > 0 THEN object[c].left - 1 ELSE 0
  <2>1. object[c] \in Connection /\ Good(object[c])
    BY <1>2 DEF OverlayInv, Good
  <2>2. object'[c] = IF object[c].left > 0 THEN [object[c] EXCEPT !.left = @ - 1] ELSE object[c]
    BY <1>2 DEF Tick
  <2>3. CASE object[c].left > 0
    <3>1. object'[c] \in Connection /\ Good(object'[c]) /\ object'[c].left = object[c].left - 1
      BY <2>1, <2>2, <2>3, OverlayAssumption DEF Connection, Good
    <3> QED BY <2>3, <3>1, OverlayNullAssumption
  <2>4. CASE ~(object[c].left > 0)
    <3>1. object[c].left = 0
      BY <2>1, <2>4, OverlayAssumption DEF Connection
    <3> QED BY <2>1, <2>2, <2>4, <3>1, OverlayNullAssumption
  <2> QED BY <2>3, <2>4
<1>3. \A c \in Conn : ~Lives(c) => object'[c] = Null
  BY DEF Tick, Lives
<1>4. OverlayTypeOK'
  <2>1. object' \in [Conn -> Connection \cup {Null}]
    BY <1>2, <1>3 DEF Tick
  <2>2. age' \in [Call -> 0..Timeout]
    BY OverlayAssumption DEF Tick, OverlayInv, OverlayTypeOK
  <2> QED BY <1>1, <2>1, <2>2 DEF OverlayInv, OverlayTypeOK, socketVars
<1>5. ReferencesLive'
  <2>1. \A c \in Conn : Lives(c) => Lives(c)'
    BY <1>2 DEF Lives
  <2> QED BY <1>1, <2>1 DEF OverlayInv, OverlayTypeOK, ReferencesLive, WaitsOnLiveConnection, Waiting, Wait, socketVars
<1>6. TimersFit'
  <2> SUFFICES ASSUME NEW f \in Call, Waiting(f)
               PROVE  /\ told[f] = "nothing"
                      /\ wait[f].status = "pending" => age'[f] + object'[wait[f].conn].left = Timeout
                      /\ wait[f].status = "expired" => age'[f] = Timeout
    BY <1>1 DEF TimersFit, Waiting
  <2> DEFINE c == wait[f].conn
  <2>1. wait[f] \in Wait /\ c \in Conn /\ Lives(c)
    BY DEF OverlayInv, OverlayTypeOK, ReferencesLive, WaitsOnLiveConnection, Waiting, Wait
  <2>2. object[c].left \in 0..Timeout
    BY <2>1 DEF OverlayInv, Good, Connection
  <2>3. object'[c].left = IF object[c].left > 0 THEN object[c].left - 1 ELSE 0
    BY <1>2, <2>1
  <2>4. age[f] \in 0..Timeout /\ age'[f] = IF age[f] < Timeout THEN age[f] + 1 ELSE age[f]
    BY DEF Tick, OverlayInv, OverlayTypeOK
  <2>5. /\ told[f] = "nothing"
        /\ wait[f].status = "pending" => age[f] + object[c].left = Timeout
        /\ wait[f].status = "expired" => age[f] = Timeout
    BY DEF OverlayInv, TimersFit
  <2> HIDE DEF c
  <2> QED BY <2>2, <2>3, <2>4, <2>5, OverlayAssumption DEF c
<1>7. NeverToldEarly'
  BY <1>1, OverlayAssumption DEF Tick, OverlayInv, OverlayTypeOK, NeverToldEarly
<1>8. \A d \in Conn : Lives(d)' => Good(object[d])'
  BY <1>2, <1>3 DEF Lives, Good
<1> QED BY <1>4, <1>5, <1>6, <1>7, <1>8 DEF OverlayInv

\* A wait is over.
LEMMA ExpireInv == ASSUME OverlayInv, NEW f \in Call, expire(f) PROVE OverlayInv'
<1> DEFINE w == [wait[f] EXCEPT !.status = "expired"]
<1>1. UNCHANGED <<object, held, told, age, socketVars, alive>> /\ wait' = [wait EXCEPT ![f] = w]
  BY DEF expire, objectVars
<1>2. wait[f] \in Wait /\ wait[f] # Null /\ wait[f].conn \in Conn
  BY DEF expire, Waiting, OverlayInv, OverlayTypeOK, Wait
<1>3. w \in Wait /\ w # Null /\ w.conn = wait[f].conn /\ w.status = "expired"
  BY <1>2, OverlayNullAssumption DEF Wait
<1>4. age[f] = Timeout /\ told[f] = "nothing"
  <2>1. wait[f].status = "pending" /\ object[wait[f].conn].left = 0
    BY DEF expire
  <2>2. age[f] \in 0..Timeout
    BY DEF OverlayInv, OverlayTypeOK
  <2> QED BY <1>2, <2>1, <2>2, OverlayAssumption DEF OverlayInv, TimersFit, Waiting
<1> HIDE DEF w
<1>5. wait'[f] = w /\ \A g \in Call : g # f => wait'[g] = wait[g]
  BY <1>1 DEF OverlayInv, OverlayTypeOK
<1>6. OverlayTypeOK'
  BY <1>1, <1>3 DEF OverlayInv, OverlayTypeOK, socketVars
<1>7. ReferencesLive'
  BY <1>1, <1>2, <1>3, <1>5 DEF OverlayInv, ReferencesLive, WaitsOnLiveConnection, Lives, Waiting, socketVars
<1>8. TimersFit'
  BY <1>1, <1>3, <1>4, <1>5 DEF OverlayInv, TimersFit, Waiting
<1>9. NeverToldEarly' /\ \A d \in Conn : Lives(d)' => Good(object[d])'
  BY <1>1 DEF OverlayInv, NeverToldEarly, Lives, Good
<1> QED BY <1>6, <1>7, <1>8, <1>9 DEF OverlayInv

\* The connections, the timers and who refers to them stay as they are.
LEMMA StutterInv ==
  ASSUME OverlayInv, UNCHANGED <<object, held, wait, told, age, connections, outcome>>,
         alive' \subseteq Transport, own_th' \in TH
  PROVE  OverlayInv'
BY DEF OverlayInv, OverlayTypeOK, ReferencesLive, WaitsOnLiveConnection, TimersFit, NeverToldEarly, Lives, Waiting, Good

\* A message comes in.
LEMMA ReceiveInv ==
  ASSUME OverlayInv, NEW src \in TH, NEW dest \in TH \cup {Null}, NEW origin \in Transport,
         receive(src, dest, origin)
  PROVE  OverlayInv'
<1>1. UNCHANGED <<held, callVars, own_th, alive>>
  BY DEF receive
<1>2. CASE connections[src] = Null
  <2>1. PICK c \in Conn : /\ ~Lives(c) /\ object' = [object EXCEPT ![c] = New]
                          /\ connections' = [connections EXCEPT ![src] = c] /\ outcome' = "undefined"
    BY <1>2 DEF receive
  <2>2. Good(New) /\ New \in Connection /\ New # Null
    BY NewGood, OverlayNullAssumption DEF Good
  <2>3. \A d \in Conn : Lives(d) => object'[d] = object[d] /\ d # c
    BY <2>1 DEF Lives, OverlayInv, OverlayTypeOK
  <2>4. object'[c] = New /\ Lives(c)'
    BY <2>1, <2>2 DEF Lives, OverlayInv, OverlayTypeOK
  <2>5. OverlayTypeOK'
    BY <1>1, <2>1, <2>2 DEF OverlayInv, OverlayTypeOK, callVars
  <2>6. ASSUME NEW f \in Call, Waiting(f)
        PROVE  wait[f].conn \in Conn /\ Lives(wait[f].conn)
    BY <2>6 DEF OverlayInv, OverlayTypeOK, ReferencesLive, WaitsOnLiveConnection, Waiting, Wait
  <2>7. ReferencesLive'
    <3>1. \A d \in held' : Lives(d)'
      BY <1>1, <2>3 DEF OverlayInv, OverlayTypeOK, ReferencesLive, Lives
    <3>2. \A th \in TH : connections'[th] # Null => Lives(connections[th])'
      BY <2>1, <2>3, <2>4 DEF OverlayInv, OverlayTypeOK, ReferencesLive, Lives
    <3>3. WaitsOnLiveConnection'
      BY <1>1, <2>3, <2>6 DEF WaitsOnLiveConnection, Lives, Waiting, callVars
    <3> QED BY <3>1, <3>2, <3>3 DEF ReferencesLive
  <2>8. TimersFit' /\ NeverToldEarly'
    BY <1>1, <2>3, <2>6 DEF OverlayInv, TimersFit, NeverToldEarly, Waiting, callVars
  <2>9. \A d \in Conn : Lives(d)' => Good(object[d])'
    BY <2>1, <2>2 DEF OverlayInv, OverlayTypeOK, Lives, Good
  <2> QED BY <2>5, <2>7, <2>8, <2>9 DEF OverlayInv
<1>3. CASE connections[src] # Null
  <2> DEFINE c == connections[src]
  <2>1. c \in Conn /\ Lives(c) /\ Good(object[c])
    BY <1>3 DEF OverlayInv, OverlayTypeOK, ReferencesLive
  <2>2. object' = [object EXCEPT ![c] = Known(object[c], origin, FALSE)] /\ UNCHANGED <<held, callVars, socketVars, alive>>
    BY <1>1, <1>3, <2>1 DEF receive, Processed, socketVars, OverlayInv, OverlayTypeOK
  <2>3. Good(Known(object[c], origin, FALSE)) /\ Known(object[c], origin, FALSE).left = object[c].left
    BY <2>1, KnownGood
  <2> QED BY <2>1, <2>2, <2>3, UpdateInv
<1> QED BY <1>2, <1>3

\* What users do with a connection they have.
LEMMA UserInv == ASSUME OverlayInv, NEW c \in Conn, User(c) PROVE OverlayInv'
<1>1. CASE release(c)
  BY <1>1, ReleaseInv
<1>2. ASSUME c \in held PROVE Lives(c) /\ Good(object[c])
  BY <1>2 DEF OverlayInv, ReferencesLive
<1>3. CASE disconnect(c)
  BY <1>2, <1>3, ClosedGood, UpdateInv DEF disconnect, Update
<1>4. ASSUME NEW f \in Call, connect(c, f) PROVE OverlayInv'
  BY <1>2, <1>4, ConnectInv DEF connect
<1>5. ASSUME NEW encrypted \in BOOLEAN, NEW force \in BOOLEAN, send(c, encrypted, force) PROVE OverlayInv'
  <2>1. PICK o \in {Sent(object[c], 0), object[c]} : Update(c, o) /\ c \in held
    BY <1>5 DEF send
  <2>2. Good(o) /\ o.left = object[c].left
    BY <1>2, <2>1, SentGood
  <2> QED BY <1>2, <2>1, <2>2, UpdateInv DEF Update
<1>6. ASSUME NEW t \in Transport, NEW verified \in BOOLEAN, updateTransport(c, t, verified) PROVE OverlayInv'
  BY <1>2, <1>6, KnownGood, UpdateInv DEF updateTransport, Update
<1> QED BY <1>1, <1>3, <1>4, <1>5, <1>6 DEF User

\* Every step.
LEMMA NextInv == OverlayInv /\ [OverlayNext]_overlayVars => OverlayInv'
<1> SUFFICES ASSUME OverlayInv, [OverlayNext]_overlayVars PROVE OverlayInv'
  OBVIOUS
<1>1. CASE Tick
  BY <1>1, TickInv
<1>2. ASSUME NEW f \in Call, Handler(f) PROVE OverlayInv'
  BY <1>2, ExpireInv, ConnectTimeoutInv DEF Handler
<1>3. ASSUME NEW f \in Call, NEW th \in TH, socketConnect(th, f) PROVE OverlayInv'
  <2>1. UNCHANGED <<held, socketVars, alive>>
    BY <1>3 DEF socketConnect
  <2>2. CASE connections[th] # Null
    <3>1. connections[th] \in Conn /\ Lives(connections[th]) /\ Connect(connections[th], object[connections[th]], f)
      BY <1>3, <2>2 DEF socketConnect, OverlayInv, OverlayTypeOK, ReferencesLive
    <3> QED BY <2>1, <3>1, ConnectInv
  <2>3. CASE connections[th] = Null
    BY <1>3, <2>1, <2>3, ConnectInv DEF socketConnect
  <2> QED BY <2>2, <2>3
<1>4. ASSUME NEW c \in Conn, User(c) PROVE OverlayInv'
  BY <1>4, UserInv
<1>5. ASSUME NEW t \in Transport, transportChanges(t) PROVE OverlayInv'
  BY <1>5, StutterInv DEF transportChanges, objectVars, callVars, socketVars, OverlayInv, OverlayTypeOK
<1>6. ASSUME NEW src \in TH, NEW dest \in TH \cup {Null}, NEW t \in Transport, receive(src, dest, t) PROVE OverlayInv'
  BY <1>6, ReceiveInv
<1>7. ASSUME NEW th \in TH, rotate(th) PROVE OverlayInv'
  BY <1>7, StutterInv DEF rotate, objectVars, callVars, OverlayInv, OverlayTypeOK
<1>8. CASE UNCHANGED overlayVars
  BY <1>8, StutterInv DEF overlayVars, objectVars, callVars, socketVars, OverlayInv, OverlayTypeOK
<1> QED BY <1>1, <1>2, <1>3, <1>4, <1>5, <1>6, <1>7, <1>8 DEF OverlayNext

-----------------------------------------------------------------------------
(***************************************************************************)
(* The theorems.                                                           *)
(***************************************************************************)

\* The invariant holds throughout.
LEMMA InvCorrect == OverlaySpec => []OverlayInv
<1>1. OverlayInit => OverlayInv
  BY InitInv
<1>2. OverlayInv /\ [OverlayNext]_overlayVars => OverlayInv'
  BY NextInv
<1> QED BY <1>1, <1>2, PTL DEF OverlaySpec

\* Types; among them, that a transport is listed once, which is what makes
\* updateTransport() erase all of it.
THEOREM OverlayTypeCorrect == OverlaySpec => []OverlayTypeOK
<1>1. OverlayInv => OverlayTypeOK
  BY DEF OverlayInv
<1> QED BY <1>1, InvCorrect, PTL

\* connectTimeout() never tells a caller too early that the time is over.
THEOREM NeverToldEarlyCorrect == OverlaySpec => []NeverToldEarly
<1>1. OverlayInv => NeverToldEarly
  BY DEF OverlayInv
<1> QED BY <1>1, InvCorrect, PTL

\* connectTimeout() never runs on a connection that is gone.
THEOREM WaitsOnLiveCorrect == OverlaySpec => []WaitsOnLiveConnection
<1>1. OverlayInv => WaitsOnLiveConnection
  BY DEF OverlayInv, ReferencesLive
<1> QED BY <1>1, InvCorrect, PTL

\* connect() sends at most one handshake between two searches for a transport, since it
\* looks at the state and changes it (Connection.cpp:149, 163).
THEOREM OneHandshakeCorrect == OverlaySpec => []OneHandshakePerSearch
<1>1. OverlayInv => OneHandshakePerSearch
  BY DEF OverlayInv, OneHandshakePerSearch, Good
<1> QED BY <1>1, InvCorrect, PTL

\* A call of connect() drops only waits that were pending on its own connection.
LEMMA ConnectDrops ==
  ASSUME OverlayInv, NEW c \in Conn, NEW o, NEW g \in Call, Connect(c, o, g),
         NEW f \in Call, Waiting(f), wait'[f] # wait[f]
  PROVE  \E h \in Call \ {f} : wait'[h] = [conn |-> wait[f].conn, status |-> "pending"] /\ wait[h] = Null
<1>1. wait' = [Aborted(c) EXCEPT ![g] = [conn |-> c, status |-> "pending"]] /\ wait[g] = Null /\ g # f
  BY DEF Connect, Waiting
<1>2. wait'[g] = [conn |-> c, status |-> "pending"] /\ wait'[f] = Aborted(c)[f]
  BY <1>1 DEF Aborted
<1>3. wait[f].conn = c
  BY <1>2 DEF Aborted
<1> QED BY <1>1, <1>2, <1>3

\* A callback is called, or dropped for a later call on its own connection.
THEOREM DroppedCorrect == OverlaySpec => DroppedOnlyBySuccessor
<1> DEFINE Step == \A f \in Call : Waiting(f) /\ wait[f].status = "pending" /\ wait'[f] # wait[f] =>
             \/ wait'[f].status = "expired"
             \/ \E g \in Call \ {f} : wait'[g] = [conn |-> wait[f].conn, status |-> "pending"] /\ wait[g] = Null
<1>1. OverlayInv /\ [OverlayNext]_overlayVars => [Step]_overlayVars
  <2> SUFFICES ASSUME OverlayInv, OverlayNext,
                      NEW f \in Call, Waiting(f), wait[f].status = "pending", wait'[f] # wait[f],
                      wait'[f].status # "expired"
               PROVE  \E g \in Call \ {f} : wait'[g] = [conn |-> wait[f].conn, status |-> "pending"] /\ wait[g] = Null
    OBVIOUS
  <2>1. wait' # wait
    OBVIOUS
  <2>2. ASSUME NEW g \in Call, expire(g) PROVE FALSE
    <3>1. wait' = [wait EXCEPT ![g] = [wait[g] EXCEPT !.status = "expired"]] /\ wait[f] \in Wait
      BY <2>2 DEF expire, Waiting, OverlayInv, OverlayTypeOK
    <3> QED BY <3>1 DEF OverlayInv, OverlayTypeOK, Wait
  <2>3. ASSUME NEW g \in Call, connectTimeout(g) PROVE FALSE
    BY <2>3 DEF connectTimeout, OverlayInv, OverlayTypeOK
  <2>4. ASSUME NEW g \in Call, NEW th \in TH, socketConnect(th, g)
        PROVE  \E c \in Conn : \E o : Connect(c, o, g)
    BY <2>4 DEF socketConnect, OverlayInv, OverlayTypeOK
  <2>5. ASSUME NEW c \in Conn, User(c) PROVE \E g \in Call : connect(c, g)
    BY <2>1, <2>5 DEF User, release, disconnect, send, updateTransport, Update, callVars
  <2>6. ~Tick /\ (\A t \in Transport : ~transportChanges(t)) /\ (\A th \in TH : ~rotate(th))
    BY <2>1 DEF Tick, transportChanges, rotate, callVars
  <2>7. \A src \in TH, dest \in TH \cup {Null}, t \in Transport : ~receive(src, dest, t)
    BY <2>1 DEF receive, callVars
  <2>8. \E g \in Call, c \in Conn : \E o : Connect(c, o, g)
    BY <2>2, <2>3, <2>4, <2>5, <2>6, <2>7 DEF OverlayNext, Handler, connect
  <2> QED BY <2>8, ConnectDrops
<1>2. OverlaySpec => [][Step]_overlayVars
  BY <1>1, InvCorrect, PTL DEF OverlaySpec
<1> QED BY <1>2 DEF DroppedOnlyBySuccessor
=============================================================================
