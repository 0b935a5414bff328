------------------------------ MODULE Discovery ------------------------------
(***************************************************************************)
(* Discovery of peers (src/daemon/discovery) over the UDP transport: the   *)
(* bootstrap file, which is read before the main loop starts, and a local  *)
(* peer discovery service (UDPLPD), which announces this daemon by         *)
(* multicast and connects to the daemons whose announcements it receives.  *)
(*                                                                         *)
(* The announcements of a daemon carry the port of its UDP interface; the  *)
(* address is the one the datagram came from.                              *)
(***************************************************************************)
EXTENDS UDPTransport

CONSTANTS
  Address, Port,
  SizeOf,         \* bytes of an announcement of each port
  Bootstrap,      \* the bootstrap files, sequences of lines
  MaxConnecting   \* bound: connections being made at a time

\* A line of the bootstrap file: whether its prefix is that of an interface,
\* whether the rest can be parsed, and as what.
Line == [known : BOOLEAN, parses : BOOLEAN, endpoint : Endpoint]

ASSUME DiscoveryAssumption ==
  /\ Endpoint = Address \X Port /\ Null \notin Port
  /\ DOMAIN SizeOf = Port
  /\ Bootstrap \subseteq Seq(Line)

VARIABLES
  interface,   \* whether the UDP interface is enabled and could be bound
  lpd,         \* and whether local peer discovery is
  lines,       \* lines of the bootstrap file yet to be read
  udp_buffer,  \* the port in the buffer when receive() copied it, or Null
  announced,   \* endpoints that received announcements were about
  odd          \* whether their number is odd

startVars == <<interface, lpd, lines>>
lpdVars == <<udp_buffer, announced, odd>>
discoveryVars == <<udpVars, startVars, lpdVars>>

DiscoveryTypeOK ==
  /\ UDPTypeOK
  /\ interface \in BOOLEAN /\ lpd \in BOOLEAN /\ lines \in Seq(Line)
  /\ udp_buffer \in Port \cup {Null} /\ announced \subseteq Endpoint /\ odd \in BOOLEAN

DiscoveryInit ==
  /\ UDPInit
  /\ interface \in BOOLEAN /\ lpd \in BOOLEAN /\ lines \in Bootstrap
  /\ udp_buffer = Null /\ announced = {} /\ odd = FALSE

InMainLoop == Running /\ lines = <<>>

-----------------------------------------------------------------------------
\* The calls of connect() whose handler has not run.
Connecting ==
  Cardinality({c \in Conn : Lives(c) /\ object[c].waiting = "connecting"})
    + Len(SelectSeq(ready, LAMBDA h : h.kind = "connecting"))

\* Mutant: the connection is registered before the peer has answered.
interfaceConnect_registers(e) ==
  \E c \in Conn :
    /\ ~Lives(c) /\ Connecting < MaxConnecting
    /\ Update(c, connect(New(e)), registerConnection(e, c), held, ready)
    /\ UNCHANGED outcome

interfaceConnect(e) ==
  \E c \in Conn :
    /\ ~Lives(c) /\ Connecting < MaxConnecting
    /\ Update(c, connect(New(e)), connections, held, ready)
    /\ UNCHANGED outcome

\* Without the interface, the call goes through a null pointer.
socketConnect(e) == IF interface THEN interfaceConnect(e) ELSE Down("undefined")

handshake(e) ==
  IF Registered(e) THEN UNCHANGED <<objectVars, tableVars, loopVars>> ELSE socketConnect(e)

\* Whether Socket::getInterface() finds the interface of the prefix of a line.
getInterface(line) == line.known /\ interface

\* SocketEndpoint::resetEndpoint() makes an endpoint of it, or throws an int.
resetEndpoint(line) == getInterface(line)

\* SocketEndpoint::fromString() then parses the rest, or throws something else.
fromString(line) ==
  IF ~resetEndpoint(line) THEN "no_such_interface" ELSE IF line.parses THEN "endpoint" ELSE "bad_lexical_cast"

\* A line of BootstrapDiscovery::run(), which catches an int only.
bootstrapLine ==
  /\ Running /\ lines # <<>>
  /\ lines' = Tail(lines)
  /\ LET line == Head(lines) IN
     \/ fromString(line) = "no_such_interface" /\ UNCHANGED <<objectVars, tableVars, loopVars>>
     \/ fromString(line) = "bad_lexical_cast" /\ Down("terminated")
     \/ fromString(line) = "endpoint" /\ handshake(line.endpoint)
  /\ UNCHANGED <<silence, interface, lpd, lpdVars>>

\* Mutant: every datagram is read from a buffer that nothing was received into.
Parsed_garbage(copy, port) == Port \cup {Null}

\* receive() copies the buffer before the datagram has arrived: what is parsed is
\* the datagram before, cut to the size of this one, and nothing in particular
\* the first time.  Null stands for a message that is not parsed well.
Parsed(copy, port) == IF copy # Null /\ SizeOf[copy] = SizeOf[port] THEN {copy} ELSE Port \cup {Null}

\* An announcement of port, from an address.
processReceived(address, port) ==
  /\ InMainLoop /\ lpd
  /\ announced' = announced \cup {<<address, port>>}
  /\ udp_buffer' = port /\ odd' = ~odd
  /\ \E parsed \in Parsed(udp_buffer, port) :
       IF parsed = Null THEN UNCHANGED <<objectVars, tableVars, loopVars>>
       ELSE handshake(<<address, parsed>>)
  /\ UNCHANGED <<silence, startVars>>

DiscoveryNext ==
  \/ bootstrapLine
  \/ InMainLoop /\ interface /\ UDPNext /\ UNCHANGED <<startVars, lpdVars>>
  \/ \E address \in Address, port \in Port : processReceived(address, port)

DiscoverySpec == DiscoveryInit /\ [][DiscoveryNext]_discoveryVars

-----------------------------------------------------------------------------
(***************************************************************************)
(* Properties.                                                             *)
(***************************************************************************)

Connects(e) == \E c \in Conn : ~Lives(c) /\ Lives(c)' /\ object'[c].endpoint = e

\* Daemons that all use one port find each other: from the second announcement on,
\* every one has a connection or gets one, although it is the announcement before
\* that is parsed (UDPLPD.cpp:95).
OnePortDiscovered ==
  [][\A address \in Address, port \in Port :
       /\ announced # {} /\ announced \subseteq Address \X {port}
       /\ interface /\ processReceived(address, port)
       => Registered(<<address, port>>) \/ Connects(<<address, port>>)]_discoveryVars
=============================================================================
