------------------------------- MODULE Startup -------------------------------
(***************************************************************************)
(* How programs and daemons of one machine find each other: the start of   *)
(* the daemon (src/daemon/main.cpp, Daemon.cpp), its configuration         *)
(* (src/common/Config.cpp, Config.h), the Unix socket the API is served on *)
(* (src/daemon/api/APIManager.cpp, UnixAPIServer.cpp) and the connection   *)
(* of the client library to it (src/library/daemon_conn).                  *)
(*                                                                         *)
(* Daemons of the user and of the system start at the same time, crash and *)
(* start again; the file of a socket outlives the daemon that bound it.    *)
(* P2PNET_CONFIG_DIR is not set, and one user owns all the processes that  *)
(* are not of the system.                                                  *)
(***************************************************************************)
EXTENDS Integers, Sequences

CONSTANTS
  Daemon, Client,
  System,     \* processes that run as root
  Confined,   \* processes that cannot write to their configuration directory
  Directory,  \* what the configuration directories of the system and the user may contain
  OpenToAll,  \* whether everybody may connect to a socket of the system
  Null

Process == Daemon \cup Client
Path == {"user", "system"}
ConfigKey == {"api.unix.enabled", "api.unix.disable_user_sock", "transport.udp.enabled",
              "discovery.udpv4.enabled", "discovery.udpv6.enabled"}
Value == {"true", "false", "malformed"}

ASSUME StartupAssumption ==
  /\ Daemon \cap Client = {} /\ System \cup Confined \subseteq Process
  /\ OpenToAll \in BOOLEAN /\ Null \notin Process
  /\ \A files \in Directory, who \in {"SYSTEM", "USER"} : LET dir == files[who] IN
       /\ dir.parses \in BOOLEAN /\ dir.bootstrap \in BOOLEAN    \* the two files are well-formed
       /\ DOMAIN dir.values \subseteq ConfigKey /\ \A key \in DOMAIN dir.values : dir.values[key] \in Value

VARIABLES
  directory,  \* configuration directories by permission
  config,     \* internal_config of every process
  at,         \* where a process is: "off", the next part a daemon starts, "main";
              \* for a program "connect", "connected", "thrown"
  try,        \* position in the list of socket paths
  owner,      \* socket files: the daemon that bound the path last, or Null
  acceptor,   \* the path a daemon listens on, or Null
  udp_port,   \* the daemon that has the UDP port, or Null
  peer,       \* the daemon a program is connected to, or Null
  steady,     \* paths that were served ever since a program began to connect
  lost        \* paths whose file was removed by a daemon that ended before it bound one

configVars == <<directory, config>>
daemonVars == <<owner, acceptor, udp_port>>
clientVars == <<peer>>
processVars == <<at, try>>
startupVars == <<configVars, daemonVars, clientVars, processVars, steady, lost>>

Listening(path) == owner[path] # Null /\ acceptor[owner[path]] = path

-----------------------------------------------------------------------------
(***************************************************************************)
(* Configuration.                                                          *)
(***************************************************************************)

getPermissions(p) == IF p \in System THEN "SYSTEM" ELSE "USER"

\* ConfigManager::initDefaults().
Defaults == [key \in ConfigKey |-> IF key = "api.unix.disable_user_sock" THEN "false" ELSE "true"]

getDefaultDirectory(p) == directory[getPermissions(p)]

\* ConfigManager::loadFromFile(): a file that is missing or not well-formed
\* counts for nothing.
loadFromFile(dir) == IF dir.parses THEN dir.values ELSE Defaults

\* The constructor, at the first call of getInstance().  It also writes a file.
ConfigManager(p) == config' = [config EXCEPT ![p] = loadFromFile(getDefaultDirectory(p))]

\* A value that is not in the file is the default; one of the wrong type throws.
getValue(p, key) == IF key \in DOMAIN config[p] THEN config[p][key] ELSE Defaults[key]

\* Whether getSocketPathList() throws, and the list.
PathsThrow(p) == p \notin System /\ getValue(p, "api.unix.disable_user_sock") = "malformed"

getSocketPathList(p) ==
  IF p \notin System /\ getValue(p, "api.unix.disable_user_sock") = "false"
  THEN <<"user", "system">> ELSE <<"system">>

StartupTypeOK ==
  /\ directory \in Directory
  /\ DOMAIN config = Process /\ DOMAIN at = Process /\ DOMAIN try = Process
  /\ \A p \in Process : DOMAIN config[p] \subseteq ConfigKey /\ \A key \in DOMAIN config[p] : config[p][key] \in Value
  /\ \A d \in Daemon : at[d] \in {"off", "udp", "bootstrap", "udpv4", "udpv6", "api", "remove", "bind", "main"}
  /\ \A c \in Client : at[c] \in {"off", "connect", "connected", "thrown"}
  /\ \A p \in Process : try[p] \in 1..Len(getSocketPathList(p))
  /\ owner \in [Path -> Daemon \cup {Null}]
  /\ acceptor \in [Daemon -> Path \cup {Null}]
  /\ udp_port \in Daemon \cup {Null}
  /\ peer \in [Client -> Daemon \cup {Null}]
  /\ steady \in [Client -> SUBSET Path] /\ lost \subseteq Path

StartupInit ==
  /\ directory \in Directory
  /\ config = [p \in Process |-> Defaults]
  /\ at = [p \in Process |-> "off"] /\ try = [p \in Process |-> 1]
  /\ owner = [path \in Path |-> Null] /\ acceptor = [d \in Daemon |-> Null]
  /\ udp_port = Null /\ peer = [c \in Client |-> Null]
  /\ steady = [c \in Client |-> {}] /\ lost = {}

Becomes(p, where) == at' = [at EXCEPT ![p] = where]

-----------------------------------------------------------------------------
(***************************************************************************)
(* The daemon.                                                             *)
(***************************************************************************)

\* A daemon ends, by an exception or a signal.  Its socket file stays; the
\* programs connected to it are not told (is_connected() stays true).
Ends(d) ==
  /\ Becomes(d, "off") /\ try' = [try EXCEPT ![d] = 1]
  /\ config' = [config EXCEPT ![d] = Defaults]
  /\ acceptor' = [acceptor EXCEPT ![d] = Null]
  /\ udp_port' = IF udp_port = d THEN Null ELSE udp_port
  /\ peer' = [c \in Client |-> IF peer[c] = d THEN Null ELSE peer[c]]
  /\ UNCHANGED <<directory, owner>>

crash(d) == at[d] # "off" /\ Ends(d)

\* main(), and the constructor of Daemon.
start(d) ==
  /\ at[d] = "off" /\ d \notin Confined
  /\ ConfigManager(d)
  /\ Becomes(d, "udp")
  /\ UNCHANGED <<directory, daemonVars, clientVars, try>>

\* The UDP interface; a port in use is logged.
startUDP(d) ==
  /\ at[d] = "udp"
  /\ IF getValue(d, "transport.udp.enabled") = "malformed" THEN Ends(d)
     ELSE /\ udp_port' = IF getValue(d, "transport.udp.enabled") = "true" /\ udp_port = Null THEN d ELSE udp_port
          /\ Becomes(d, "bootstrap")
          /\ UNCHANGED <<configVars, owner, acceptor, clientVars, try>>

\* A bad line of the bootstrap file throws what nobody catches, if the
\* interface is there to parse it.
runBootstrap(d) ==
  /\ at[d] = "bootstrap"
  /\ IF ~getDefaultDirectory(d).bootstrap /\ udp_port = d THEN Ends(d)
     ELSE Becomes(d, "udpv4") /\ UNCHANGED <<configVars, daemonVars, clientVars, try>>

\* UDPLPDv4 and UDPLPDv6.  That one of them cannot open its socket is logged.
startLPD(d, key, next) ==
  IF getValue(d, key) = "malformed" THEN Ends(d)
  ELSE Becomes(d, next) /\ UNCHANGED <<configVars, daemonVars, clientVars, try>>

startUDPv4(d) == at[d] = "udpv4" /\ startLPD(d, "discovery.udpv4.enabled", "udpv6")

startUDPv6(d) == at[d] = "udpv6" /\ startLPD(d, "discovery.udpv6.enabled", "api")

\* APIManager::APIManager().
startAPI(d) ==
  /\ at[d] = "api"
  /\ IF getValue(d, "api.unix.enabled") = "malformed" \/ (getValue(d, "api.unix.enabled") = "true" /\ PathsThrow(d))
     THEN Ends(d)
     ELSE /\ Becomes(d, IF getValue(d, "api.unix.enabled") = "true" THEN "remove" ELSE "main")
          /\ UNCHANGED <<configVars, daemonVars, clientVars, try>>

\* The directories a daemon may write to.
MayBind(d, path) == d \in System \/ path = "user"

\* A turn of the loop of UnixAPIServer::UnixAPIServer(): remove() ...
PathOf(p) == getSocketPathList(p)[try[p]]

\* Mutant: the file stays.
Removed_not(d, path) == owner

Removed(d, path) == IF MayBind(d, path) THEN [owner EXCEPT ![path] = Null] ELSE owner

removePath(d) ==
  /\ at[d] = "remove" /\ Becomes(d, "bind")
  /\ owner' = Removed(d, PathOf(d))
  /\ UNCHANGED <<configVars, acceptor, udp_port, clientVars, try>>

\* Mutant: a daemon that cannot bind cleans up.
NotBound_removes(d, path) == owner' = Removed(d, path)

NotBound(d, path) == UNCHANGED owner

\* ... and the acceptor, which fails where a file exists.  After the last path
\* the exception is logged, and there is no API.
bindPath(d) ==
  /\ at[d] = "bind"
  /\ LET path == PathOf(d) IN
       IF MayBind(d, path) /\ owner[path] = Null
       THEN /\ owner' = [owner EXCEPT ![path] = d] /\ acceptor' = [acceptor EXCEPT ![d] = path]
            /\ Becomes(d, "main") /\ UNCHANGED try
       ELSE /\ NotBound(d, path) /\ UNCHANGED acceptor
            /\ IF try[d] < Len(getSocketPathList(d))
               THEN try' = [try EXCEPT ![d] = @ + 1] /\ Becomes(d, "remove")
               ELSE UNCHANGED try /\ Becomes(d, "main")
  /\ UNCHANGED <<configVars, udp_port, clientVars>>

StartStep(d) ==
  startUDP(d) \/ runBootstrap(d) \/ startUDPv4(d) \/ startUDPv6(d) \/ startAPI(d) \/ removePath(d) \/ bindPath(d)

-----------------------------------------------------------------------------
(***************************************************************************)
(* The client library.                                                     *)
(***************************************************************************)

MayConnect(c, path) == c \in System \/ path = "user" \/ OpenToAll

\* P2PUnixDaemon::connect() up to its loop.  The configuration is read here.
beginConnect(c) ==
  /\ at[c] = "off"
  /\ ConfigManager(c)
  /\ Becomes(c, IF c \in Confined \/ PathsThrow(c)' THEN "thrown" ELSE "connect")
  /\ UNCHANGED <<directory, daemonVars, clientVars, try>>

\* Mutant: the iterator is moved on before it is looked at.
NextTry_skips(c) == IF try[c] + 1 < Len(getSocketPathList(c)) THEN try[c] + 1 ELSE 0

\* The position to try next, or 0.
NextTry(c) == IF try[c] < Len(getSocketPathList(c)) THEN try[c] + 1 ELSE 0

\* A turn of the loop.
connectPath(c) ==
  /\ at[c] = "connect"
  /\ IF Listening(PathOf(c)) /\ MayConnect(c, PathOf(c))
     THEN Becomes(c, "connected") /\ peer' = [peer EXCEPT ![c] = owner[PathOf(c)]] /\ UNCHANGED try
     ELSE /\ UNCHANGED peer
          /\ IF NextTry(c) = 0 THEN Becomes(c, "thrown") /\ UNCHANGED try
             ELSE try' = [try EXCEPT ![c] = NextTry(c)] /\ UNCHANGED at
  /\ UNCHANGED <<configVars, daemonVars>>

\* The program ends, or gives the connection up.
disconnect(c) ==
  /\ at[c] \in {"connected", "thrown"}
  /\ Becomes(c, "off") /\ try' = [try EXCEPT ![c] = 1]
  /\ config' = [config EXCEPT ![c] = Defaults] /\ peer' = [peer EXCEPT ![c] = Null]
  /\ UNCHANGED <<directory, daemonVars>>

-----------------------------------------------------------------------------
\* What the processes do, and what the two history variables make of it.
Acts ==
  \/ \E d \in Daemon : crash(d) \/ start(d) \/ StartStep(d)
  \/ \E c \in Client : beginConnect(c) \/ connectPath(c) \/ disconnect(c)

Observed ==
  /\ steady' = [c \in Client |->
       IF at'[c] = "off" \/ (at[c] = "off" /\ at'[c] = "thrown") THEN {}
       ELSE {path \in (IF at[c] = "off" THEN Path ELSE steady[c]) : Listening(path)'}]
  /\ lost' = {path \in Path : owner'[path] = Null /\
       (path \in lost \/ \E d \in Daemon : at[d] = "bind" /\ at'[d] = "off" /\ PathOf(d) = path)}

StartupNext == Acts /\ Observed

\* A daemon that was started goes on.
StartupSpec ==
  /\ StartupInit /\ [][StartupNext]_startupVars
  /\ \A d \in Daemon : WF_startupVars(StartStep(d) /\ Observed)

-----------------------------------------------------------------------------
(***************************************************************************)
(* Properties.                                                             *)
(***************************************************************************)

\* A program is refused only if none of its paths was served all the time it was
\* trying, and it is connected to a later path only if no earlier one was
\* (P2PUnixDaemon.cpp:44): the daemon of the user comes before that of the system.
ConnectsToFirst ==
  \A c \in Client : at[c] \in {"connected", "thrown"} =>
    LET paths == getSocketPathList(c)
        missed == IF at[c] = "thrown" THEN DOMAIN paths ELSE 1..try[c] - 1
    IN \A i \in missed : paths[i] \in steady[c] => ~MayConnect(c, paths[i])

\* The paths a daemon whose API is on can serve.
Servable(d) ==
  IF getValue(d, "api.unix.enabled") # "true" \/ PathsThrow(d) THEN {}
  ELSE {path \in Path : MayBind(d, path) /\ \E i \in DOMAIN getSocketPathList(d) : getSocketPathList(d)[i] = path}

\* When no start is under way, the path of every daemon in its main loop is bound:
\* by it, or by one that started with it or after it and removed its file or got
\* there first (UnixAPIServer.cpp:49), unless that one died in between.
RacingStartsServe ==
  (\A d \in Daemon : at[d] \in {"off", "main"}) =>
    \A d \in Daemon : at[d] = "main" => \A path \in Servable(d) : owner[path] # Null \/ path \in lost

Alone(d) == at[d] # "off" /\ Servable(d) # {} /\ \A e \in Daemon \ {d} : at[e] = "off"

\* A daemon that starts while no other is there gets to serve its path, whatever
\* files crashed daemons left behind (UnixAPIServer.cpp:49), and whichever of its
\* other parts could not be started (Daemon.cpp:35), unless it ends or another starts.
RestartServes ==
  \A d \in Daemon :
    at[d] = "udp" /\ Alone(d)
      ~> ~Alone(d) \/ \E path \in Servable(d) : Listening(path) /\ owner[path] = d
=============================================================================
