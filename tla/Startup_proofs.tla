---------------------------- MODULE Startup_proofs ----------------------------
(***************************************************************************)
(* Daemons and programs, any number of them with any configuration, that   *)
(* start, crash and connect in any order; and at the end the keys that a   *)
(* daemon makes from its start on, see KeyProvider.                        *)
(***************************************************************************)
EXTENDS Startup, KeyProvider, TLAPS

\* Until it gets to its sockets a daemon, and until it connects a program, is at
\* the first path of its list.
FirstTry ==
  /\ \A d \in Daemon : at[d] \notin {"remove", "bind", "main"} => try[d] = 1
  /\ \A c \in Client : at[c] = "off" => try[c] = 1

StartupInv == StartupTypeOK /\ FirstTry

-----------------------------------------------------------------------------
(***************************************************************************)
(* Types.  The list of paths is as long as `try' needs it, though the      *)
(* configuration it depends on is read anew at every start.                *)
(***************************************************************************)
LEMMA PathList ==
  ASSUME NEW p
  PROVE  /\ Len(getSocketPathList(p)) \in {1, 2}
         /\ DOMAIN getSocketPathList(p) = 1..Len(getSocketPathList(p))
         /\ getSocketPathList(p)[1] \in Path
<1>1. getSocketPathList(p) = <<"user", "system">> \/ getSocketPathList(p) = <<"system">>
  BY DEF getSocketPathList
<1> QED BY <1>1 DEF Path

ConfigOK(values) == DOMAIN values \subseteq ConfigKey /\ \A key \in DOMAIN values : values[key] \in Value

LEMMA LoadedType ==
  ASSUME StartupTypeOK, NEW p \in Process
  PROVE  ConfigOK(loadFromFile(getDefaultDirectory(p)))
<1>1. getPermissions(p) \in {"SYSTEM", "USER"}
  BY DEF getPermissions
<1>2. directory \in Directory
  BY DEF StartupTypeOK
<1>3. CASE getDefaultDirectory(p).parses
  BY <1>1, <1>2, <1>3, StartupAssumption DEF loadFromFile, getDefaultDirectory, ConfigOK
<1>4. CASE ~getDefaultDirectory(p).parses
  BY <1>4 DEF loadFromFile, Defaults, Value, ConfigOK
<1> QED BY <1>3, <1>4

\* What a step of process p leaves to the others.
Alters(p) ==
  /\ DOMAIN config' = Process /\ DOMAIN at' = Process /\ DOMAIN try' = Process
  /\ directory' = directory
  /\ \A q \in Process \ {p} : config'[q] = config[q] /\ at'[q] = at[q] /\ try'[q] = try[q]

\* A program alters nothing but itself.
LEMMA ClientAlters ==
  ASSUME StartupTypeOK, NEW c \in Client, beginConnect(c) \/ connectPath(c) \/ disconnect(c)
  PROVE  Alters(c) /\ UNCHANGED daemonVars
<1>1. CASE beginConnect(c)
  BY <1>1 DEF StartupTypeOK, Alters, Process, beginConnect, ConfigManager, Becomes
<1>2. CASE connectPath(c)
  BY <1>2 DEF StartupTypeOK, Alters, Process, connectPath, Becomes, configVars
<1>3. CASE disconnect(c)
  BY <1>3 DEF StartupTypeOK, Alters, Process, disconnect, Becomes
<1> QED BY <1>1, <1>2, <1>3

LEMMA EndsAlters ==
  ASSUME StartupTypeOK, NEW d \in Daemon, Ends(d)
  PROVE  /\ Alters(d) /\ at'[d] = "off" /\ try'[d] = 1 /\ config'[d] = Defaults
         /\ owner' = owner
         /\ acceptor' \in [Daemon -> Path \cup {Null}] /\ udp_port' \in Daemon \cup {Null}
         /\ peer' \in [Client -> Daemon \cup {Null}]
BY DEF StartupTypeOK, Ends, Becomes, Alters, Process

\* The parts a daemon starts before its sockets.
Early == {"udp", "bootstrap", "udpv4", "udpv6", "api"}

\* A daemon that starts goes on to its next part, with its configuration and its
\* place in the list, or ends.
LEMMA EarlyAlters ==
  ASSUME StartupTypeOK, NEW d \in Daemon, ~Ends(d),
         startUDP(d) \/ runBootstrap(d) \/ startUDPv4(d) \/ startUDPv6(d) \/ startAPI(d)
  PROVE  /\ Alters(d) /\ at[d] \in Early /\ at'[d] \in Early \cup {"remove", "main"}
         /\ UNCHANGED <<config, try, owner, acceptor, peer>> /\ udp_port' \in Daemon \cup {Null}
         /\ at'[d] = "main" => getValue(d, "api.unix.enabled") # "true"
<1>1. CASE startUDP(d)
  BY <1>1 DEF StartupTypeOK, Alters, Process, Early, startUDP, Becomes, configVars, clientVars
<1>2. CASE runBootstrap(d)
  BY <1>2 DEF StartupTypeOK, Alters, Process, Early, runBootstrap, Becomes, configVars, clientVars, daemonVars
<1>3. CASE startUDPv4(d) \/ startUDPv6(d)
  BY <1>3 DEF StartupTypeOK, Alters, Process, Early, startUDPv4, startUDPv6, startLPD, Becomes,
              configVars, clientVars, daemonVars
<1>4. CASE startAPI(d)
  BY <1>4 DEF StartupTypeOK, Alters, Process, Early, startAPI, Becomes, configVars, clientVars, daemonVars
<1> QED BY <1>1, <1>2, <1>3, <1>4

LEMMA SocketAlters ==
  ASSUME StartupTypeOK, NEW d \in Daemon, removePath(d) \/ bindPath(d)
  PROVE  /\ Alters(d) /\ UNCHANGED <<config, udp_port, peer>>
         /\ at[d] \in {"remove", "bind"} /\ at'[d] \in {"remove", "bind", "main"}
         /\ try'[d] \in 1..Len(getSocketPathList(d))
         /\ owner' \in [Path -> Daemon \cup {Null}] /\ acceptor' \in [Daemon -> Path \cup {Null}]
<1>1. try[d] \in 1..Len(getSocketPathList(d)) /\ PathOf(d) \in Path
  <2>1. try[d] \in 1..Len(getSocketPathList(d))
    BY DEF StartupTypeOK, Process
  <2>2. getSocketPathList(d) = <<"user", "system">> \/ getSocketPathList(d) = <<"system">>
    BY DEF getSocketPathList
  <2> QED BY <2>1, <2>2 DEF PathOf, Path
<1>2. CASE removePath(d)
  BY <1>1, <1>2 DEF StartupTypeOK, Alters, Process, removePath, Removed, Becomes, configVars, clientVars
<1>3. CASE bindPath(d)
  <2>1. UNCHANGED <<directory, config, udp_port, peer>> /\ at[d] = "bind"
    BY <1>3 DEF bindPath, configVars, clientVars
  <2>2. CASE MayBind(d, PathOf(d)) /\ owner[PathOf(d)] = Null
    <3>1. /\ owner' = [owner EXCEPT ![PathOf(d)] = d] /\ acceptor' = [acceptor EXCEPT ![d] = PathOf(d)]
          /\ at' = [at EXCEPT ![d] = "main"] /\ try' = try
      BY <1>3, <2>2 DEF bindPath, Becomes
    <3>2. owner' \in [Path -> Daemon \cup {Null}] /\ acceptor' \in [Daemon -> Path \cup {Null}]
      BY <1>1, <3>1 DEF StartupTypeOK
    <3>3. Alters(d) /\ at'[d] = "main"
      BY <2>1, <3>1 DEF StartupTypeOK, Alters, Process
    <3> QED BY <1>1, <2>1, <3>1, <3>2, <3>3
  <2>3. CASE ~(MayBind(d, PathOf(d)) /\ owner[PathOf(d)] = Null)
    <3>1. owner' = owner /\ acceptor' = acceptor
      BY <1>3, <2>3 DEF bindPath, NotBound
    <3>2. CASE try[d] < Len(getSocketPathList(d))
      <4>1. try' = [try EXCEPT ![d] = @ + 1] /\ at' = [at EXCEPT ![d] = "remove"]
        BY <1>3, <2>3, <3>2 DEF bindPath, Becomes
      <4>2. try[d] + 1 \in 1..Len(getSocketPathList(d))
        BY <1>1, <3>2, PathList
      <4> QED BY <2>1, <3>1, <4>1, <4>2 DEF StartupTypeOK, Alters, Process
    <3>3. CASE ~(try[d] < Len(getSocketPathList(d)))
      BY <1>1, <1>3, <2>1, <2>3, <3>1, <3>3 DEF StartupTypeOK, Alters, Process, bindPath, Becomes
    <3> QED BY <3>2, <3>3
  <2> QED BY <2>2, <2>3
<1> QED BY <1>2, <1>3

LEMMA DaemonAlters ==
  ASSUME StartupTypeOK, NEW d \in Daemon, crash(d) \/ start(d) \/ StartStep(d)
  PROVE  Alters(d)
<1>1. CASE Ends(d)
  BY <1>1, EndsAlters
<1>2. CASE start(d)
  BY <1>2 DEF start, ConfigManager, Becomes, Alters, StartupTypeOK, Process
<1>3. CASE ~Ends(d) /\ (startUDP(d) \/ runBootstrap(d) \/ startUDPv4(d) \/ startUDPv6(d) \/ startAPI(d))
  BY <1>3, EarlyAlters
<1>4. CASE removePath(d) \/ bindPath(d)
  BY <1>4, SocketAlters
<1> QED BY <1>1, <1>2, <1>3, <1>4 DEF crash, StartStep

DaemonAt == {"off", "remove", "bind", "main"} \cup Early
ClientAt == {"off", "connect", "connected", "thrown"}

LEMMA ObservedType ==
  ASSUME StartupTypeOK, Observed
  PROVE  steady' \in [Client -> SUBSET Path] /\ lost' \subseteq Path
<1>1. \A c \in Client : steady'[c] \subseteq Path
  BY DEF Observed, StartupTypeOK
<1> QED BY <1>1 DEF Observed

\* It is enough to look at the process that takes the step.
LEMMA InvFrame ==
  ASSUME StartupInv, NEW p \in Process, Alters(p), ConfigOK(config'[p]),
         try'[p] \in 1..Len(getSocketPathList(p)'),
         p \in Daemon => /\ at'[p] \in DaemonAt
                         /\ at'[p] \notin {"remove", "bind", "main"} => try'[p] = 1,
         p \in Client => /\ at'[p] \in ClientAt
                         /\ at'[p] = "off" => try'[p] = 1,
         owner' \in [Path -> Daemon \cup {Null}], acceptor' \in [Daemon -> Path \cup {Null}],
         udp_port' \in Daemon \cup {Null}, peer' \in [Client -> Daemon \cup {Null}],
         steady' \in [Client -> SUBSET Path], lost' \subseteq Path
  PROVE  StartupInv'
<1>1. \A q \in Process \ {p} : getSocketPathList(q)' = getSocketPathList(q)
  BY DEF Alters, getSocketPathList, getValue
<1>2. \A q \in Process : try'[q] \in 1..Len(getSocketPathList(q)')
  BY <1>1 DEF StartupInv, StartupTypeOK, Alters
<1>3. \A q \in Process : ConfigOK(config'[q])
  BY DEF StartupInv, StartupTypeOK, Alters, ConfigOK
<1>4. \A q \in Daemon : at'[q] \in DaemonAt
  BY DEF StartupInv, StartupTypeOK, Alters, Process, DaemonAt, Early
<1>5. \A q \in Client : at'[q] \in ClientAt
  BY DEF StartupInv, StartupTypeOK, Alters, Process, ClientAt
<1>6. StartupTypeOK'
  BY <1>2, <1>3, <1>4, <1>5 DEF StartupInv, StartupTypeOK, Alters, ConfigOK, DaemonAt, ClientAt, Early
<1>7. FirstTry'
  BY DEF StartupInv, FirstTry, Alters, Process
<1> QED BY <1>6, <1>7 DEF StartupInv

LEMMA StartupStep ==
  ASSUME StartupInv, [StartupNext]_startupVars
  PROVE  StartupInv'
<1>1. CASE UNCHANGED startupVars
  BY <1>1 DEF startupVars, configVars, daemonVars, clientVars, processVars, StartupInv, StartupTypeOK, FirstTry,
              getSocketPathList, getValue
<1> SUFFICES ASSUME Acts, Observed
             PROVE  StartupInv'
  BY <1>1 DEF StartupNext
<1>2. steady' \in [Client -> SUBSET Path] /\ lost' \subseteq Path
  BY ObservedType DEF StartupInv
<1>3. StartupTypeOK /\ FirstTry
  BY DEF StartupInv
<1>4. \A p \in Process : ConfigOK(config[p]) /\ try[p] \in 1..Len(getSocketPathList(p))
  BY <1>3 DEF StartupTypeOK, ConfigOK
<1>5. ConfigOK(Defaults)
  BY DEF ConfigOK, Defaults, Value
<1>6. \A p : 1 \in 1..Len(getSocketPathList(p)')
  <2> SUFFICES ASSUME NEW p
               PROVE  1 \in 1..Len(getSocketPathList(p)')
    OBVIOUS
  <2>1. getSocketPathList(p)' = <<"user", "system">> \/ getSocketPathList(p)' = <<"system">>
    BY DEF getSocketPathList
  <2> QED BY <2>1
<1>7. ASSUME NEW d \in Daemon, Ends(d)
      PROVE  StartupInv'
  <2>1. /\ Alters(d) /\ at'[d] = "off" /\ try'[d] = 1 /\ config'[d] = Defaults
        /\ owner' \in [Path -> Daemon \cup {Null}]
        /\ acceptor' \in [Daemon -> Path \cup {Null}] /\ udp_port' \in Daemon \cup {Null}
        /\ peer' \in [Client -> Daemon \cup {Null}]
    BY <1>3, <1>7, EndsAlters DEF StartupTypeOK
  <2>2. d \in Process /\ d \notin Client
    BY StartupAssumption DEF Process
  <2> QED BY <1>2, <1>5, <1>6, <2>1, <2>2, InvFrame DEF DaemonAt
<1>8. ASSUME NEW d \in Daemon, start(d)
      PROVE  StartupInv'
  <2>1. Alters(d) /\ at'[d] = "udp" /\ try'[d] = 1 /\ UNCHANGED <<owner, acceptor, udp_port, peer>>
    BY <1>3, <1>8 DEF start, ConfigManager, Becomes, Alters, StartupTypeOK, FirstTry, Process, daemonVars, clientVars
  <2>2. ConfigOK(config'[d])
    BY <1>3, <1>8, LoadedType DEF start, ConfigManager, StartupTypeOK, Process
  <2> QED BY <1>2, <1>3, <1>6, <2>1, <2>2, InvFrame, StartupAssumption DEF Process, DaemonAt, Early, StartupTypeOK
<1>9. ASSUME NEW d \in Daemon, ~Ends(d),
             startUDP(d) \/ runBootstrap(d) \/ startUDPv4(d) \/ startUDPv6(d) \/ startAPI(d)
      PROVE  StartupInv'
  <2>1. /\ Alters(d) /\ at[d] \in Early /\ at'[d] \in Early \cup {"remove", "main"}
        /\ UNCHANGED <<config, try, owner, acceptor, peer>> /\ udp_port' \in Daemon \cup {Null}
    BY <1>3, <1>9, EarlyAlters
  <2>2. d \in Process /\ d \notin Client
    BY StartupAssumption DEF Process
  <2>3. try'[d] = 1 /\ ConfigOK(config'[d]) /\ at'[d] \in DaemonAt
    BY <1>3, <1>4, <2>1, <2>2 DEF FirstTry, Early, DaemonAt
  <2> QED BY <1>2, <1>3, <1>6, <2>1, <2>2, <2>3, InvFrame DEF StartupTypeOK
<1>10. ASSUME NEW d \in Daemon, removePath(d) \/ bindPath(d)
       PROVE  StartupInv'
  <2>1. /\ Alters(d) /\ UNCHANGED <<config, udp_port, peer>>
        /\ at[d] \in {"remove", "bind"} /\ at'[d] \in {"remove", "bind", "main"}
        /\ try'[d] \in 1..Len(getSocketPathList(d))
        /\ owner' \in [Path -> Daemon \cup {Null}] /\ acceptor' \in [Daemon -> Path \cup {Null}]
    BY <1>3, <1>10, SocketAlters
  <2>2. getSocketPathList(d)' = getSocketPathList(d)
    BY <2>1 DEF getSocketPathList, getValue
  <2>3. d \in Process /\ d \notin Client
    BY StartupAssumption DEF Process
  <2> QED BY <1>2, <1>3, <1>4, <2>1, <2>2, <2>3, InvFrame DEF StartupTypeOK, DaemonAt
<1>11. ASSUME NEW c \in Client, beginConnect(c)
       PROVE  StartupInv'
  <2>1. Alters(c) /\ UNCHANGED daemonVars /\ c \in Process /\ c \notin Daemon
    BY <1>3, <1>11, ClientAlters, StartupAssumption DEF Process
  <2>2. at'[c] \in {"connect", "thrown"} /\ try'[c] = 1 /\ peer' = peer
    BY <1>3, <1>11, <2>1 DEF beginConnect, Becomes, StartupTypeOK, FirstTry, clientVars
  <2>3. ConfigOK(config'[c])
    BY <1>3, <1>11, <2>1, LoadedType DEF beginConnect, ConfigManager, StartupTypeOK
  <2> QED BY <1>2, <1>3, <1>6, <2>1, <2>2, <2>3, InvFrame DEF ClientAt, StartupTypeOK, daemonVars
<1>12. ASSUME NEW c \in Client, connectPath(c)
       PROVE  StartupInv'
  <2>1. Alters(c) /\ UNCHANGED <<config, daemonVars>> /\ c \in Process /\ c \notin Daemon
    BY <1>3, <1>12, ClientAlters, StartupAssumption DEF Process, connectPath, configVars
  <2>2. getSocketPathList(c)' = getSocketPathList(c) /\ try[c] \in 1..Len(getSocketPathList(c))
    BY <1>4, <2>1 DEF getSocketPathList, getValue
  <2>3. NextTry(c) # 0 => NextTry(c) \in 1..Len(getSocketPathList(c))
    BY <2>2, PathList DEF NextTry
  <2>4. at'[c] \in ClientAt \ {"off"} /\ try'[c] \in 1..Len(getSocketPathList(c))
    BY <1>3, <1>12, <2>1, <2>2, <2>3 DEF connectPath, Becomes, StartupTypeOK, ClientAt
  <2>5. peer' \in [Client -> Daemon \cup {Null}]
    <3>1. PathOf(c) \in Path
      <4>1. getSocketPathList(c) = <<"user", "system">> \/ getSocketPathList(c) = <<"system">>
        BY DEF getSocketPathList
      <4> QED BY <2>2, <4>1 DEF PathOf, Path
    <3> QED BY <1>3, <1>12, <3>1 DEF connectPath, StartupTypeOK
  <2> QED BY <1>2, <1>3, <1>4, <2>1, <2>2, <2>4, <2>5, InvFrame DEF StartupTypeOK, daemonVars
<1>13. ASSUME NEW c \in Client, disconnect(c)
       PROVE  StartupInv'
  <2>1. Alters(c) /\ UNCHANGED daemonVars /\ c \in Process /\ c \notin Daemon
    BY <1>3, <1>13, ClientAlters, StartupAssumption DEF Process
  <2>2. at'[c] = "off" /\ try'[c] = 1 /\ config'[c] = Defaults /\ peer' \in [Client -> Daemon \cup {Null}]
    BY <1>3, <1>13, <2>1 DEF disconnect, Becomes, StartupTypeOK
  <2> QED BY <1>2, <1>3, <1>5, <1>6, <2>1, <2>2, InvFrame DEF ClientAt, StartupTypeOK, daemonVars
<1> QED BY <1>7, <1>8, <1>9, <1>10, <1>11, <1>12, <1>13 DEF Acts, crash, StartStep

LEMMA StartupInvInit == StartupInit => StartupInv
<1> SUFFICES ASSUME StartupInit
             PROVE  StartupInv
  OBVIOUS
<1>1. ConfigOK(Defaults)
  BY DEF ConfigOK, Defaults, Value
<1>2. \A p : 1 \in 1..Len(getSocketPathList(p))
  BY PathList
<1> QED BY <1>1, <1>2, StartupAssumption DEF StartupInit, StartupInv, StartupTypeOK, FirstTry, ConfigOK, Process

\* The processes keep their types, and no process gets past the end of its list.
THEOREM StartupTypeCorrect == StartupSpec => []StartupTypeOK
<1>1. StartupInv /\ [StartupNext]_startupVars => StartupInv'
  BY StartupStep
<1>2. StartupInv => StartupTypeOK
  BY DEF StartupInv
<1> QED BY <1>1, <1>2, StartupInvInit, PTL DEF StartupSpec

-----------------------------------------------------------------------------
(***************************************************************************)
(* Programs find the first daemon.                                         *)
(***************************************************************************)

\* The positions of the list a program has tried in vain.
Missed(c) == IF at[c] = "thrown" THEN DOMAIN getSocketPathList(c) ELSE 1..try[c] - 1

\* No path a program has gone past was served ever since it began to connect,
\* unless it is not allowed to connect to it.
MissedRightly(c) ==
  at[c] # "off" =>
    \A i \in Missed(c) : getSocketPathList(c)[i] \in steady[c] => ~MayConnect(c, getSocketPathList(c)[i])

LEMMA MissedStep ==
  ASSUME StartupInv, NEW c \in Client, MissedRightly(c), [StartupNext]_startupVars
  PROVE  MissedRightly(c)'
<1>1. CASE UNCHANGED startupVars
  BY <1>1 DEF startupVars, configVars, processVars, MissedRightly, Missed, getSocketPathList, getValue
<1> SUFFICES ASSUME Acts, Observed, at'[c] # "off"
             PROVE  MissedRightly(c)'
  BY <1>1 DEF StartupNext, MissedRightly
<1>2. StartupTypeOK /\ FirstTry /\ c \in Process
  BY DEF StartupInv, Process
<1>3. at[c] # "off" => \A path \in steady'[c] : path \in steady[c] /\ Listening(path)'
  BY DEF Observed
<1>4. at[c] = "off" /\ at'[c] = "thrown" => steady'[c] = {}
  BY DEF Observed
<1>5. ASSUME config'[c] = config[c], at'[c] = at[c], try'[c] = try[c]
      PROVE  MissedRightly(c)'
  <2>1. getSocketPathList(c)' = getSocketPathList(c)
    BY <1>5 DEF getSocketPathList, getValue
  <2> QED BY <1>3, <1>5, <2>1 DEF MissedRightly, Missed
<1>6. ASSUME NEW d \in Daemon, crash(d) \/ start(d) \/ StartStep(d)
      PROVE  MissedRightly(c)'
  <2>1. c \in Process \ {d} /\ d \in Process
    BY StartupAssumption DEF Process
  <2>2. Alters(d)
    BY <1>2, <1>6, DaemonAlters
  <2> QED BY <1>5, <2>1, <2>2 DEF Alters
<1>7. ASSUME NEW b \in Client \ {c}, beginConnect(b) \/ connectPath(b) \/ disconnect(b)
      PROVE  MissedRightly(c)'
  BY <1>2, <1>5, <1>7, ClientAlters DEF Alters
<1>8. CASE beginConnect(c)
  <2>1. at[c] = "off" /\ try'[c] = 1 /\ at'[c] \in {"connect", "thrown"}
    BY <1>2, <1>8 DEF beginConnect, FirstTry, Becomes, StartupTypeOK
  <2> QED BY <1>4, <2>1 DEF MissedRightly, Missed
<1>9. CASE connectPath(c)
  <2>1. at[c] = "connect" /\ UNCHANGED <<config, owner, acceptor>>
    BY <1>9 DEF connectPath, configVars, daemonVars
  <2>2. getSocketPathList(c)' = getSocketPathList(c)
    BY <2>1 DEF getSocketPathList, getValue
  <2>3. try[c] \in 1..Len(getSocketPathList(c)) /\ DOMAIN getSocketPathList(c) = 1..Len(getSocketPathList(c))
        /\ Len(getSocketPathList(c)) \in Nat
    BY <1>2, PathList DEF StartupTypeOK
  <2>4. CASE at'[c] = "connected" /\ try' = try
    BY <1>3, <2>1, <2>2, <2>4 DEF MissedRightly, Missed
  <2>5. CASE /\ ~(Listening(PathOf(c)) /\ MayConnect(c, PathOf(c)))
             /\ \/ NextTry(c) = 0 /\ at'[c] = "thrown"
                \/ NextTry(c) # 0 /\ at'[c] = "connect" /\ try'[c] = NextTry(c)
    <3>1. Missed(c)' = 1..try[c]
      BY <2>2, <2>3, <2>5 DEF Missed, NextTry
    <3>2. PathOf(c) \in steady'[c] => ~MayConnect(c, PathOf(c))
      BY <1>3, <2>1, <2>5 DEF Listening
    <3>3. \A i \in 1..try[c] - 1 : getSocketPathList(c)[i] \in steady'[c] => ~MayConnect(c, getSocketPathList(c)[i])
      BY <1>3, <2>1 DEF MissedRightly, Missed
    <3>4. \A i \in 1..try[c] : i \in 1..try[c] - 1 \/ i = try[c]
      BY <2>3
    <3>5. \A i \in 1..try[c] : getSocketPathList(c)[i] \in steady'[c] => ~MayConnect(c, getSocketPathList(c)[i])
      BY <3>2, <3>3, <3>4 DEF PathOf
    <3> QED BY <2>2, <3>1, <3>5 DEF MissedRightly, MayConnect
  <2> QED BY <1>2, <1>9, <2>1, <2>4, <2>5 DEF connectPath, Becomes, StartupTypeOK
<1>10. CASE disconnect(c)
  BY <1>2, <1>10 DEF disconnect, Becomes, StartupTypeOK
<1> QED BY <1>6, <1>7, <1>8, <1>9, <1>10 DEF Acts

\* P2PUnixDaemon::connect() gives a path up only if there was a moment of the
\* attempt at which nobody served it, or the program may not connect to it:
\* whatever daemons start, crash and take over paths meanwhile.
THEOREM FirstPathCorrect == StartupSpec => []ConnectsToFirst
<1> DEFINE Inv == StartupInv /\ \A c \in Client : MissedRightly(c)
<1>1. StartupInit => Inv
  BY StartupInvInit DEF StartupInit, MissedRightly, Process
<1>2. Inv /\ [StartupNext]_startupVars => Inv'
  <2> SUFFICES ASSUME StartupInv, \A c \in Client : MissedRightly(c), [StartupNext]_startupVars
               PROVE  StartupInv' /\ \A c \in Client : MissedRightly(c)'
    OBVIOUS
  <2> QED BY StartupStep, MissedStep
<1>3. Inv => ConnectsToFirst
  BY DEF MissedRightly, Missed, ConnectsToFirst
<1> QED BY <1>1, <1>2, <1>3, PTL DEF StartupSpec

-----------------------------------------------------------------------------
(***************************************************************************)
(* Daemons that start at the same time leave their path served.            *)
(***************************************************************************)

\* The path is bound, or a daemon is about to bind it, or one that was died.
Covered(path) ==
  \/ owner[path] # Null
  \/ path \in lost
  \/ \E e \in Daemon : at[e] = "bind" /\ PathOf(e) = path /\ MayBind(e, path)

LEMMA CoveredStep ==
  ASSUME StartupInv, NEW path \in Path, Covered(path), [StartupNext]_startupVars
  PROVE  Covered(path)'
<1>1. CASE UNCHANGED startupVars
  BY <1>1 DEF startupVars, configVars, daemonVars, processVars, Covered, PathOf, getSocketPathList, getValue
<1> SUFFICES ASSUME Acts, Observed, owner'[path] = Null
             PROVE  Covered(path)'
  BY <1>1 DEF StartupNext, Covered
<1>2. StartupTypeOK /\ FirstTry
  BY DEF StartupInv
<1>3. path \in lost => path \in lost'
  BY DEF Observed
<1>4. \A d \in Daemon : at[d] = "bind" /\ at'[d] = "off" /\ PathOf(d) = path => path \in lost'
  BY DEF Observed
<1>5. ASSUME NEW p \in Process, Alters(p),
             owner[path] # Null => Covered(path)',
             p \in Daemon /\ at[p] = "bind" /\ PathOf(p) = path /\ MayBind(p, path) => Covered(path)'
      PROVE  Covered(path)'
  <2>1. ASSUME NEW e \in Daemon, e # p, at[e] = "bind", PathOf(e) = path, MayBind(e, path)
        PROVE  Covered(path)'
    <3>1. e \in Process
      BY DEF Process
    <3>2. at'[e] = "bind" /\ try'[e] = try[e] /\ config'[e] = config[e]
      BY <1>5, <2>1, <3>1 DEF Alters
    <3>3. PathOf(e)' = path
      BY <2>1, <3>2 DEF PathOf, getSocketPathList, getValue
    <3> QED BY <2>1, <3>2, <3>3 DEF Covered, MayBind
  <2> QED BY <1>3, <1>5, <2>1 DEF Covered
<1>6. ASSUME NEW d \in Daemon, Ends(d)
      PROVE  Covered(path)'
  BY <1>2, <1>4, <1>5, <1>6, EndsAlters DEF Covered, Process
<1>7. ASSUME NEW d \in Daemon, start(d)
      PROVE  Covered(path)'
  <2>1. Alters(d) /\ owner' = owner /\ at[d] = "off"
    BY <1>2, <1>7 DEF start, ConfigManager, Becomes, Alters, StartupTypeOK, Process, daemonVars
  <2> QED BY <1>5, <2>1 DEF Process
<1>8. ASSUME NEW d \in Daemon, ~Ends(d),
             startUDP(d) \/ runBootstrap(d) \/ startUDPv4(d) \/ startUDPv6(d) \/ startAPI(d)
      PROVE  Covered(path)'
  <2>1. Alters(d) /\ owner' = owner /\ at[d] \in Early
    BY <1>2, <1>8, EarlyAlters
  <2> QED BY <1>5, <2>1 DEF Process, Early
<1>9. ASSUME NEW d \in Daemon, removePath(d)
      PROVE  Covered(path)'
  <2>1. Alters(d) /\ config' = config /\ try' = try /\ at[d] = "remove" /\ at'[d] = "bind"
    BY <1>2, <1>9, SocketAlters DEF removePath, StartupTypeOK, Process, Becomes
  <2>2. owner' = Removed(d, PathOf(d))
    BY <1>9 DEF removePath
  <2>3. ASSUME owner[path] # Null
        PROVE  Covered(path)'
    <3>1. path = PathOf(d) /\ MayBind(d, path)
      BY <1>2, <2>2, <2>3 DEF Removed, StartupTypeOK
    <3>2. PathOf(d)' = path
      BY <2>1, <3>1 DEF PathOf, getSocketPathList, getValue
    <3> QED BY <2>1, <3>1, <3>2 DEF Covered, MayBind
  <2> QED BY <1>5, <2>1, <2>3 DEF Process
<1>10. ASSUME NEW d \in Daemon, bindPath(d)
       PROVE  Covered(path)'
  <2>1. Alters(d)
    BY <1>2, <1>10, SocketAlters
  <2>2. owner[path] # Null => owner'[path] # Null
    BY <1>2, <1>10, StartupAssumption DEF bindPath, NotBound, StartupTypeOK, Process
  <2>3. PathOf(d) = path /\ MayBind(d, path) => owner'[path] # Null
    BY <1>2, <1>10, StartupAssumption DEF bindPath, NotBound, StartupTypeOK, Process
  <2> QED BY <1>5, <2>1, <2>2, <2>3 DEF Process
<1>11. ASSUME NEW c \in Client, beginConnect(c) \/ connectPath(c) \/ disconnect(c)
       PROVE  Covered(path)'
  <2>1. Alters(c) /\ owner' = owner /\ c \in Process /\ c \notin Daemon
    BY <1>2, <1>11, ClientAlters, StartupAssumption DEF daemonVars, Process
  <2> QED BY <1>5, <2>1
<1> QED BY <1>6, <1>7, <1>8, <1>9, <1>10, <1>11 DEF Acts, crash, StartStep

\* A daemon can serve the first path of its list or none.
LEMMA ServableFirst ==
  ASSUME NEW d, NEW path \in Servable(d)
  PROVE  path = getSocketPathList(d)[1] /\ path \in Path /\ MayBind(d, path)
<1>1. path \in Path /\ MayBind(d, path) /\ \E i \in DOMAIN getSocketPathList(d) : getSocketPathList(d)[i] = path
  BY DEF Servable
<1>2. CASE getSocketPathList(d) = <<"user", "system">> /\ d \notin System
  BY <1>1, <1>2 DEF MayBind
<1>3. CASE getSocketPathList(d) = <<"system">>
  BY <1>1, <1>3
<1> QED BY <1>1, <1>2, <1>3 DEF getSocketPathList

\* What a daemon could serve and has had its turn for is covered.
ServedOnce(d) ==
  at[d] = "main" \/ (at[d] \in {"remove", "bind"} /\ try[d] # 1) =>
    \A path \in Servable(d) : Covered(path)

LEMMA ServedStep ==
  ASSUME StartupInv, NEW d \in Daemon, ServedOnce(d), [StartupNext]_startupVars
  PROVE  ServedOnce(d)'
<1>1. StartupTypeOK /\ FirstTry /\ d \in Process
  BY DEF StartupInv, Process
<1>2. ASSUME config'[d] = config[d]
      PROVE  Servable(d)' = Servable(d) /\ getSocketPathList(d)' = getSocketPathList(d)
  BY <1>2 DEF Servable, PathsThrow, MayBind, getSocketPathList, getValue
<1>3. \A path \in Path : Covered(path) => Covered(path)'
  BY CoveredStep
<1>4. \A path \in Servable(d) : path \in Path
  BY ServableFirst
<1>5. ASSUME config'[d] = config[d], at'[d] = at[d], try'[d] = try[d]
      PROVE  ServedOnce(d)'
  BY <1>2, <1>3, <1>4, <1>5 DEF ServedOnce
<1>6. CASE UNCHANGED startupVars
  BY <1>5, <1>6 DEF startupVars, configVars, processVars
<1>7. ASSUME NEW p \in Process \ {d}, Alters(p)
      PROVE  ServedOnce(d)'
  BY <1>1, <1>5, <1>7 DEF Alters
<1>8. ASSUME NEW c \in Client, beginConnect(c) \/ connectPath(c) \/ disconnect(c)
      PROVE  ServedOnce(d)'
  BY <1>1, <1>7, <1>8, ClientAlters, StartupAssumption DEF Process
<1>9. ASSUME NEW e \in Daemon \ {d}, crash(e) \/ start(e) \/ StartStep(e)
      PROVE  ServedOnce(d)'
  BY <1>1, <1>7, <1>9, DaemonAlters DEF Process
<1>10. CASE Ends(d)
  BY <1>1, <1>10, EndsAlters DEF ServedOnce
<1>11. CASE start(d)
  BY <1>1, <1>11 DEF start, Becomes, StartupTypeOK, ServedOnce
<1>12. CASE ~Ends(d) /\ (startUDP(d) \/ runBootstrap(d) \/ startUDPv4(d) \/ startUDPv6(d) \/ startAPI(d))
  <2>1. /\ at[d] \in Early /\ at'[d] \in Early \cup {"remove", "main"} /\ UNCHANGED <<config, try>>
        /\ at'[d] = "main" => getValue(d, "api.unix.enabled") # "true"
    BY <1>1, <1>12, EarlyAlters
  <2>2. try'[d] = 1
    BY <1>1, <2>1 DEF FirstTry, Early
  <2>3. at'[d] = "main" => Servable(d)' = {}
    BY <1>2, <2>1 DEF Servable
  <2> QED BY <2>1, <2>2, <2>3 DEF ServedOnce, Early
<1>13. CASE removePath(d)
  <2>1. UNCHANGED <<config, try>> /\ at[d] = "remove" /\ at'[d] = "bind"
    BY <1>1, <1>13 DEF removePath, configVars, Becomes, StartupTypeOK
  <2> QED BY <1>2, <1>3, <1>4, <2>1 DEF ServedOnce
<1>14. CASE bindPath(d)
  <2>1. config' = config /\ at[d] = "bind"
    BY <1>14 DEF bindPath, configVars
  <2>2. CASE try[d] # 1
    BY <1>2, <1>3, <1>4, <2>1, <2>2 DEF ServedOnce
  <2>3. ASSUME try[d] = 1, NEW path \in Servable(d)
        PROVE  owner'[path] # Null
    <3>1. PathOf(d) = path /\ path \in Path /\ MayBind(d, path)
      BY <2>3, ServableFirst DEF PathOf
    <3> QED BY <1>1, <1>14, <3>1, StartupAssumption DEF bindPath, NotBound, StartupTypeOK
  <2> QED BY <1>2, <2>1, <2>2, <2>3 DEF ServedOnce, Covered
<1> QED BY <1>6, <1>8, <1>9, <1>10, <1>11, <1>12, <1>13, <1>14 DEF StartupNext, Acts, crash, StartStep

\* UnixAPIServer removes a file that may be that of a running daemon.  Whatever
\* the order in which daemons remove and bind, when all have started there is a
\* socket for each of them, unless one died between its remove() and its bind.
THEOREM RacesCorrect == StartupSpec => []RacingStartsServe
<1> DEFINE Inv == StartupInv /\ \A d \in Daemon : ServedOnce(d)
<1>1. StartupInit => Inv
  BY StartupInvInit DEF StartupInit, ServedOnce, Process
<1>2. Inv /\ [StartupNext]_startupVars => Inv'
  <2> SUFFICES ASSUME StartupInv, \A d \in Daemon : ServedOnce(d), [StartupNext]_startupVars
               PROVE  StartupInv' /\ \A d \in Daemon : ServedOnce(d)'
    OBVIOUS
  <2> QED BY StartupStep, ServedStep
<1>3. Inv => RacingStartsServe
  BY DEF ServedOnce, Covered, RacingStartsServe
<1> QED BY <1>1, <1>2, <1>3, PTL DEF StartupSpec

-----------------------------------------------------------------------------
(***************************************************************************)
(* The rotation of keys, for every history size, interval and set of keys. *)
(* KPInv is the inductive invariant: the phases of the generator thread    *)
(* and of the main thread fit together (Phases), and the ages of the keys  *)
(* in the history are an interval or more apart.                           *)
(***************************************************************************)


\* What is known of the threads, the timer and the newest key in each phase.
Phases ==
  /\ new_info = Nil <=> generator \in {"none", "now", "ended"}
  /\ generator \in {"dispatch", "push", "pushing"} => new_info \notin Keys(history)
  /\ generator \in {"dispatch", "push", "pushing"} /\ history # <<>> =>
       age[history[1]] >= age[new_info] + renew_interval
  /\ generator \in {"pop", "popping", "arm"} => history # <<>> /\ history[1] = new_info
  /\ generator = "now" /\ history # <<>> => age[history[1]] >= renew_interval
  /\ generator \in {"none", "ended"} => history # <<>>
  /\ timer # Nil => generator \in {"none", "ended"} /\ age[history[1]] + timer >= renew_interval
  /\ main = "join" => generator \in {"none", "ended"} /\ timer = Nil /\ age[history[1]] >= renew_interval
  /\ generator \notin {"pop", "popping"} => Len(history) <= max_history_size
  /\ generator = "popping" => Len(history) = max_history_size + 1

KPInv == KPTypeOK /\ Phases /\ HistorySpaced /\ ChainUnbroken

\* The constants that the code computes from the configuration.
LEMMA Intervals ==
  /\ max_history_size \in Nat \ {0}
  /\ lose_interval \in Nat
  /\ lose_interval <= renew_interval * max_history_size
<1> USE KeyProviderAssumption
<1>1. max_history_size \in Nat \ {0}
  BY DEF max_history_size
<1>2. renew_interval * max_history_size \in Nat
  BY <1>1
<1>3. \A n \in Nat : n % Modulus \in Nat /\ n % Modulus <= n
  OBVIOUS
<1>4. QED
  BY <1>1, <1>2, <1>3 DEF lose_interval

\* One more step of an interval.
LEMMA OneMore ==
  ASSUME NEW n \in Nat
  PROVE  /\ n * renew_interval \in Nat
         /\ (n + 1) * renew_interval = n * renew_interval + renew_interval
BY KeyProviderAssumption

\* The steps that leave the history, the ages of its keys, the threads and
\* the timer alone.
LEMMA KPFrame ==
  ASSUME KPInv, UNCHANGED <<history, age, generator, new_info, timer, main>>, KPTypeOK'
  PROVE  KPInv'
BY DEF KPInv, Phases, HistorySpaced, ChainUnbroken, Keys

\* Every step of either thread, and of the clock, keeps the invariant.
LEMMA KPInductive == KPInv /\ [KPNext]_keyVars => KPInv'
<1> SUFFICES ASSUME KPInv, [KPNext]_keyVars
             PROVE  KPInv'
  OBVIOUS
<1> USE KeyProviderAssumption
<1>1. ASSUME NEW k \in Key, generateNewKey(k)
      PROVE  KPInv'
  <2>1. KPTypeOK'
    BY <1>1 DEF KPInv, KPTypeOK, generateNewKey, Generator
  <2>2. \A i \in DOMAIN history : history[i] # k /\ age'[history[i]] = age[history[i]]
    BY <1>1 DEF generateNewKey, InUse, Keys, KPInv, KPTypeOK
  <2>3. HistorySpaced'
    BY <1>1, <2>2 DEF generateNewKey, HistorySpaced, KPInv
  <2>4. history # <<>> => 1 \in DOMAIN history
    BY DEF KPInv, KPTypeOK
  <2>5. age'[k] = 0
    BY <1>1 DEF generateNewKey, KPInv, KPTypeOK
  <2>6. timer = Nil /\ main # "join"
    BY <1>1 DEF generateNewKey, KPInv, Phases
  <2>7. Phases'
    BY <1>1, <2>2, <2>4, <2>5, <2>6 DEF generateNewKey, KPInv, KPTypeOK, Phases, Keys
  <2>8. QED
    BY <1>1, <2>1, <2>3, <2>7 DEF generateNewKey, KPInv, ChainUnbroken
<1>2. CASE dispatch
  <2>1. history # <<>> => history[1] \in Key
    BY DEF KPInv, KPTypeOK
  <2>2. KPTypeOK'
    BY <1>2, <2>1 DEF KPInv, KPTypeOK, Phases, dispatch, Generator
  <2>3. QED
    BY <1>2, <2>2 DEF dispatch, KPInv, Phases, HistorySpaced, ChainUnbroken, Keys
<1>3. CASE push_front /\ generator = "push"
  BY <1>3 DEF push_front, KPInv, KPTypeOK, Generator, Phases, HistorySpaced, ChainUnbroken, Keys
<1>4. CASE push_front /\ generator = "pushing"
  <2>1. /\ history' = <<new_info>> \o history
        /\ generator' = "pop"
        /\ UNCHANGED <<age, new_info, timer, main, posted, announced, answer>>
    BY <1>4 DEF push_front
  <2>2. new_info \in Key /\ history \in Seq(Key) /\ age \in [Key -> Nat]
    BY <1>4 DEF KPInv, KPTypeOK, Phases
  <2>3. /\ history' \in Seq(Key)
        /\ Len(history') = Len(history) + 1
        /\ history'[1] = new_info
        /\ \A i \in 2..Len(history') : i - 1 \in DOMAIN history /\ history'[i] = history[i - 1]
    BY <2>1, <2>2
  <2>4. Len(history) <= max_history_size
    BY <1>4 DEF KPInv, Phases
  <2>5. KPTypeOK'
    BY <2>1, <2>3, <2>4, Intervals DEF KPInv, KPTypeOK, Generator
  <2>6. Phases'
    BY <1>4, <2>1, <2>3, <2>4 DEF KPInv, Phases
  <2>7. ASSUME NEW q \in 2..Len(history')
        PROVE  /\ history'[1] # history'[q]
               /\ age'[history'[q]] >= age'[history'[1]] + (q - 1) * renew_interval
    <3>1. q - 1 \in DOMAIN history /\ history'[q] = history[q - 1] /\ 1 \in DOMAIN history
      BY <2>2, <2>3
    <3>2. new_info \notin Keys(history) /\ age[history[1]] >= age[new_info] + renew_interval
      BY <1>4, <3>1 DEF KPInv, Phases
    <3>3. age[history[q - 1]] >= age[history[1]] + (q - 2) * renew_interval
      <4>1. CASE q = 2
        BY <4>1, <3>1, <2>2
      <4>2. CASE q # 2
        <5>1. 1 < q - 1 /\ (q - 1) - 1 = q - 2
          BY <4>2
        <5>2. QED
          BY <5>1, <3>1 DEF KPInv, HistorySpaced
      <4>3. QED
        BY <4>1, <4>2
    <3>4. PICK d \in Nat : d = (q - 2) * renew_interval /\ (q - 1) * renew_interval = d + renew_interval
      BY OneMore, q - 2 \in Nat, (q - 2) + 1 = q - 1
    <3>5. age[history[q - 1]] \in Nat /\ age[history[1]] \in Nat /\ age[new_info] \in Nat
      BY <2>2, <3>1
    <3>6. history'[1] # history'[q]
      BY <2>3, <3>1, <3>2 DEF Keys
    <3>7. age[history[q - 1]] >= age[new_info] + (d + renew_interval)
      <4>1. age[history[q - 1]] >= age[history[1]] + d
        BY <3>3, <3>4
      <4>2. \A x, y, z \in Nat : x >= y + d /\ y >= z + renew_interval => x >= z + (d + renew_interval)
        BY d \in Nat
      <4>3. QED
        BY <4>1, <4>2, <3>2, <3>5
    <3>8. age'[history'[q]] = age[history[q - 1]] /\ age'[history'[1]] = age[new_info]
      BY <2>1, <2>3, <3>1
    <3>9. QED
      BY <3>4, <3>6, <3>7, <3>8
  <2>8. HistorySpaced'
    <3> SUFFICES ASSUME NEW p \in DOMAIN history', NEW q \in DOMAIN history', p < q
                 PROVE  /\ history'[p] # history'[q]
                        /\ age'[history'[q]] >= age'[history'[p]] + (q - p) * renew_interval
      BY DEF HistorySpaced
    <3>0. p \in Nat /\ q \in 2..Len(history') /\ p >= 1
      BY <2>3
    <3>1. CASE p = 1
      BY <2>7, <3>0, <3>1
    <3>2. CASE p # 1
      <4>1. /\ p - 1 \in DOMAIN history /\ history'[p] = history[p - 1]
            /\ q - 1 \in DOMAIN history /\ history'[q] = history[q - 1]
        BY <2>3, <3>0, <3>2
      <4>2. (q - 1) - (p - 1) = q - p /\ p - 1 < q - 1
        BY <3>0
      <4>3. QED
        BY <2>1, <4>1, <4>2 DEF KPInv, HistorySpaced
    <3>3. QED
      BY <3>1, <3>2
  <2>9. QED
    BY <2>1, <2>5, <2>6, <2>8 DEF KPInv, ChainUnbroken
<1>5. CASE pop_back /\ generator = "pop"
  <2>1. Len(history) \in Nat
    BY DEF KPInv, KPTypeOK
  <2>2. QED
    BY <1>5, <2>1, Intervals DEF pop_back, TooMany, KPInv, KPTypeOK, Generator, Phases, HistorySpaced, ChainUnbroken, Keys
<1>6. CASE pop_back /\ generator = "popping"
  <2> DEFINE last == Len(history)
  <2>1. /\ history' = SubSeq(history, 1, last - 1)
        /\ age' = [age EXCEPT ![history[last]] = 0]
        /\ generator' = "arm"
        /\ UNCHANGED <<new_info, timer, main, posted, announced, answer>>
    BY <1>6 DEF pop_back
  <2>2. history \in Seq(Key) /\ age \in [Key -> Nat] /\ last = max_history_size + 1 /\ last \in Nat
    BY <1>6 DEF KPInv, KPTypeOK, Phases
  <2>3. last >= 2 /\ last \in DOMAIN history
    BY <2>2, Intervals
  <2>4. /\ history' \in Seq(Key)
        /\ Len(history') = last - 1
        /\ DOMAIN history' = 1..(last - 1)
        /\ \A i \in 1..(last - 1) : i \in DOMAIN history /\ history'[i] = history[i]
    BY <2>1, <2>2, <2>3
  <2>5. \A i \in 1..(last - 1) : history[i] # history[last]
    <3>1. \A p, q \in DOMAIN history : p < q => history[p] # history[q]
      BY DEF KPInv, HistorySpaced
    <3>2. \A i \in 1..(last - 1) : i < last
      BY <2>3
    <3>3. QED
      BY <2>3, <2>4, <3>1, <3>2
  <2>6. age' \in [Key -> Nat] /\ \A i \in 1..(last - 1) : age'[history[i]] = age[history[i]]
    BY <2>1, <2>2, <2>3, <2>5
  <2>7. KPTypeOK'
    BY <2>1, <2>2, <2>4, <2>6, Intervals DEF KPInv, KPTypeOK, Generator
  <2>8. HistorySpaced'
    <3> SUFFICES ASSUME NEW p \in 1..(last - 1), NEW q \in 1..(last - 1), p < q
                 PROVE  history'[p] # history'[q] /\ age'[history'[q]] >= age'[history'[p]] + (q - p) * renew_interval
      BY <2>4 DEF HistorySpaced
    <3>1. /\ history'[p] = history[p] /\ age'[history[p]] = age[history[p]] /\ p \in DOMAIN history
          /\ history'[q] = history[q] /\ age'[history[q]] = age[history[q]] /\ q \in DOMAIN history
      BY <2>4, <2>6
    <3>2. QED
      BY <3>1 DEF KPInv, HistorySpaced
  <2>9. Phases'
    BY <1>6, <2>1, <2>2, <2>3, <2>4, Intervals DEF KPInv, Phases
  <2>10. QED
    BY <2>1, <2>7, <2>8, <2>9 DEF KPInv, ChainUnbroken
<1>7. CASE arm
  <2>1. new_info \in Key /\ age[new_info] \in Nat /\ history # <<>> /\ history[1] = new_info
    BY <1>7 DEF arm, KPInv, KPTypeOK, Phases
  <2>2. timer' \in Nat /\ age[new_info] + timer' >= renew_interval
    BY <1>7, <2>1 DEF arm, TimeLeft, expiration_interval
  <2>3. KPTypeOK'
    BY <1>7, <2>2 DEF arm, KPInv, KPTypeOK, Generator
  <2>4. Phases'
    BY <1>7, <2>1, <2>2 DEF arm, KPInv, Phases
  <2>5. QED
    BY <1>7, <2>2, <2>3, <2>4 DEF arm, KPInv, HistorySpaced, ChainUnbroken
<1>8. CASE constructed
  BY <1>8 DEF constructed, KPInv, KPTypeOK, Generator, Phases, HistorySpaced, ChainUnbroken, Keys
<1>9. CASE loopGenerate
  <2>1. history # <<>> /\ age[history[1]] \in Nat
    BY <1>9 DEF loopGenerate, KPInv, KPTypeOK, Phases
  <2>2. KPTypeOK'
    BY <1>9 DEF loopGenerate, KPInv, KPTypeOK
  <2>3. QED
    BY <1>9, <2>1, <2>2 DEF loopGenerate, KPInv, Phases, HistorySpaced, ChainUnbroken, Keys
<1>10. CASE join
  <2>1. timer' \in Nat \cup {Nil} /\ generator' = "now" /\ main' = "idle"
    BY <1>10 DEF join, KPInv, KPTypeOK
  <2>2. KPTypeOK'
    BY <1>10 DEF join, KPInv, KPTypeOK, Generator
  <2>3. QED
    BY <1>10, <2>2 DEF join, KPInv, Phases, HistorySpaced, ChainUnbroken, Keys
<1>11. CASE deliver
  <2>1. FrontRead \subseteq Key \cup {Nil}
    BY DEF FrontRead, KPInv, KPTypeOK
  <2>2. posted \in Key \X Key /\ posted[2] \in Key
    BY <1>11 DEF deliver, KPInv, KPTypeOK
  <2>3. KPTypeOK'
    BY <1>11, <2>1, <2>2 DEF deliver, KPInv, KPTypeOK
  <2>4. QED
    BY <1>11, <2>3, KPFrame DEF deliver
<1>12. CASE getKeyInfo
  <2>1. FrontRead \subseteq Key \cup {Nil}
    BY DEF FrontRead, KPInv, KPTypeOK
  <2>2. KPTypeOK'
    BY <1>12, <2>1 DEF getKeyInfo, KPInv, KPTypeOK
  <2>3. QED
    BY <1>12, <2>2, KPFrame DEF getKeyInfo
<1>13. CASE Tick
  <2>1. /\ age' \in [Key -> Nat]
        /\ \A i \in DOMAIN history : age'[history[i]] = age[history[i]] + 1
        /\ new_info # Nil => age'[new_info] = age[new_info] + 1
    <3>1. age' = [k \in Key |-> IF k \in InUse THEN age[k] + 1 ELSE age[k]]
      BY <1>13 DEF Tick
    <3>2. age \in [Key -> Nat] /\ history \in Seq(Key) /\ new_info \in Key \cup {Nil}
      BY DEF KPInv, KPTypeOK
    <3>3. \A k \in Key : age[k] \in Nat /\ age[k] + 1 \in Nat
      BY <3>2
    <3>4. \A i \in DOMAIN history : history[i] \in Key /\ history[i] \in InUse
      BY <3>2 DEF InUse, Keys
    <3>5. new_info \in InUse
      BY DEF InUse
    <3>6. age' \in [Key -> Nat]
      BY <3>1, <3>3
    <3>7. QED
      BY <3>1, <3>2, <3>4, <3>5, <3>6
  <2>2. timer' \in Nat \cup {Nil} /\ (timer' = Nil <=> timer = Nil) /\ (timer # Nil => timer' + 1 >= timer)
    BY <1>13 DEF Tick, KPInv, KPTypeOK
  <2>3. \A i \in DOMAIN history : age[history[i]] \in Nat
    BY DEF KPInv, KPTypeOK
  <2>4. KPTypeOK'
    BY <1>13, <2>1, <2>2 DEF Tick, KPInv, KPTypeOK
  <2>5. HistorySpaced'
    <3> SUFFICES ASSUME NEW p \in DOMAIN history, NEW q \in DOMAIN history, p < q
                 PROVE  history[p] # history[q] /\ age'[history[q]] >= age'[history[p]] + (q - p) * renew_interval
      BY <1>13 DEF Tick, HistorySpaced
    <3>1. (q - p) * renew_interval \in Nat
      <4>1. q - p \in Nat
        BY DEF KPInv, KPTypeOK
      <4>2. QED
        BY <4>1, OneMore
    <3>2. history[p] # history[q] /\ age[history[q]] >= age[history[p]] + (q - p) * renew_interval
      BY DEF KPInv, HistorySpaced
    <3>3. QED
      BY <2>1, <2>3, <3>1, <3>2
  <2>6. history # <<>> => 1 \in DOMAIN history
    BY DEF KPInv, KPTypeOK
  <2>7. Phases'
    <3>1. timer # Nil => age'[history[1]] + timer' >= renew_interval
      <4> SUFFICES ASSUME timer # Nil
                   PROVE  age'[history[1]] + timer' >= renew_interval
        OBVIOUS
      <4>2. age[history[1]] + timer >= renew_interval /\ 1 \in DOMAIN history
        BY <2>6 DEF KPInv, Phases
      <4>3. timer \in Nat /\ timer' \in Nat
        BY <2>2 DEF KPInv, KPTypeOK
      <4>4. age'[history[1]] = age[history[1]] + 1 /\ age[history[1]] \in Nat
        BY <4>2, <2>1, <2>3
      <4>5. timer' + 1 >= timer
        BY <2>2
      <4>6. \A a, t, u, e \in Nat : a + t >= e /\ u + 1 >= t => (a + 1) + u >= e
        OBVIOUS
      <4>7. QED
        BY <4>2, <4>3, <4>4, <4>5, <4>6
    <3>2. \A i \in DOMAIN history : age'[history[i]] >= age[history[i]] /\ age'[history[i]] \in Nat
      BY <2>1, <2>3
    <3>3. generator \in {"dispatch", "push", "pushing"} /\ history # <<>> =>
            age'[history[1]] >= age'[new_info] + renew_interval
      <4>1. new_info # Nil => age[new_info] \in Nat
        BY DEF KPInv, KPTypeOK
      <4>2. QED
        BY <4>1, <2>1, <2>3, <2>6 DEF KPInv, Phases
    <3>4. main = "join" \/ (generator = "now" /\ history # <<>>) => age'[history[1]] >= renew_interval
      BY <2>1, <2>3, <2>6 DEF KPInv, Phases
    <3>5. QED
      BY <1>13, <2>2, <3>1, <3>3, <3>4 DEF Tick, KPInv, Phases, Keys
  <2>8. QED
    BY <1>13, <2>2, <2>4, <2>5, <2>7 DEF Tick, KPInv, ChainUnbroken
<1>14. CASE UNCHANGED keyVars
  <2>1. KPTypeOK'
    BY <1>14 DEF keyVars, KPInv, KPTypeOK
  <2>2. QED
    BY <1>14, <2>1, KPFrame DEF keyVars
<1>15. ASSUME NEW k \in Key, getRecentKeyInfo(k)
       PROVE  KPInv'
  <2>1. KPTypeOK'
    BY <1>15 DEF getRecentKeyInfo, KPInv, KPTypeOK
  <2>2. QED
    BY <1>15, <2>1, KPFrame DEF getRecentKeyInfo
<1>16. QED
  BY <1>1, <1>2, <1>3, <1>4, <1>5, <1>6, <1>7, <1>8, <1>9, <1>10, <1>11, <1>12, <1>13, <1>14, <1>15
     DEF KPNext, renewKeys, push_front, pop_back

\* A key provider whose constructor has just started the first generator.
LEMMA KPInitially == KPInit => KPInv
BY KeyProviderAssumption, Intervals
   DEF KPInit, KPInv, KPTypeOK, Generator, Phases, HistorySpaced, ChainUnbroken, Keys

\* The type invariant; with it, the history never grows beyond its bound.
THEOREM KPTypeCorrect == KPSpec => []KPTypeOK
<1>1. KPInv => KPTypeOK
  BY DEF KPInv
<1>2. QED
  BY <1>1, KPInitially, KPInductive, PTL DEF KPSpec

\* Every key of the history was current for the renewal interval or longer.
THEOREM SpacingCorrect == KPSpec => []HistorySpaced
<1>1. KPInv => HistorySpaced
  BY DEF KPInv
<1>2. QED
  BY <1>1, KPInitially, KPInductive, PTL DEF KPSpec

\* loopGenerate() and renewKeys() start each other over and over: unless one
\* of them runs, the timer is waited for.
THEOREM ChainCorrect == KPSpec => []ChainUnbroken
<1>1. KPInv => ChainUnbroken
  BY DEF KPInv
<1>2. QED
  BY <1>1, KPInitially, KPInductive, PTL DEF KPSpec

\* pop_back() of renewKeys() takes away only a key whose lose_time has passed.
THEOREM RetentionCorrect == KPSpec => KeptUntilLost
<1> DEFINE Kept == \A k \in Keys(history) \ Keys(history') : age[k] >= lose_interval
<1>1. KPInv /\ [KPNext]_keyVars => [Kept]_keyVars
  <2> SUFFICES ASSUME KPInv, KPNext
               PROVE  Kept
    OBVIOUS
  <2>1. CASE UNCHANGED history
    BY <2>1 DEF Keys
  <2>2. CASE push_front /\ generator = "pushing"
    <3>1. history' = <<new_info>> \o history /\ history \in Seq(Key) /\ new_info \in Key
      BY <2>2 DEF push_front, KPInv, KPTypeOK, Phases
    <3>2. \A i \in DOMAIN history : i + 1 \in DOMAIN history' /\ history'[i + 1] = history[i]
      BY <3>1
    <3>3. QED
      BY <3>2 DEF Keys
  <2>3. CASE pop_back /\ generator = "popping"
    <3> DEFINE last == Len(history)
    <3>1. /\ history' = SubSeq(history, 1, last - 1)
          /\ history \in Seq(Key) /\ age \in [Key -> Nat]
          /\ last = max_history_size + 1
      BY <2>3 DEF pop_back, KPInv, KPTypeOK, Phases
    <3>2. last \in Nat /\ last >= 2 /\ max_history_size \in Nat
      BY <3>1, Intervals
    <3>3. \A i \in 1..(last - 1) : i \in DOMAIN history' /\ history'[i] = history[i]
      BY <3>1, <3>2
    <3>4. DOMAIN history = 1..last
      BY <3>1
    <3>5. Keys(history) \ Keys(history') \subseteq {history[last]}
      BY <3>2, <3>3, <3>4 DEF Keys
    <3>6. age[history[last]] >= age[history[1]] + (last - 1) * renew_interval
      <4>1. 1 \in DOMAIN history /\ last \in DOMAIN history /\ 1 < last
        BY <3>2, <3>4
      <4>2. QED
        BY <4>1 DEF KPInv, HistorySpaced
    <3>7. (last - 1) * renew_interval = renew_interval * max_history_size
      BY <3>1, <3>2, KeyProviderAssumption
    <3>8. age[history[last]] \in Nat /\ age[history[1]] \in Nat /\ renew_interval * max_history_size \in Nat
      BY <3>1, <3>2, <3>4, KeyProviderAssumption
    <3>9. age[history[last]] >= lose_interval
      BY <3>6, <3>7, <3>8, Intervals
    <3>10. QED
      BY <3>5, <3>9
  <2>4. QED
    BY <2>1, <2>2, <2>3 DEF KPNext, renewKeys, generateNewKey, dispatch, push_front, pop_back, arm,
       constructed, loopGenerate, join, deliver, getKeyInfo, getRecentKeyInfo, Tick
<1>2. QED
  BY <1>1, KPInitially, KPInductive, PTL DEF KPSpec, KeptUntilLost
=============================================================================
