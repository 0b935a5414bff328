---------------------------- MODULE MCDiscovery ----------------------------
(* Model-checking instances of Discovery.                                 *)
EXTENDS Discovery

MCEndpoint == Address \X Port
MCSizeOf == [port \in Port |-> 4]
\* No file, one that names an endpoint, and one with bad lines.
Good == {line \in Line : line.known /\ line.parses}
Unknown == {line \in Line : ~line.known}
Malformed == {line \in Line : line.known /\ ~line.parses}
MCBootstrap == {<<>>} \cup {<<g>> : g \in Good} \cup Unknown \X Malformed
=============================================================================
