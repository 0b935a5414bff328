----------------------------- MODULE MCStartup -----------------------------
(* Model-checking instance of Startup.                                    *)
EXTENDS Startup, TLC

NoFile == [parses |-> FALSE, values |-> [key \in {} |-> "true"], bootstrap |-> TRUE]
NoUserSocket == [parses |-> TRUE, values |-> "api.unix.disable_user_sock" :> "true", bootstrap |-> TRUE]
Malformed == [parses |-> TRUE, values |-> "api.unix.disable_user_sock" :> "malformed", bootstrap |-> TRUE]
BadBootstrap == [parses |-> TRUE, values |-> "api.unix.enabled" :> "false", bootstrap |-> FALSE]
MCDirectory ==
  {[SYSTEM |-> NoFile, USER |-> dir] : dir \in {NoFile, NoUserSocket, Malformed}}
    \cup {[SYSTEM |-> BadBootstrap, USER |-> NoFile]}
=============================================================================
