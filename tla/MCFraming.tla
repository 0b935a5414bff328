----------------------------- MODULE MCFraming -----------------------------
(* Model-checking instance of Framing, with a request that carries a key. *)
EXTENDS Framing, KeyText, TLC

CONSTANTS empty, short, long

\* The frame of the longest message has more bytes than a socket has room for.
MCSerialized == empty :> <<>> @@ short :> toBase58(6) @@ long :> <<0, 1, 1, 2, 0, 0, 1>>

\* The request "short" stands for those that bind a node to a key that generateKeyPair()
\* has returned.  When the daemon handles one (APISession.cpp:139), it reads the key that
\* was generated and that the program has read too (P2PNode.cpp:80), whichever it is,
\* although encodeToBase58() drops the zeros a key begins with.
SameKeyRead == inbox["request"] = short => \A pair \in generateKeyPair : ReadBack(pair)
=============================================================================
