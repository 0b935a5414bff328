----------------------------- MODULE MCP2PSession -----------------------------
EXTENDS P2PSession, TLC

\* Addresses, objects and hashes of keys are compared for equality only; used
\* with safety properties.
MCSymmetry == Permutations(Node) \cup Permutations(Session) \cup Permutations(Object)
=============================================================================
