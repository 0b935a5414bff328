------------------------------- MODULE NodeIds --------------------------------
(***************************************************************************)
(* What a client can rely on about the node ids of its session, whatever   *)
(* the daemon does to compute them: a new node gets the least id that is   *)
(* free, and an id is free again once its node is unregistered.            *)
(***************************************************************************)
EXTENDS Naturals

CONSTANTS Session, MaxId

VARIABLES
  open,   \* the sessions there are
  used    \* the ids in use in each session

idVars == <<open, used>>

NodeId == 1..MaxId

Init ==
  /\ open = {}
  /\ used = [s \in Session |-> {}]

Open(s) ==
  /\ s \notin open
  /\ open' = open \cup {s}
  /\ UNCHANGED used

Register(s, i) ==
  /\ s \in open
  /\ i \notin used[s]
  /\ \A j \in NodeId : j < i => j \in used[s]
  /\ used' = [used EXCEPT ![s] = @ \cup {i}]
  /\ UNCHANGED open

Unregister(s, i) ==
  /\ s \in open
  /\ i \in used[s]
  /\ used' = [used EXCEPT ![s] = @ \ {i}]
  /\ UNCHANGED open

Close(s) ==
  /\ s \in open
  /\ open' = open \ {s}
  /\ used' = [used EXCEPT ![s] = {}]

Next ==
  \E s \in Session :
    \/ Open(s) \/ Close(s)
    \/ \E i \in NodeId : Register(s, i) \/ Unregister(s, i)

Spec == Init /\ [][Next]_idVars
=============================================================================
