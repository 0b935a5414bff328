------------------------------- MODULE Channel -------------------------------
(***************************************************************************)
(* What the framing of messages on a Unix socket promises, and what the    *)
(* models of sessions take for granted: a queue of messages in each        *)
(* direction.  Messages arrive whole and in order; when an end is closed,  *)
(* the last ones on their way may be lost.                                 *)
(***************************************************************************)
EXTENDS Naturals, Sequences

CONSTANTS Message, Null

Direction == {"request", "reply"}
End == {"program", "daemon"}

VARIABLES
  queue,  \* messages on their way in each direction
  inbox,  \* the message that was received last, while it is handled, or Null
  open    \* the ends that are open

channelVars == <<queue, inbox, open>>

ChannelInit ==
  /\ queue = [d \in Direction |-> <<>>]
  /\ inbox = [d \in Direction |-> Null]
  /\ open = End

Send(d, m) == queue' = [queue EXCEPT ![d] = Append(@, m)] /\ UNCHANGED <<inbox, open>>

Deliver(d) ==
  /\ queue[d] # <<>> /\ inbox[d] = Null
  /\ inbox' = [inbox EXCEPT ![d] = Head(queue[d])]
  /\ queue' = [queue EXCEPT ![d] = Tail(@)]
  /\ UNCHANGED open

\* A message was handled, perhaps by a reply.
Handle(d) ==
  /\ inbox[d] # Null
  /\ inbox' = [inbox EXCEPT ![d] = Null]
  /\ \/ UNCHANGED queue
     \/ d = "request" /\ \E m \in Message : queue' = [queue EXCEPT !["reply"] = Append(@, m)]
  /\ UNCHANGED open

\* An end is closed, or was: what is on its way may be cut short.
Close ==
  /\ open' \subseteq open /\ open' # End
  /\ \A d \in Direction : (\E n \in 0..Len(queue[d]) : queue'[d] = SubSeq(queue[d], 1, n)) /\ inbox'[d] \in {inbox[d], Null}

ChannelNext ==
  \/ \E d \in Direction : Deliver(d) \/ Handle(d) \/ \E m \in Message : Send(d, m)
  \/ Close

ChannelSpec == ChannelInit /\ [][ChannelNext]_channelVars
=============================================================================
