------------------------------ MODULE Mailboxes ------------------------------
(***************************************************************************)
(* What the bus promises a subscriber, whatever happens between Redis and  *)
(* its queue: sending a message puts it into the boxes of all who want it  *)
(* at once, a box is emptied from its oldest message on, and a message is  *)
(* lost only behind a full box or with everything newer.                   *)
(***************************************************************************)
EXTENDS Integers, FiniteSets

CONSTANTS Channels, Handles, Wants, Capacity

VARIABLES
  sent,    \* how many messages were sent; a message has its number
  open,    \* the channels that are listened to
  joined,  \* the subscribers that have a box
  box      \* the messages in each box

vars == <<sent, open, joined, box>>

Message(ch) == [channel |-> ch, id |-> sent + 1]

Older(h, m) == {n \in box[h] : n.id < m.id}

\* A subscriber may find what was on its way to others when it came.
Join(h) ==
  /\ h \notin joined
  /\ joined' = joined \cup {h}
  /\ \E more \in SUBSET Wants[h] : open' = open \cup more
  /\ \E early \in SUBSET [channel : Wants[h] \cap open, id : 1 .. sent] :
       box' = [box EXCEPT ![h] = early]
  /\ UNCHANGED sent

Send(ch) ==
  /\ sent' = sent + 1
  /\ box' = [h \in Handles |-> IF h \in joined /\ ch \in Wants[h] \cap open
                               THEN box[h] \cup {Message(ch)} ELSE box[h]]
  /\ UNCHANGED <<open, joined>>

Take(h) ==
  /\ \E m \in box[h] : Older(h, m) = {} /\ box' = [box EXCEPT ![h] = @ \ {m}]
  /\ UNCHANGED <<sent, open, joined>>

\* The same message may find several boxes full.
Drop ==
  /\ \E m \in [channel : Channels, id : 1 .. sent], full \in SUBSET Handles :
       /\ \A h \in full : m \in box[h] /\ Cardinality(Older(h, m)) >= Capacity
       /\ box' = [h \in Handles |-> IF h \in full THEN box[h] \ {m} ELSE box[h]]
  /\ UNCHANGED <<sent, open, joined>>

\* The connection fails: what was sent last is gone, for everybody.
Fail ==
  /\ \E last \in 0 .. sent : box' = [h \in Handles |-> {m \in box[h] : m.id <= last}]
  /\ UNCHANGED <<sent, open, joined>>

Init ==
  /\ sent = 0
  /\ open = {}
  /\ joined = {}
  /\ box = [h \in Handles |-> {}]

Next ==
  \/ \E h \in Handles : Join(h) \/ Take(h)
  \/ \E ch \in Channels : Send(ch)
  \/ Drop \/ Fail

Spec == Init /\ [][Next]_vars

=============================================================================
