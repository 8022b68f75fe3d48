------------------------------- MODULE RedisBus -------------------------------
(***************************************************************************)
(* The message bus inside one process (data_pipeline/redis_publisher.py):  *)
(* one connection to Redis for all subscribers, a dispatcher that copies   *)
(* each message to the queue of every handle of its channel.               *)
(*                                                                         *)
(* Redis keeps the order of a channel and delivers to the connection what  *)
(* is published after it subscribed.  A message is its number.             *)
(***************************************************************************)
EXTENDS Integers, Sequences, SequencesExt

CONSTANTS
    Channels,
    Handles,            \* subscribers, in the order of their names
    Wants,              \* the channels each of them asks for
    HandleCapacity,     \* maxsize of the queue of a handle (256)
    MaxSent             \* bound: messages published

ASSUME BusAssumption ==
    /\ \A h \in Handles : Wants[h] \subseteq Channels
    /\ HandleCapacity \in Nat /\ MaxSent \in Nat

VARIABLES
    remote,     \* channels Redis has subscribed the connection to
    incoming,   \* messages on their way to the dispatcher
    registered, \* _subscribers: the handles of each channel, in order; a key
                \* exists when its channel is in `keys`
    keys,
    queue,      \* the queue of each handle
    got,        \* history: what each handle has been given, read or not
    missed,     \* history: what each handle lost because its queue was full
    published,  \* history: [channel, id] in the order of publishing
    since,      \* history: messages published when the handle was returned, Never
                \* before it is asked for, Lost when the caller got an exception
    dispatcher, \* "none", "running", "over"
    cut         \* the connection has failed under the dispatcher

busVars == <<remote, incoming, registered, keys, queue, got, missed, published,
             since, dispatcher, cut>>

Never == -1
Lost == -2

BusInit ==
    /\ remote = {} /\ incoming = <<>> /\ keys = {}
    /\ registered = [ch \in Channels |-> <<>>]
    /\ queue = [h \in Handles |-> <<>>]
    /\ got = [h \in Handles |-> <<>>]
    /\ missed = [h \in Handles |-> {}]
    /\ published = <<>>
    /\ since = [h \in Handles |-> Never]
    /\ dispatcher = "none"
    /\ cut = FALSE

\* subscribe, under the lock it shares with the dispatcher: the handle is
\* registered first, and only channels new to the dictionary go to Redis.
Replaces(h) == [ch \in Channels |-> IF ch \in Wants[h] THEN <<h>> ELSE registered[ch]]  \* mutant
Registered(h) == [ch \in Channels |-> IF ch \in Wants[h] THEN Append(registered[ch], h)
                                      ELSE registered[ch]]
NewChannels(h) == Wants[h] \ keys

Subscribe(h) ==
    /\ since[h] = Never
    /\ registered' = Registered(h)
    /\ keys' = keys \cup Wants[h]
    /\ remote' = remote \cup NewChannels(h)
    /\ since' = [since EXCEPT ![h] = Len(published)]
    /\ dispatcher' = "running"
    /\ UNCHANGED <<incoming, queue, got, missed, published, cut>>

\* The call to Redis raises: the handle stays registered but nobody has it.
SubscribeFails(h) ==
    /\ since[h] = Never
    /\ NewChannels(h) # {}
    /\ registered' = Registered(h)
    /\ keys' = keys \cup Wants[h]
    /\ since' = [since EXCEPT ![h] = Lost]
    /\ UNCHANGED <<remote, incoming, queue, got, missed, published, dispatcher, cut>>

Publish(ch) ==
    /\ Len(published) < MaxSent
    /\ LET msg == [channel |-> ch, id |-> Len(published) + 1]
       IN  /\ published' = Append(published, msg)
           /\ incoming' = IF ch \in remote THEN Append(incoming, msg) ELSE incoming
    /\ UNCHANGED <<remote, registered, keys, queue, got, missed, since, dispatcher, cut>>

\* One message to every handle of its channel; a full queue drops it.
Full(h) == Len(queue[h]) >= HandleCapacity
Dispatch ==
    /\ dispatcher = "running"
    /\ incoming # <<>>
    /\ LET msg == Head(incoming)
           To(h) == h \in ToSet(registered[msg.channel])
       IN  /\ queue' = [h \in Handles |-> IF To(h) /\ ~Full(h) THEN Append(queue[h], msg) ELSE queue[h]]
           /\ got' = [h \in Handles |-> IF To(h) /\ ~Full(h) THEN Append(got[h], msg) ELSE got[h]]
           /\ missed' = [h \in Handles |-> IF To(h) /\ Full(h) THEN missed[h] \cup {msg} ELSE missed[h]]
    /\ incoming' = Tail(incoming)
    /\ UNCHANGED <<remote, registered, keys, published, since, dispatcher, cut>>

\* Reading from the connection raises and the loop ends, until somebody subscribes
\* again; what was on its way may be gone.
DispatcherDies ==
    /\ dispatcher = "running"
    /\ dispatcher' = "over"
    /\ cut' = TRUE
    /\ incoming' \in {incoming, <<>>}
    /\ UNCHANGED <<remote, registered, keys, queue, got, missed, published, since>>

Take(h) ==
    /\ queue[h] # <<>>
    /\ queue' = [queue EXCEPT ![h] = Tail(@)]
    /\ UNCHANGED <<remote, incoming, registered, keys, got, missed, published, since, dispatcher, cut>>

BusNext ==
    \/ \E h \in Handles : Subscribe(h) \/ SubscribeFails(h) \/ Take(h)
    \/ \E ch \in Channels : Publish(ch)
    \/ Dispatch
    \/ DispatcherDies

(***************************************************************************)
(* Properties                                                              *)
(***************************************************************************)

\* What a handle should have by now: what was published on its channels since
\* it was returned, less what is still on its way and what its full queue lost.
Heard(h) == Wants[h] \cap remote
Owed(h) == {m \in ToSet(published) : /\ m.id > since[h] /\ m.channel \in Heard(h)
                                     /\ m \notin ToSet(incoming) \cup missed[h]}
Given(h) == {m \in ToSet(got[h]) : m.id > since[h]}

\* A handle is given the messages of its channels in the order of publishing,
\* each once, and loses one only to its own full queue, whoever else subscribes,
\* fails to subscribe or is slow, until the connection itself fails
\* (redis_publisher.py:135-196).
DeliveredInOrder == \A h \in Handles :
    /\ \A i, j \in DOMAIN got[h] : i < j => got[h][i].id < got[h][j].id
    /\ ~cut /\ since[h] >= 0 => Given(h) = Owed(h)

\* A message is in the box of a handle from when it is published: on its way to
\* the dispatcher, then in the handle's queue.
Underway(h) == {m \in ToSet(incoming) : h \in ToSet(registered[m.channel])}

Joined == {h \in Handles : since[h] # Never}
Box == [h \in Handles |-> ToSet(queue[h]) \cup Underway(h)]

Boxes == INSTANCE Mailboxes WITH
    Capacity <- HandleCapacity, sent <- Len(published), open <- remote, joined <- Joined, box <- Box

\* The connection that all handles share, the dispatcher and its bounded queues
\* act as one mailbox per handle into which a message is put when it is published
\* (redis_publisher.py:68-76, 135-196).
ImplementsMailboxes == Boxes!Spec
=============================================================================
