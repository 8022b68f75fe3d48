----------------------------- MODULE WsConnections -----------------------------
(***************************************************************************)
(* The websocket connections of the API and the relay that sends them what *)
(* the bus publishes (api/websocket_handler.py).                           *)
(*                                                                         *)
(* Each client's handler is a coroutine: it is let in by the rate limiter, *)
(* authenticates, is registered, serves its client and is removed; the     *)
(* relay sends to a copy of the list, and clients come and go meanwhile.   *)
(***************************************************************************)
EXTENDS Integers, Sequences, FiniteSets, SequencesExt

CONSTANTS
    Clients,            \* sockets
    IpOf,               \* client.host, or Unknown
    Users,              \* user ids a token may carry
    MaxPerIp            \* WS_MAX_CONNECTIONS_PER_IP

ASSUME ClientsAssumption == IsFiniteSet(Clients) /\ MaxPerIp \in Nat

VARIABLES
    handler,    \* what each client's handler does: "out", "auth", "serving", "over"
    listed,     \* _connections
    ipOf,       \* _connection_ips: the clients it holds
    userOf,     \* _connection_users: the user of each client, or NoUser
    ofUser,     \* _user_connections
    perIp,      \* _ip_counts
    targets,    \* clients the relay has still to send its message to
    dead        \* clients the relay could not send it to

wsVars == <<handler, listed, ipOf, userOf, ofUser, perIp, targets, dead>>

NoUser == "none"
Unknown == "unknown"
Ips == {IpOf[c] : c \in Clients} \ {Unknown}

WsInit ==
    /\ handler = [c \in Clients |-> "out"]
    /\ listed = {} /\ ipOf = {}
    /\ userOf = [c \in Clients |-> NoUser]
    /\ ofUser = [u \in Users |-> {}]
    /\ perIp = [ip \in Ips |-> 0]
    /\ targets = {} /\ dead = {}

At(c, from, to) == handler[c] = from /\ handler' = [handler EXCEPT ![c] = to]

\* The rate limiter lets the client in, or its socket is closed.
Let(c) == /\ At(c, "out", "auth")
          /\ UNCHANGED <<listed, ipOf, userOf, ofUser, perIp, targets, dead>>
Close(c) == /\ At(c, "auth", "over")
            /\ UNCHANGED <<listed, ipOf, userOf, ofUser, perIp, targets, dead>>

\* connect, under the lock: the count of the address is checked and raised
\* with the registration; a client without an address is not counted.
Connect(c, u) ==
    /\ IpOf[c] # Unknown => perIp[IpOf[c]] < MaxPerIp
    /\ At(c, "auth", "serving")
    /\ listed' = listed \cup {c}
    /\ ipOf' = ipOf \cup {c}
    /\ userOf' = [userOf EXCEPT ![c] = u]
    /\ ofUser' = IF u = NoUser THEN ofUser ELSE [ofUser EXCEPT ![u] = @ \cup {c}]
    /\ perIp' = IF IpOf[c] = Unknown THEN perIp ELSE [perIp EXCEPT ![IpOf[c]] = @ + 1]
    /\ UNCHANGED <<targets, dead>>

\* The client sends a token of another user: only one of the two books learns.
Reauthenticate(c, u) ==
    /\ handler[c] = "serving"
    /\ userOf' = [userOf EXCEPT ![c] = u]
    /\ UNCHANGED <<handler, listed, ipOf, ofUser, perIp, targets, dead>>

\* The place of a client that leaves.
FreedIfListed(c) == IF c \in listed /\ IpOf[c] # Unknown       \* mutant
                    THEN [perIp EXCEPT ![IpOf[c]] = @ - 1] ELSE perIp
Freed(c) == IF c \in ipOf /\ IpOf[c] # Unknown
            THEN [perIp EXCEPT ![IpOf[c]] = IF @ > 0 THEN @ - 1 ELSE 0] ELSE perIp

\* disconnect, whether or not the relay had taken the client off its list.
Disconnect(c) ==
    /\ At(c, "serving", "over")
    /\ listed' = listed \ {c}
    /\ ipOf' = ipOf \ {c}
    /\ userOf' = [userOf EXCEPT ![c] = NoUser]
    /\ ofUser' = IF userOf[c] = NoUser THEN ofUser ELSE [ofUser EXCEPT ![userOf[c]] = @ \ {c}]
    /\ perIp' = Freed(c)
    /\ UNCHANGED <<targets, dead>>

\* broadcast and send_to_user: a copy of the list, one send at a time, each with
\* a timeout; then the dead ones leave the list.
StartSending(to) ==
    /\ targets = {} /\ dead = {} /\ to # {}
    /\ targets' = to
    /\ UNCHANGED <<handler, listed, ipOf, userOf, ofUser, perIp, dead>>

Send(c) ==
    /\ c \in targets
    /\ targets' = targets \ {c}
    /\ dead' \in {dead, dead \cup {c}}
    /\ UNCHANGED <<handler, listed, ipOf, userOf, ofUser, perIp>>

RemoveDead ==
    /\ targets = {} /\ dead # {}
    /\ listed' = listed \ dead
    /\ dead' = {}
    /\ UNCHANGED <<handler, ipOf, userOf, ofUser, perIp, targets>>

WsNext ==
    \/ \E c \in Clients :
        \/ Let(c) \/ Close(c) \/ Disconnect(c) \/ Send(c)
        \/ \E u \in Users \cup {NoUser} : Connect(c, u)
        \/ \E u \in Users : Reauthenticate(c, u)
    \/ StartSending(listed)
    \/ \E u \in Users : StartSending(listed \cap ofUser[u])
    \/ RemoveDead

(***************************************************************************)
(* Properties                                                              *)
(***************************************************************************)

\* The places of an address are taken exactly by the handlers that serve its
\* clients, also those the relay has given up, so the limit neither leaks nor
\* is exceeded (websocket_handler.py:121-202).
PlacesExact ==
    \A ip \in Ips :
        /\ perIp[ip] = Cardinality({c \in Clients : IpOf[c] = ip /\ handler[c] = "serving"})
        /\ perIp[ip] <= MaxPerIp
=============================================================================
