--------------------------- MODULE Services_proofs ---------------------------
(***************************************************************************)
(* Proofs about the services around the agents: the places of websocket    *)
(* connections, the request limits, the sizing of trades, the fills of the *)
(* paper account, the message bus, the reconciliation with the broker, the *)
(* expiry calendar and what is learnt from backtests.                      *)
(* Each part has an invariant of its own.                                  *)
(***************************************************************************)
EXTENDS WsConnections, RateLimiter, RiskSizing, PaperFills, RedisBus, Reconciler, Expiry,
        Learning, Numbers_proofs, SequenceTheorems

-----------------------------------------------------------------------------
(* The places of websocket connections: for any clients and addresses, however *)
(* the relay's sends and clients that leave interleave.                      *)

\* The clients of an address whose handler serves them.
Served(ip) == {c \in Clients : IpOf[c] = ip /\ handler[c] = "serving"}

\* Why the places are exact: _connection_ips holds the clients that are served,
\* whatever became of _connections, so that a place is given back once.
PlacesInv ==
    /\ handler \in [Clients -> {"out", "auth", "serving", "over"}]
    /\ ipOf = {c \in Clients : handler[c] = "serving"}
    /\ perIp \in [Ips -> Nat]
    /\ \A ip \in Ips : perIp[ip] = Cardinality(Served(ip)) /\ perIp[ip] <= MaxPerIp

LEMMA ServedFinite ==
    ASSUME NEW ip
    PROVE  IsFiniteSet(Served(ip)) /\ Cardinality(Served(ip)) \in Nat
<1>1. Served(ip) \in SUBSET Clients
    BY DEF Served
<1>2. IsFiniteSet(Served(ip))
    BY <1>1, FS_Subset, ClientsAssumption
<1> QED BY <1>2, FS_CardinalityType

LEMMA InitPlaces ==
    ASSUME WsInit
    PROVE  PlacesInv
<1>1. \A ip \in Ips : Served(ip) = {}
    BY DEF WsInit, Served
<1>2. Cardinality({}) = 0
    BY FS_EmptySet
<1>3. \A ip \in Ips : perIp[ip] = Cardinality(Served(ip)) /\ perIp[ip] <= MaxPerIp
    BY <1>1, <1>2, ClientsAssumption DEF WsInit
<1>4. perIp \in [Ips -> Nat]
    BY DEF WsInit
<1> QED BY <1>3, <1>4 DEF PlacesInv, WsInit

(* A step that starts or ends no service. *)
LEMMA ServiceStays ==
    ASSUME PlacesInv, UNCHANGED <<ipOf, perIp>>,
           handler' \in [Clients -> {"out", "auth", "serving", "over"}],
           \A c \in Clients : handler'[c] = "serving" <=> handler[c] = "serving"
    PROVE  PlacesInv'
<1>1. \A ip \in Ips : Served(ip)' = Served(ip)
    BY DEF Served
<1>2. ipOf' = {c \in Clients : handler'[c] = "serving"}
    BY DEF PlacesInv
<1> QED BY <1>1, <1>2 DEF PlacesInv, Ips

LEMMA ConnectKeeps ==
    ASSUME PlacesInv, NEW c \in Clients, NEW u, Connect(c, u)
    PROVE  PlacesInv'
<1> DEFINE a == IpOf[c]
<1>1. /\ handler[c] = "auth" /\ handler' = [handler EXCEPT ![c] = "serving"]
      /\ ipOf' = ipOf \cup {c}
    BY DEF Connect, At
\* A client without an address takes no place.
<1>0. CASE a = Unknown
    <2>1. \A ip \in Ips : ip # a /\ Served(ip)' = Served(ip)
        BY <1>0, <1>1 DEF Ips, Served, PlacesInv
    <2>2. perIp' = perIp
        BY <1>0 DEF Connect
    <2>3. /\ ipOf' = {d \in Clients : handler'[d] = "serving"}
          /\ handler' \in [Clients -> {"out", "auth", "serving", "over"}]
        BY <1>1 DEF PlacesInv
    <2> QED BY <2>1, <2>2, <2>3 DEF PlacesInv, Ips
<1> SUFFICES ASSUME a # Unknown PROVE PlacesInv'
    BY <1>0
<1>a. perIp' = [perIp EXCEPT ![a] = @ + 1] /\ perIp[a] < MaxPerIp
    BY DEF Connect
<1>2. a \in Ips
    BY DEF Ips
<1>3. Served(a)' = Served(a) \cup {c} /\ c \notin Served(a)
    BY <1>1 DEF Served, PlacesInv
<1>4. \A ip \in Ips \ {a} : Served(ip)' = Served(ip)
    BY <1>1 DEF Served, PlacesInv
<1>5. Cardinality(Served(a)') = Cardinality(Served(a)) + 1
    BY <1>3, ServedFinite, FS_AddElement
<1>6. perIp' \in [Ips -> Nat] /\ perIp'[a] = perIp[a] + 1
      /\ \A ip \in Ips \ {a} : perIp'[ip] = perIp[ip]
    BY <1>a, <1>2 DEF PlacesInv
<1>7. \A ip \in Ips : perIp'[ip] = Cardinality(Served(ip)') /\ perIp'[ip] <= MaxPerIp
    <2> HIDE DEF a
    <2>1. perIp'[a] = Cardinality(Served(a)')
        BY <1>2, <1>5, <1>6 DEF PlacesInv
    <2>2. perIp'[a] <= MaxPerIp
        BY <1>a, <1>2, <1>6, ClientsAssumption DEF PlacesInv
    <2> QED BY <1>4, <1>6, <2>1, <2>2 DEF PlacesInv
<1>8. ipOf' = {d \in Clients : handler'[d] = "serving"}
    BY <1>1 DEF PlacesInv
<1>9. handler' \in [Clients -> {"out", "auth", "serving", "over"}]
    BY <1>1 DEF PlacesInv
<1> QED BY <1>6, <1>7, <1>8, <1>9 DEF PlacesInv, Ips

LEMMA DisconnectKeeps ==
    ASSUME PlacesInv, NEW c \in Clients, Disconnect(c)
    PROVE  PlacesInv'
<1> DEFINE a == IpOf[c]
<1>1. /\ handler[c] = "serving" /\ handler' = [handler EXCEPT ![c] = "over"]
      /\ ipOf' = ipOf \ {c} /\ c \in ipOf
    BY DEF Disconnect, At, PlacesInv
<1>0. CASE a = Unknown
    <2>1. \A ip \in Ips : ip # a /\ Served(ip)' = Served(ip)
        BY <1>0, <1>1 DEF Ips, Served, PlacesInv
    <2>2. perIp' = perIp
        BY <1>0 DEF Disconnect, Freed
    <2>3. /\ ipOf' = {d \in Clients : handler'[d] = "serving"}
          /\ handler' \in [Clients -> {"out", "auth", "serving", "over"}]
        BY <1>1 DEF PlacesInv
    <2> QED BY <2>1, <2>2, <2>3 DEF PlacesInv, Ips
<1> SUFFICES ASSUME a # Unknown PROVE PlacesInv'
    BY <1>0
<1>2. a \in Ips
    BY DEF Ips
<1>3. Served(a)' = Served(a) \ {c} /\ c \in Served(a)
    BY <1>1 DEF Served, PlacesInv
<1>4. \A ip \in Ips \ {a} : Served(ip)' = Served(ip)
    BY <1>1 DEF Served, PlacesInv
<1>5. Cardinality(Served(a)') = Cardinality(Served(a)) - 1
    BY <1>3, ServedFinite, FS_RemoveElement
<1>6. Cardinality(Served(a)) > 0
    <2>1. Served(a) # {} /\ IsFiniteSet(Served(a)) /\ Cardinality(Served(a)) \in Nat
        BY <1>3, ServedFinite
    <2> QED BY <2>1, FS_EmptySet
<1>7. perIp[a] > 0 /\ perIp[a] \in Nat
    <2> HIDE DEF a
    <2> QED BY <1>2, <1>6 DEF PlacesInv
<1>8. perIp' = [perIp EXCEPT ![a] = perIp[a] - 1]
    BY <1>1, <1>7 DEF Disconnect, Freed
<1>9. perIp' \in [Ips -> Nat] /\ perIp'[a] = perIp[a] - 1
      /\ \A ip \in Ips \ {a} : perIp'[ip] = perIp[ip]
    <2> HIDE DEF a
    <2> QED BY <1>2, <1>7, <1>8 DEF PlacesInv
<1>10. \A ip \in Ips : perIp'[ip] = Cardinality(Served(ip)') /\ perIp'[ip] <= MaxPerIp
    <2> HIDE DEF a
    <2>1. perIp'[a] = Cardinality(Served(a)')
        BY <1>2, <1>5, <1>9 DEF PlacesInv
    <2>2. perIp'[a] <= MaxPerIp
        BY <1>2, <1>7, <1>9, ClientsAssumption DEF PlacesInv
    <2> QED BY <1>4, <1>9, <2>1, <2>2 DEF PlacesInv
<1>11. ipOf' = {d \in Clients : handler'[d] = "serving"}
    BY <1>1 DEF PlacesInv
<1>12. handler' \in [Clients -> {"out", "auth", "serving", "over"}]
    BY <1>1 DEF PlacesInv
<1> QED BY <1>9, <1>10, <1>11, <1>12 DEF PlacesInv, Ips

LEMMA NextKeepsPlaces ==
    ASSUME PlacesInv, [WsNext]_wsVars
    PROVE  PlacesInv'
<1>1. ASSUME NEW c \in Clients, Let(c) \/ Close(c) PROVE PlacesInv'
    BY <1>1, ServiceStays DEF Let, Close, At, PlacesInv
<1>2. ASSUME NEW c \in Clients, NEW u, Connect(c, u) PROVE PlacesInv'
    BY <1>2, ConnectKeeps
<1>3. ASSUME NEW c \in Clients, Disconnect(c) PROVE PlacesInv'
    BY <1>3, DisconnectKeeps
<1>4. ASSUME UNCHANGED <<handler, ipOf, perIp>> PROVE PlacesInv'
    BY <1>4, ServiceStays DEF PlacesInv
<1>5. ASSUME NEW c \in Clients, Send(c) PROVE PlacesInv'
    BY <1>4, <1>5 DEF Send
<1>6. ASSUME NEW c \in Clients, NEW u, Reauthenticate(c, u) PROVE PlacesInv'
    BY <1>4, <1>6 DEF Reauthenticate
<1>7. ASSUME NEW to, StartSending(to) PROVE PlacesInv'
    BY <1>4, <1>7 DEF StartSending
<1>8. CASE RemoveDead
    BY <1>4, <1>8 DEF RemoveDead
<1>9. CASE UNCHANGED wsVars
    BY <1>4, <1>9 DEF wsVars
<1> QED BY <1>1, <1>2, <1>3, <1>5, <1>6, <1>7, <1>8, <1>9 DEF WsNext

\* Places are taken exactly by the handlers that serve an address's clients and
\* never more than the limit, for any clients, addresses and limit.
THEOREM PlacesAlwaysExact == WsInit /\ [][WsNext]_wsVars => []PlacesExact
<1>1. WsInit => PlacesInv
    BY InitPlaces
<1>2. PlacesInv /\ [WsNext]_wsVars => PlacesInv'
    BY NextKeepsPlaces
<1>3. PlacesInv => PlacesExact
    BY DEF PlacesInv, PlacesExact, Served
<1> QED BY <1>1, <1>2, <1>3, PTL

-----------------------------------------------------------------------------
(* The request limits.  Of one key and tier: a holds the seconds of the      *)
(* requests that were allowed, w is its window, R and W the limit.           *)

Between(a, t, u) == {i \in DOMAIN a : t <= a[i] /\ a[i] <= u}
HowMany(a, t, u) == Cardinality(Between(a, t, u))

\* Why twice the limit is never exceeded: windows are disjoint and further apart
\* than their length, so that the requests less than its length before a window
\* are of the window before, and as many as the limit.
Kept(a, w, now, R, W) ==
    /\ \A i \in DOMAIN a : a[i] <= now
    /\ w = NoWindow => \A i \in DOMAIN a : a[i] + W < now
    /\ w # NoWindow => /\ 0 < w.count /\ w.count <= R /\ w.start <= now
                       /\ \A i \in DOMAIN a : a[i] <= w.start + W
                       /\ HowMany(a, w.start, w.start + W) <= w.count
                       /\ HowMany(a, w.start - W, w.start - 1) <= R
    /\ \A t \in Int : HowMany(a, t, t + W) <= 2 * R

Windows == [count : Nat, start : Nat]

LEMMA FinitePart ==
    ASSUME NEW T, NEW a \in Seq(T), NEW S \in SUBSET DOMAIN a
    PROVE  IsFiniteSet(S) /\ Cardinality(S) \in Nat
<1>1. DOMAIN a = 1 .. Len(a) /\ Len(a) \in Int /\ 1 \in Int
    OBVIOUS
<1>2. IsFiniteSet(1 .. Len(a))
    BY <1>1, FS_Interval
<1>3. IsFiniteSet(S)
    BY <1>1, <1>2, FS_Subset
<1> QED BY <1>3, FS_CardinalityType

LEMMA CountType ==
    ASSUME NEW a \in Seq(Nat), NEW t, NEW u
    PROVE  HowMany(a, t, u) \in Nat
<1>1. Between(a, t, u) \in SUBSET DOMAIN a
    BY DEF Between
<1> QED BY <1>1, FinitePart DEF HowMany

LEMMA CountAppend ==
    ASSUME NEW a \in Seq(Nat), NEW now \in Nat, NEW t \in Int, NEW u \in Int
    PROVE  HowMany(Append(a, now), t, u) =
                HowMany(a, t, u) + (IF t <= now /\ now <= u THEN 1 ELSE 0)
<1> DEFINE b == Append(a, now)
           n == Len(a) + 1
<1>1. DOMAIN b = DOMAIN a \cup {n} /\ n \notin DOMAIN a
    OBVIOUS
<1>2. b[n] = now /\ \A i \in DOMAIN a : b[i] = a[i]
    OBVIOUS
<1>3. Between(a, t, u) \in SUBSET DOMAIN a
    BY DEF Between
<1>4. IsFiniteSet(Between(a, t, u)) /\ Cardinality(Between(a, t, u)) \in Nat
    BY <1>3, FinitePart
<1>5. n \notin Between(a, t, u)
    BY <1>1, <1>3
<1>6. Cardinality(Between(a, t, u) \cup {n}) = Cardinality(Between(a, t, u)) + 1
    BY <1>4, <1>5, FS_AddElement
<1> HIDE DEF b, n
<1>7. CASE t <= now /\ now <= u
    <2>1. Between(b, t, u) = Between(a, t, u) \cup {n}
        BY <1>1, <1>2, <1>7 DEF Between
    <2> QED BY <1>6, <1>7, <2>1 DEF HowMany, b
<1>8. CASE ~(t <= now /\ now <= u)
    <2>1. Between(b, t, u) = Between(a, t, u)
        BY <1>1, <1>2, <1>8 DEF Between
    <2> QED BY <1>4, <1>8, <2>1 DEF HowMany, b
<1> QED BY <1>7, <1>8

LEMMA CountNone ==
    ASSUME NEW a \in Seq(Nat), NEW t, NEW u, \A i \in DOMAIN a : ~(t <= a[i] /\ a[i] <= u)
    PROVE  HowMany(a, t, u) = 0
<1>1. Between(a, t, u) = {}
    BY DEF Between
<1> QED BY <1>1, FS_EmptySet DEF HowMany

LEMMA CountWithin ==
    ASSUME NEW a \in Seq(Nat), NEW t, NEW u, NEW s, NEW v,
           \A i \in DOMAIN a : t <= a[i] /\ a[i] <= u => s <= a[i] /\ a[i] <= v
    PROVE  HowMany(a, t, u) <= HowMany(a, s, v)
<1>1. Between(a, t, u) \in SUBSET Between(a, s, v) /\ Between(a, s, v) \in SUBSET DOMAIN a
    BY DEF Between
<1> QED BY <1>1, FinitePart, FS_Subset DEF HowMany

LEMMA CountSplit ==
    ASSUME NEW a \in Seq(Nat), NEW t \in Int, NEW u, NEW s \in Int, NEW v, NEW m \in Int,
           \A i \in DOMAIN a : t <= a[i] /\ a[i] <= u => s <= a[i] /\ a[i] <= v
    PROVE  HowMany(a, t, u) <= HowMany(a, s, m - 1) + HowMany(a, m, v)
<1> DEFINE S == Between(a, s, m - 1)
           T == Between(a, m, v)
           U == Between(a, t, u)
<1>1. S \in SUBSET DOMAIN a /\ T \in SUBSET DOMAIN a /\ U \in SUBSET (S \cup T)
    <2>1. \A i \in DOMAIN a : a[i] \in Int
        OBVIOUS
    <2>2. \A i \in DOMAIN a : a[i] <= m - 1 \/ m <= a[i]
        BY <2>1
    <2> QED BY <2>2 DEF Between
<1> HIDE DEF S, T, U
<1>2. /\ IsFiniteSet(S) /\ IsFiniteSet(T) /\ IsFiniteSet(S \cup T) /\ IsFiniteSet(S \cap T)
      /\ Cardinality(S \cap T) \in Nat /\ Cardinality(S) \in Nat /\ Cardinality(T) \in Nat
    <2>1. S \cup T \in SUBSET DOMAIN a /\ S \cap T \in SUBSET DOMAIN a
        BY <1>1
    <2> QED BY <1>1, <2>1, FinitePart
<1>3. Cardinality(S \cup T) = Cardinality(S) + Cardinality(T) - Cardinality(S \cap T)
    BY <1>2, FS_Union
<1>4. Cardinality(U) <= Cardinality(S \cup T) /\ IsFiniteSet(U)
    BY <1>1, <1>2, FS_Subset
<1>5. Cardinality(U) \in Nat
    BY <1>4, FS_CardinalityType
<1>6. Cardinality(U) <= Cardinality(S) + Cardinality(T)
    BY <1>2, <1>3, <1>4, <1>5
<1> QED BY <1>6 DEF HowMany, S, T, U

\* A request opens a new window, the old one being over or none.
LEMMA WindowOpens ==
    ASSUME NEW a \in Seq(Nat), NEW w \in Windows, NEW now \in Nat, NEW R \in Nat \ {0}, NEW W \in Nat,
           Kept(a, w, now, R, W), w = NoWindow \/ now - w.start > W
    PROVE  Kept(Append(a, now), [count |-> 1, start |-> now], now, R, W)
<1> DEFINE b == Append(a, now)
<1>1. \A i \in DOMAIN a : a[i] \in Nat /\ a[i] < now
    <2>1. \A i \in DOMAIN a : a[i] \in Nat
        OBVIOUS
    <2>2. CASE w = NoWindow
        BY <2>1, <2>2 DEF Kept
    <2>3. CASE w # NoWindow
        <3>1. w.start \in Nat /\ \A i \in DOMAIN a : a[i] <= w.start + W
            BY <2>3 DEF Kept, Windows
        <3> QED BY <2>1, <2>3, <3>1
    <2> QED BY <2>2, <2>3
<1>2. \A i \in DOMAIN b : b[i] <= now /\ b[i] <= now + W
    <2>1. \A i \in DOMAIN b : (i \in DOMAIN a /\ b[i] = a[i]) \/ b[i] = now
        OBVIOUS
    <2> HIDE DEF b
    <2> QED BY <1>1, <2>1
\* What was allowed less than a window ago is of the old window.
<1>3. HowMany(a, now - W, now) <= R
    <2>1. CASE w = NoWindow
        <3>1. \A i \in DOMAIN a : ~(now - W <= a[i] /\ a[i] <= now)
            BY <1>1, <2>1 DEF Kept
        <3> QED BY <3>1, CountNone
    <2>2. CASE w # NoWindow
        <3>1. /\ w.start \in Nat /\ \A i \in DOMAIN a : a[i] <= w.start + W
              /\ w.count \in Nat /\ w.count <= R /\ HowMany(a, w.start, w.start + W) <= w.count
            BY <2>2 DEF Kept, Windows
        <3>2. \A i \in DOMAIN a : now - W <= a[i] /\ a[i] <= now => w.start <= a[i] /\ a[i] <= w.start + W
            BY <1>1, <2>2, <3>1
        <3>3. HowMany(a, now - W, now) <= HowMany(a, w.start, w.start + W)
            BY <3>2, CountWithin
        <3>4. HowMany(a, now - W, now) \in Nat /\ HowMany(a, w.start, w.start + W) \in Nat
            BY CountType
        <3> QED BY <3>1, <3>3, <3>4
    <2> QED BY <2>1, <2>2
<1>4. HowMany(b, now, now + W) <= 1
    <2>1. HowMany(a, now, now + W) = 0
        BY <1>1, CountNone
    <2> QED BY <2>1, CountAppend
<1>5. HowMany(b, now - W, now - 1) <= R
    <2>1. HowMany(b, now - W, now - 1) = HowMany(a, now - W, now - 1) + 0
        BY CountAppend
    <2>2. HowMany(a, now - W, now - 1) <= HowMany(a, now - W, now)
        BY <1>1, CountWithin
    <2>3. HowMany(a, now - W, now - 1) \in Nat /\ HowMany(a, now - W, now) \in Nat
        BY CountType
    <2> QED BY <1>3, <2>1, <2>2, <2>3
<1>6. ASSUME NEW t \in Int PROVE HowMany(b, t, t + W) <= 2 * R
    <2>1. HowMany(a, t, t + W) \in Nat /\ HowMany(a, t, t + W) <= 2 * R
        BY CountType DEF Kept
    <2>2. CASE ~(t <= now /\ now <= t + W)
        <3>1. HowMany(b, t, t + W) = HowMany(a, t, t + W) + 0
            BY <2>2, CountAppend
        <3> QED BY <2>1, <3>1
    <2>3. CASE t <= now /\ now <= t + W
        <3>1. HowMany(b, t, t + W) = HowMany(a, t, t + W) + 1
            BY <2>3, CountAppend
        <3>2. \A i \in DOMAIN a : t <= a[i] /\ a[i] <= t + W => now - W <= a[i] /\ a[i] <= now
            BY <1>1, <2>3
        <3>3. HowMany(a, t, t + W) <= HowMany(a, now - W, now)
            BY <3>2, CountWithin
        <3>4. HowMany(a, now - W, now) \in Nat
            BY CountType
        <3> QED BY <1>3, <2>1, <3>1, <3>3, <3>4
    <2> QED BY <2>2, <2>3
<1>7. [count |-> 1, start |-> now] # NoWindow
    BY DEF NoWindow
<1> HIDE DEF b
<1>8. PICK v : v = [count |-> 1, start |-> now]
    OBVIOUS
<1>9. v # NoWindow /\ v.count = 1 /\ v.start = now
    BY <1>7, <1>8
<1>10. 0 < v.count /\ v.count <= R /\ v.start <= now
    BY <1>9
<1>11. Kept(b, v, now, R, W)
    BY <1>2, <1>4, <1>5, <1>6, <1>9, <1>10 DEF Kept
<1> QED BY <1>8, <1>11 DEF b

\* A request is counted in the window it falls into.
LEMMA WindowFills ==
    ASSUME NEW a \in Seq(Nat), NEW w \in Windows, NEW now \in Nat, NEW R \in Nat \ {0}, NEW W \in Nat,
           Kept(a, w, now, R, W), w # NoWindow, ~(now - w.start > W), w.count < R
    PROVE  Kept(Append(a, now), [w EXCEPT !.count = @ + 1], now, R, W)
<1> DEFINE b == Append(a, now)
           v == [w EXCEPT !.count = @ + 1]
<1>s. PICK s : s = w.start
    OBVIOUS
<1>1. v.count = w.count + 1 /\ v.start = s /\ s \in Nat /\ w.count \in Nat
    BY <1>s DEF Windows
<1>2. v # NoWindow
    BY <1>1 DEF NoWindow
<1>3. /\ s <= now /\ now <= s + W
      /\ HowMany(a, s, s + W) <= w.count /\ HowMany(a, s - W, s - 1) <= R
    BY <1>s, <1>1 DEF Kept
<1>4. \A i \in DOMAIN a : a[i] \in Nat /\ a[i] <= now /\ a[i] <= s + W
    <2>1. \A i \in DOMAIN a : a[i] \in Nat
        OBVIOUS
    <2> QED BY <1>s, <2>1 DEF Kept
<1>5. \A i \in DOMAIN b : b[i] <= now /\ b[i] <= s + W
    <2>1. \A i \in DOMAIN b : (i \in DOMAIN a /\ b[i] = a[i]) \/ b[i] = now
        OBVIOUS
    <2> HIDE DEF b
    <2> QED BY <1>3, <1>4, <2>1
<1>6. /\ HowMany(a, s, s + W) \in Nat /\ HowMany(a, s - W, s - 1) \in Nat
      /\ HowMany(b, s, s + W) = HowMany(a, s, s + W) + 1
      /\ HowMany(b, s - W, s - 1) = HowMany(a, s - W, s - 1) + 0
    <2>1. s + W \in Int /\ s - W \in Int /\ s - 1 \in Int /\ ~(now <= s - 1)
        BY <1>1, <1>3
    <2>2. HowMany(b, s, s + W) = HowMany(a, s, s + W) + 1
        BY <1>1, <1>3, <2>1, CountAppend
    <2>3. HowMany(b, s - W, s - 1) = HowMany(a, s - W, s - 1) + 0
        BY <1>1, <1>3, <2>1, CountAppend
    <2> QED BY <2>2, <2>3, CountType
<1>7. ASSUME NEW t \in Int PROVE HowMany(b, t, t + W) <= 2 * R
    <2>1. HowMany(a, t, t + W) \in Nat /\ HowMany(a, t, t + W) <= 2 * R
        BY CountType DEF Kept
    <2>2. CASE ~(t <= now /\ now <= t + W)
        <3>1. HowMany(b, t, t + W) = HowMany(a, t, t + W) + 0
            BY <2>2, CountAppend
        <3> QED BY <2>1, <3>1
    <2>3. CASE t <= now /\ now <= t + W
        <3>1. HowMany(b, t, t + W) = HowMany(a, t, t + W) + 1
            BY <2>3, CountAppend
        <3>2. \A i \in DOMAIN a : t <= a[i] /\ a[i] <= t + W => s - W <= a[i] /\ a[i] <= s + W
            BY <1>1, <1>3, <1>4, <2>3
        <3>3. HowMany(a, t, t + W) <= HowMany(a, s - W, s - 1) + HowMany(a, s, s + W)
            <4>1. s - W \in Int /\ s \in Int
                BY <1>1
            <4> QED BY <3>2, <4>1, CountSplit
        <3> QED BY <1>1, <1>3, <1>6, <2>1, <3>1, <3>3
    <2> QED BY <2>2, <2>3
<1>8. 0 < v.count /\ v.count <= R /\ HowMany(b, s, s + W) <= v.count /\ HowMany(b, s - W, s - 1) <= R
    BY <1>1, <1>3, <1>6
<1> HIDE DEF b, v
<1>9. Kept(b, v, now, R, W)
    BY <1>1, <1>2, <1>3, <1>5, <1>7, <1>8 DEF Kept
<1> QED BY <1>9 DEF b, v

\* Time passes, an old window is swept, a key is cleared.
LEMMA WindowLasts ==
    ASSUME NEW a \in Seq(Nat), NEW w \in Windows, NEW now \in Nat, NEW R \in Nat \ {0}, NEW W \in Nat,
           Kept(a, w, now, R, W)
    PROVE  /\ Kept(a, w, now + 1, R, W)
           /\ w # NoWindow /\ now - w.start > 2 * W => Kept(a, NoWindow, now, R, W)
           /\ Kept(<<>>, NoWindow, now, R, W)
<1>1. \A i \in DOMAIN a : a[i] \in Nat
    OBVIOUS
<1>2. w.start \in Nat /\ w.count \in Nat
    BY DEF Windows
<1>3. Kept(a, w, now + 1, R, W)
    <2>1. \A i \in DOMAIN a : a[i] <= now => a[i] <= now + 1
        BY <1>1
    <2>2. \A i \in DOMAIN a : a[i] + W < now => a[i] + W < now + 1
        BY <1>1
    <2>3. w.start <= now => w.start <= now + 1
        BY <1>2
    <2> QED BY <2>1, <2>2, <2>3 DEF Kept
<1>4. ASSUME w # NoWindow, now - w.start > 2 * W PROVE Kept(a, NoWindow, now, R, W)
    <2>1. \A i \in DOMAIN a : a[i] <= w.start + W
        BY <1>4 DEF Kept
    <2>2. \A i \in DOMAIN a : a[i] + W < now
        BY <1>1, <1>2, <1>4, <2>1
    <2> QED BY <2>2 DEF Kept
<1>5. Kept(<<>>, NoWindow, now, R, W)
    <2>1. <<>> \in Seq(Nat) /\ DOMAIN <<>> = {}
        OBVIOUS
    <2>2. ASSUME NEW t \in Int PROVE HowMany(<<>>, t, t + W) = 0
        BY <2>1, CountNone
    <2> QED BY <2>1, <2>2 DEF Kept
<1> QED BY <1>3, <1>4, <1>5

LEMMA LimitType ==
    ASSUME NEW slot \in Slots
    PROVE  LimitOf(slot).requests \in Nat \ {0} /\ LimitOf(slot).window \in Nat
BY LimiterAssumption DEF Slots, LimitOf

LEMMA LongestType ==
    ASSUME NEW slot \in Slots
    PROVE  LongestWindow \in Nat /\ LimitOf(slot).window <= LongestWindow
<1> DEFINE T == DOMAIN Limits
           f == [tier \in T |-> Limits[tier].window]
           S == {Limits[tier].window : tier \in T}
<1>1. \A tier \in T : Limits[tier].window \in Nat
    BY LimiterAssumption
<1>2. slot[2] \in T
    BY DEF Slots
<1>3. S \in SUBSET Int /\ S \in SUBSET Nat /\ LimitOf(slot).window \in S /\ S # {}
    BY <1>1, <1>2 DEF LimitOf
<1>4. IsFiniteSet(T)
    BY LimiterAssumption
<1>5. IsFiniteSet(S)
    <2>1. f \in Surjection(T, S)
        BY DEF Surjection
    <2> HIDE DEF f, S, T
    <2> QED BY <1>4, <2>1, FS_Surjection
<1> HIDE DEF S
<1>6. Max(S) \in S /\ \A x \in S : x <= Max(S)
    BY <1>3, <1>5, LargestOf
<1> QED BY <1>3, <1>6 DEF LongestWindow, S

LimiterTypes ==
    /\ second \in Nat /\ cleaned \in Nat
    /\ windows \in [Slots -> Windows]
    /\ admitted \in [Slots -> Seq(Nat)]
SlotKept(slot, ws) ==
    Kept(admitted[slot], ws[slot], second, LimitOf(slot).requests, LimitOf(slot).window)
LimiterInv == LimiterTypes /\ \A slot \in Slots : SlotKept(slot, windows)

LimiterSpec == LimiterInit /\ [][LimiterNext]_limiterVars

LEMMA LimiterStart == LimiterInit => LimiterInv
<1> SUFFICES ASSUME LimiterInit PROVE LimiterInv
    OBVIOUS
<1>1. NoWindow \in Windows /\ <<>> \in Seq(Nat)
    BY DEF NoWindow, Windows
<1>2. LimiterTypes
    BY <1>1 DEF LimiterInit, LimiterTypes
<1>3. ASSUME NEW slot \in Slots PROVE SlotKept(slot, windows)
    <2>1. admitted[slot] = <<>> /\ windows[slot] = NoWindow
        BY DEF LimiterInit
    <2>2. <<>> \in Seq(Nat) /\ DOMAIN <<>> = {}
        OBVIOUS
    <2>3. \A t \in Int : HowMany(<<>>, t, t + LimitOf(slot).window) = 0
        BY <2>2, CountNone
    <2> QED BY <2>1, <2>2, <2>3, LimitType DEF SlotKept, Kept
<1> QED BY <1>2, <1>3 DEF LimiterInv

\* A cleanup forgets only windows that are over.
LEMMA SweepKeeps ==
    ASSUME LimiterInv
    PROVE  Swept(windows) \in [Slots -> Windows] /\ \A slot \in Slots : SlotKept(slot, Swept(windows))
<1>1. NoWindow \in Windows
    BY DEF NoWindow, Windows
<1>2. Swept(windows) \in [Slots -> Windows]
    BY <1>1 DEF LimiterInv, LimiterTypes, Swept
<1>3. ASSUME NEW slot \in Slots PROVE SlotKept(slot, Swept(windows))
    <2> DEFINE w == windows[slot]
               a == admitted[slot]
               R == LimitOf(slot).requests
               W == LimitOf(slot).window
    <2>1. Kept(a, w, second, R, W) /\ a \in Seq(Nat) /\ w \in Windows /\ second \in Nat
        BY DEF LimiterInv, LimiterTypes, SlotKept
    <2>2. R \in Nat \ {0} /\ W \in Nat /\ LongestWindow \in Nat /\ W <= LongestWindow
        BY LimitType, LongestType
    <2>3. CASE w # NoWindow /\ second - w.start > 2 * LongestWindow
        <3>1. Swept(windows)[slot] = NoWindow
            BY <2>3 DEF Swept
        <3>2. w.start \in Nat
            BY <2>1 DEF Windows
        <3> HIDE DEF w, a, R, W
        <3>3. second - w.start > 2 * W
            BY <2>1, <2>2, <2>3, <3>2
        <3>4. Kept(a, NoWindow, second, R, W)
            BY <2>1, <2>2, <2>3, <3>3, WindowLasts
        <3> QED BY <3>1, <3>4 DEF SlotKept, a, R, W
    <2>4. CASE ~(w # NoWindow /\ second - w.start > 2 * LongestWindow)
        <3>1. Swept(windows)[slot] = w
            BY <2>4 DEF Swept
        <3> QED BY <2>1, <3>1 DEF SlotKept
    <2> QED BY <2>3, <2>4
<1> QED BY <1>2, <1>3

LEMMA RequestKeeps ==
    ASSUME LimiterInv, NEW slot \in Slots, Request(slot)
    PROVE  LimiterInv'
<1>t. LimiterTypes
    BY DEF LimiterInv
<1>1. PICK ws : ws = IF CleanupDue THEN Swept(windows) ELSE windows
    OBVIOUS
<1>2. ws \in [Slots -> Windows] /\ \A x \in Slots : SlotKept(x, ws)
    BY <1>1, SweepKeeps DEF LimiterInv, LimiterTypes
<1>3. /\ cleaned' = IF CleanupDue THEN second ELSE cleaned
      /\ windows' = IF IsAllowed(slot, ws[slot]) THEN [ws EXCEPT ![slot] = Counted(slot, @)] ELSE ws
      /\ admitted' = IF IsAllowed(slot, ws[slot])
                     THEN [admitted EXCEPT ![slot] = Append(@, second)] ELSE admitted
      /\ second' = second
    BY <1>1 DEF Request
<1>4. cleaned' \in Nat /\ second' \in Nat
    BY <1>t, <1>3 DEF LimiterTypes
<1> DEFINE w == ws[slot]
           a == admitted[slot]
           R == LimitOf(slot).requests
           W == LimitOf(slot).window
<1>5. Kept(a, w, second, R, W) /\ a \in Seq(Nat) /\ w \in Windows /\ second \in Nat
    BY <1>t, <1>2 DEF LimiterTypes, SlotKept
<1>6. R \in Nat \ {0} /\ W \in Nat
    BY LimitType
<1>7. CASE ~IsAllowed(slot, w)
    <2>1. windows' = ws /\ admitted' = admitted
        BY <1>3, <1>7
    <2>2. LimiterTypes'
        BY <1>t, <1>2, <1>4, <2>1 DEF LimiterTypes
    <2>3. \A x \in Slots : SlotKept(x, windows)'
        BY <1>2, <1>3, <2>1 DEF SlotKept, LimitOf
    <2> QED BY <2>2, <2>3 DEF LimiterInv
<1>8. CASE IsAllowed(slot, w)
    <2>1. /\ windows' = [ws EXCEPT ![slot] = Counted(slot, w)]
          /\ admitted' = [admitted EXCEPT ![slot] = Append(a, second)]
        BY <1>3, <1>8
    <2>2. Counted(slot, w) \in Windows
        <3>1. [count |-> 1, start |-> second] \in Windows
            BY <1>5 DEF Windows
        <3>2. [w EXCEPT !.count = @ + 1] \in Windows
            BY <1>5 DEF Windows
        <3> QED BY <3>1, <3>2 DEF Counted
    <2>3. Append(a, second) \in Seq(Nat)
        BY <1>5
    <2>4. LimiterTypes'
        BY <1>t, <1>2, <1>4, <2>1, <2>2, <2>3 DEF LimiterTypes
    <2>5. Kept(Append(a, second), Counted(slot, w), second, R, W)
        <3>1. CASE Expired(slot, w)
            <4>1. w = NoWindow \/ second - w.start > W
                BY <3>1 DEF Expired
            <4>2. Kept(Append(a, second), [count |-> 1, start |-> second], second, R, W)
                BY <1>5, <1>6, <4>1, WindowOpens
            <4> QED BY <3>1, <4>2 DEF Counted
        <3>2. CASE ~Expired(slot, w)
            <4>1. w # NoWindow /\ ~(second - w.start > W) /\ w.count < R
                BY <1>8, <3>2 DEF Expired, IsAllowed
            <4>2. Kept(Append(a, second), [w EXCEPT !.count = @ + 1], second, R, W)
                BY <1>5, <1>6, <4>1, WindowFills
            <4> QED BY <3>2, <4>2 DEF Counted
        <3> QED BY <3>1, <3>2
    <2>6. ASSUME NEW x \in Slots PROVE SlotKept(x, windows)'
        <3>1. CASE x = slot
            <4>1. windows'[slot] = Counted(slot, w) /\ admitted'[slot] = Append(a, second)
                BY <1>t, <1>2, <2>1 DEF LimiterTypes
            <4> QED BY <1>3, <2>5, <3>1, <4>1 DEF SlotKept, LimitOf
        <3>2. CASE x # slot
            <4>1. windows'[x] = ws[x] /\ admitted'[x] = admitted[x]
                BY <1>t, <1>2, <2>1, <3>2 DEF LimiterTypes
            <4> QED BY <1>2, <1>3, <4>1 DEF SlotKept, LimitOf
        <3> QED BY <3>1, <3>2
    <2> QED BY <2>4, <2>6 DEF LimiterInv
<1> QED BY <1>7, <1>8

LEMMA ClearKeeps ==
    ASSUME LimiterInv, NEW key \in Keys, ClearKey(key)
    PROVE  LimiterInv'
<1>1. NoWindow \in Windows /\ <<>> \in Seq(Nat)
    BY DEF NoWindow, Windows
<1>2. LimiterTypes'
    BY <1>1 DEF LimiterInv, LimiterTypes, ClearKey
<1>3. ASSUME NEW slot \in Slots PROVE SlotKept(slot, windows)'
    <2> DEFINE R == LimitOf(slot).requests
               W == LimitOf(slot).window
    <2>1. /\ Kept(admitted[slot], windows[slot], second, R, W)
          /\ admitted[slot] \in Seq(Nat) /\ windows[slot] \in Windows /\ second \in Nat
          /\ R \in Nat \ {0} /\ W \in Nat
        BY LimitType DEF LimiterInv, LimiterTypes, SlotKept
    <2>2. Kept(<<>>, NoWindow, second, R, W)
        BY <2>1, WindowLasts
    <2>3. /\ windows'[slot] = IF slot[1] = key THEN NoWindow ELSE windows[slot]
          /\ admitted'[slot] = IF slot[1] = key THEN <<>> ELSE admitted[slot]
          /\ second' = second
        BY DEF ClearKey
    <2> QED BY <2>1, <2>2, <2>3 DEF SlotKept, LimitOf
<1> QED BY <1>2, <1>3 DEF LimiterInv

LEMMA SecondKeeps ==
    ASSUME LimiterInv, Second
    PROVE  LimiterInv'
<1>1. LimiterTypes'
    BY DEF LimiterInv, LimiterTypes, Second
<1>2. ASSUME NEW slot \in Slots PROVE SlotKept(slot, windows)'
    <2> DEFINE R == LimitOf(slot).requests
               W == LimitOf(slot).window
    <2>1. /\ Kept(admitted[slot], windows[slot], second, R, W)
          /\ admitted[slot] \in Seq(Nat) /\ windows[slot] \in Windows /\ second \in Nat
          /\ R \in Nat \ {0} /\ W \in Nat
        BY LimitType DEF LimiterInv, LimiterTypes, SlotKept
    <2>2. Kept(admitted[slot], windows[slot], second + 1, R, W)
        BY <2>1, WindowLasts
    <2>3. windows' = windows /\ admitted' = admitted /\ second' = second + 1
        BY DEF Second
    <2> QED BY <2>2, <2>3 DEF SlotKept, LimitOf
<1> QED BY <1>1, <1>2 DEF LimiterInv

\* The windows of a key do not overlap, and what one counts covers what it let
\* through (rate_limiter.py:81-140).
THEOREM LimiterInvariant == LimiterSpec => []LimiterInv
<1>1. LimiterInv /\ [LimiterNext]_limiterVars => LimiterInv'
    <2> SUFFICES ASSUME LimiterInv, [LimiterNext]_limiterVars PROVE LimiterInv'
        OBVIOUS
    <2>1. CASE UNCHANGED limiterVars
        BY <2>1 DEF limiterVars, LimiterInv, LimiterTypes, SlotKept, LimitOf
    <2>2. CASE LimiterNext
        BY <2>2, RequestKeeps, ClearKeeps, SecondKeeps DEF LimiterNext
    <2> QED BY <2>1, <2>2
<1> QED BY <1>1, LimiterStart, PTL DEF LimiterSpec

\* No stretch as long as a window sees more than twice the limit of a key let
\* through (rate_limiter.py:81-140).
THEOREM NeverMoreThanTwice == LimiterSpec => []TwiceTheLimit
<1>1. LimiterInv => TwiceTheLimit
    <2> SUFFICES ASSUME LimiterInv, NEW slot \in Slots, NEW t \in 0 .. second
        PROVE Cardinality({i \in DOMAIN admitted[slot] :
                        t <= admitted[slot][i] /\ admitted[slot][i] <= t + LimitOf(slot).window})
                <= 2 * LimitOf(slot).requests
        BY DEF TwiceTheLimit
    <2>1. t \in Int
        OBVIOUS
    <2>2. HowMany(admitted[slot], t, t + LimitOf(slot).window) <= 2 * LimitOf(slot).requests
        BY <2>1 DEF LimiterInv, SlotKept, Kept
    <2> QED BY <2>2 DEF HowMany, Between
<1> QED BY <1>1, LimiterInvariant, PTL

-----------------------------------------------------------------------------
(* What a trade may lose, and what a streak of losses does.                  *)

\* A trade is never made larger than the lots allow, and after a streak of
\* losses at most half of it.
LEMMA MultiplierRange ==
    ASSUME reduced \in Nat
    PROVE  Multiplier \in 8 .. 32 /\ (reduced > 0 => Multiplier <= 16)
<1> DEFINE Halved(n, b) == IF b THEN n \div 2 ELSE n
           mean == FoldSeq(LAMBDA e, sum : e + sum, 0, history)
           below == Len(history) >= MeanFrom /\ equity * Len(history) < mean
           first == Halved(32, reduced > 0)
           halves == Halved(Halved(first, 10 * weekly <= -Capital), below)
           size == IF wins >= WinStreak THEN (halves * 3) \div 4 ELSE halves
<1>1. Multiplier = Max({8, size})
    BY DEF Multiplier
<1>2. first \in {16, 32} /\ (reduced > 0 => first = 16)
    OBVIOUS
<1> HIDE DEF first, below
<1>3. Halved(first, 10 * weekly <= -Capital) \in {8, 16, 32} 
      /\ (reduced > 0 => Halved(first, 10 * weekly <= -Capital) <= 16)
    BY <1>2
<1>4. halves \in {4, 8, 16, 32} /\ (reduced > 0 => halves <= 16)
    BY <1>3
<1> HIDE DEF halves
<1>5. size \in 0 .. 32 /\ (reduced > 0 => size <= 16)
    BY <1>4
<1> HIDE DEF size
<1>6. Max({8, size}) = IF 8 >= size THEN 8 ELSE size
    BY <1>5, TwoMax
<1> QED BY <1>1, <1>5, <1>6

LEMMA LotsBelow ==
    ASSUME dailyPnl \in Int, vix \in Nat, NEW sl \in Int, NEW conf \in 0 .. 100
    PROVE  /\ MaxLots(sl) \in Nat /\ Lots(sl, conf) \in Nat /\ Lots(sl, conf) <= MaxLots(sl)
           /\ sl > 0 /\ MaxLots(sl) > 0 =>
                2 * (sl * (Lot * MaxLots(sl))) <= MaxDailyLoss + dailyPnl
<1> DEFINE stop == IF sl <= 0 THEN 20 ELSE sl
           share == 2 * ((Capital * RiskPct) \div 100)
           left == MaxDailyLoss + dailyPnl
           budget == Min({share, left})
           m == Min({52, Max({13, vix})})
           D == 2 * m * stop * Lot
           n == MaxLots(sl)
<1>1. share \in Int /\ left \in Int /\ stop \in Nat \ {0} /\ Lot \in Nat \ {0}
    BY SizingAssumption, TimesType
<1>2. budget \in Int /\ budget <= left
    <2> HIDE DEF share, left
    <2>1. Min({share, left}) = IF share <= left THEN share ELSE left
        BY <1>1, TwoMax
    <2> QED BY <1>1, <2>1
<1>3. m \in 13 .. 52
    <2>1. PICK v \in Int : v = Max({13, vix})
        BY TwoMax
    <2>2. v >= 13
        BY <2>1, TwoMax
    <2>3. Min({52, v}) = IF 52 <= v THEN 52 ELSE v
        BY <2>1, TwoMax
    <2> QED BY <2>1, <2>2, <2>3
<1>4. n = Floor(13 * budget, D)
    BY DEF MaxLots
<1> HIDE DEF share, left, budget, m, stop, n
<1>5. PICK slot \in Nat \ {0} : slot = stop * Lot
    BY <1>1, TimesType
<1>6. D = 2 * (m * slot) /\ m * slot \in Nat \ {0}
    BY <1>1, <1>3, <1>5, TimesType
<1> HIDE DEF D
<1>7. D \in Nat \ {0}
    BY <1>6
<1>8. n \in Nat /\ (n > 0 => budget >= 0 /\ D * n <= 13 * budget)
    <2>1. CASE 13 * budget < 0
        BY <1>2, <1>4, <2>1 DEF Floor
    <2>2. CASE ~(13 * budget < 0)
        BY <1>2, <1>4, <1>7, <2>2, DivBelow DEF Floor
    <2> QED BY <2>1, <2>2
<1>9. ASSUME sl > 0, n > 0 PROVE 2 * (sl * (Lot * n)) <= left
    <2>1. stop = sl
        BY <1>9 DEF stop
    <2>2. PICK k \in Nat : k = slot * n
        BY <1>5, <1>8, TimesType
    <2>3. D * n = 2 * (m * k)
        BY <1>3, <1>6, <1>8, <2>2
    <2>4. 13 * k <= m * k
        BY <1>3, <2>2, TimesMore
    <2>5. m * k \in Nat
        BY <1>3, TimesType
    <2>6. 2 * k <= budget
        BY <1>2, <1>8, <1>9, <2>3, <2>4, <2>5
    <2>7. k = sl * (Lot * n)
        BY <1>1, <1>5, <1>8, <2>1, <2>2
    <2> QED BY <1>1, <1>2, <2>6, <2>7
<1>10. Lots(sl, conf) \in Nat /\ Lots(sl, conf) <= n
    <2> DEFINE c == (3 * conf) \div 100
    <2>1. c \in Int
        OBVIOUS
    <2> HIDE DEF c
    <2>2. PICK d \in Nat : d = Max({1, c})
        BY <2>1, TwoMax
    <2>3. Lots(sl, conf) = IF n = 0 THEN 0 ELSE Min({n, d})
        BY <2>2 DEF Lots, n, c
    <2>4. n \in Nat
        BY <1>8
    <2>5. Min({n, d}) = IF n <= d THEN n ELSE d
        BY <2>4, TwoMax
    <2>6. Lots(sl, conf) = 0 \/ Lots(sl, conf) = n \/ (Lots(sl, conf) = d /\ d <= n)
        BY <2>3, <2>4, <2>5
    <2> QED BY <2>4, <2>6
<1> QED BY <1>8, <1>9, <1>10 DEF n, left

LEMMA QuantityBelow ==
    ASSUME dailyPnl \in Int, vix \in Nat, reduced \in Nat, NEW sl \in Int, NEW conf \in 0 .. 100
    PROVE  Quantity(sl, conf) \in Nat /\ Quantity(sl, conf) <= Lot * Lots(sl, conf)
<1> DEFINE lots == Lots(sl, conf)
           sized == (lots * Lot * Multiplier) \div 32
           adjusted == IF Regime = "ELEVATED" THEN (3 * sized) \div 4 ELSE sized
<1>1. lots \in Nat /\ Lot \in Nat \ {0} /\ Multiplier \in 8 .. 32
    BY LotsBelow, MultiplierRange, SizingAssumption
<1>2. Quantity(sl, conf) = Lot * (adjusted \div Lot)
    BY DEF Quantity
<1> HIDE DEF lots
<1>3. PICK whole \in Nat : whole = lots * Lot
    BY <1>1, TimesType
<1>4. sized \in Nat /\ sized <= whole
    <2>1. whole * Multiplier <= whole * 32 /\ whole * Multiplier \in Nat
        BY <1>1, <1>3, TimesMore, TimesType
    <2> QED BY <1>1, <1>3, <2>1
<1> HIDE DEF sized
<1>5. adjusted \in Nat /\ adjusted <= sized
    BY <1>4
<1> HIDE DEF adjusted
<1>6. adjusted \div Lot \in Nat /\ Lot * (adjusted \div Lot) <= adjusted
    BY <1>1, <1>5, DivBelow
<1>7. Lot * (adjusted \div Lot) \in Nat /\ Lot * lots = whole
    BY <1>1, <1>3, <1>6, TimesType
<1> QED BY <1>2, <1>3, <1>4, <1>5, <1>6, <1>7 DEF lots

Positions == [sl : Int, qty : Int]

SizingTypes ==
    /\ dailyPnl \in Int /\ vix \in Nat
    /\ running \in Seq(Positions)
    /\ losses \in Nat /\ reduced \in Nat
    /\ tradeLog \in Seq(Int)

\* The last `losses` trades lost, and the one before them did not.
LossesCounted ==
    /\ losses <= Len(tradeLog)
    /\ losses = Len(tradeLog) \/ tradeLog[Len(tradeLog) - losses] >= 0

\* After a streak the reduction lasts for the trades that are still missing.
ReductionLasts ==
    \A i \in DOMAIN tradeLog :
        Streak(i) /\ Len(tradeLog) - i < RecoveryWins
            => reduced >= RecoveryWins - (Len(tradeLog) - i)

SizingInv == SizingTypes /\ LossesCounted /\ ReductionLasts

SizingSpec == SizingInit /\ [][SizingNext]_sizingVars

\* What is approved is within the budget.
LEMMA ApprovedFits ==
    ASSUME SizingTypes, NEW kind, NEW sl \in Stops, NEW conf \in Confidences, Approved(kind, sl, conf)
    PROVE  /\ Quantity(sl, conf) \in Nat
           /\ 100 * (sl * Quantity(sl, conf)) <= Capital * RiskPct
           /\ 2 * (sl * Quantity(sl, conf)) <= MaxDailyLoss + dailyPnl
<1> DEFINE q == Quantity(sl, conf)
           n == MaxLots(sl)
<1>1. sl \in Int /\ conf \in 0 .. 100
    BY SizingAssumption
<1>2. /\ q \in Nat /\ q <= Lot * Lots(sl, conf)
      /\ n \in Nat /\ Lots(sl, conf) \in Nat /\ Lots(sl, conf) <= n
      /\ sl > 0 /\ n > 0 => 2 * (sl * (Lot * n)) <= MaxDailyLoss + dailyPnl
    BY <1>1, LotsBelow, QuantityBelow DEF SizingTypes
<1>3. q > 0 /\ 100 * sl * q <= Capital * RiskPct /\ dailyPnl > -MaxDailyLoss
    BY DEF Approved
<1> HIDE DEF q, n
<1>4. dailyPnl \in Int /\ MaxDailyLoss \in Nat /\ Capital \in Nat /\ RiskPct \in Nat /\ Lot \in Nat \ {0}
    BY SizingAssumption DEF SizingTypes
<1>5. 100 * (sl * q) = 100 * sl * q
    BY <1>1, <1>2
<1>6. 2 * (sl * q) <= MaxDailyLoss + dailyPnl
    <2>1. CASE sl > 0
        <3>1. Lot * Lots(sl, conf) <= Lot * n /\ Lot * n \in Nat /\ Lot * Lots(sl, conf) \in Nat
            BY <1>2, <1>4, TimesMore, TimesType
        <3>2. n > 0
            <4>1. n = 0 => Lots(sl, conf) = 0
                BY <1>2
            <4>2. Lots(sl, conf) = 0 => Lot * Lots(sl, conf) = 0
                BY <1>4
            <4> QED BY <1>2, <1>3, <4>1, <4>2
        <3>3. q <= Lot * n
            BY <1>2, <3>1
        <3>4. sl * q <= sl * (Lot * n)
            BY <1>1, <1>2, <2>1, <3>1, <3>3, TimesMore
        <3>5. sl * q \in Int /\ sl * (Lot * n) \in Int
            BY <1>1, <1>2, <3>1, TimesType
        <3> QED BY <1>2, <1>4, <2>1, <3>2, <3>4, <3>5
    <2>2. CASE ~(sl > 0)
        <3>1. sl * q <= 0 * q
            BY <1>1, <1>2, <2>2, TimesMore
        <3>2. sl * q \in Int /\ 0 * q = 0
            BY <1>1, <1>2, TimesType
        <3> QED BY <1>3, <1>4, <3>1, <3>2
    <2> QED BY <2>1, <2>2
<1> QED BY <1>2, <1>3, <1>5, <1>6 DEF q

LEMMA SizingStart == SizingInit => SizingInv
BY DEF SizingInit, SizingInv, SizingTypes, LossesCounted, ReductionLasts

LEMMA RemovedType ==
    ASSUME NEW T, NEW s \in Seq(T), NEW i \in DOMAIN s
    PROVE  RemoveAt(s, i) \in Seq(T) /\ Len(RemoveAt(s, i)) = Len(s) - 1
<1>1. i \in 1 .. Len(s) /\ Len(s) \in Nat
    OBVIOUS
<1>2. SubSeq(s, 1, i - 1) \in Seq(T) /\ Len(SubSeq(s, 1, i - 1)) = i - 1
    <2>1. \A j \in 1 .. i - 1 : s[j] \in T
        BY <1>1
    <2> QED BY <1>1, <2>1, SubSeqProperties
<1>3. SubSeq(s, i + 1, Len(s)) \in Seq(T) /\ Len(SubSeq(s, i + 1, Len(s))) = Len(s) - i
    <2>1. \A j \in i + 1 .. Len(s) : s[j] \in T
        BY <1>1
    <2>2. i + 1 \in Int /\ Len(s) \in Int
        BY <1>1
    <2>3. /\ SubSeq(s, i + 1, Len(s)) \in Seq(T)
          /\ Len(SubSeq(s, i + 1, Len(s))) = IF i + 1 <= Len(s) THEN Len(s) - (i + 1) + 1 ELSE 0
        BY <2>1, <2>2, SubSeqProperties
    <2>4. i + 1 <= Len(s) \/ i = Len(s)
        BY <1>1
    <2> QED BY <1>1, <2>3, <2>4
<1>4. PICK u \in Seq(T), v \in Seq(T) :
        u = SubSeq(s, 1, i - 1) /\ v = SubSeq(s, i + 1, Len(s))
    BY <1>2, <1>3
<1>5. u \o v \in Seq(T) /\ Len(u \o v) = Len(u) + Len(v)
    BY ConcatProperties
<1>6. Len(u) = i - 1 /\ Len(v) = Len(s) - i /\ RemoveAt(s, i) = u \o v
    BY <1>2, <1>3, <1>4 DEF RemoveAt
<1> QED BY <1>1, <1>5, <1>6

LEMMA RecordKeeps ==
    ASSUME SizingInv, NEW pnl \in Int, RecordTrade(pnl)
    PROVE  /\ losses' \in Nat /\ reduced' \in Nat /\ tradeLog' \in Seq(Int)
           /\ LossesCounted' /\ ReductionLasts'
<1> DEFINE n == Len(tradeLog)
<1>1. /\ losses \in Nat /\ reduced \in Nat /\ tradeLog \in Seq(Int) /\ n \in Nat
      /\ LossStreak \in Nat \ {0} /\ RecoveryWins \in Nat
    BY SizingAssumption DEF SizingInv, SizingTypes
<1>2. /\ losses <= n
      /\ losses = n \/ tradeLog[n - losses] >= 0
    BY DEF SizingInv, LossesCounted
<1>3. tradeLog' = Append(tradeLog, pnl)
    BY DEF RecordTrade
<1>4. /\ tradeLog' \in Seq(Int) /\ Len(tradeLog') = n + 1
      /\ tradeLog'[n + 1] = pnl /\ \A j \in 1 .. n : tradeLog'[j] = tradeLog[j]
    BY <1>1, <1>3
<1> HIDE DEF n
\* A streak that has ended before the new trade was one already.
<1>7. ASSUME NEW i \in 1 .. n, Streak(i)' PROVE Streak(i)
    <2>1. i >= LossStreak /\ \A j \in i - LossStreak + 1 .. i : tradeLog'[j] < 0
        BY <1>7 DEF Streak
    <2>2. \A j \in i - LossStreak + 1 .. i : j \in 1 .. n
        BY <1>1, <2>1
    <2> QED BY <1>4, <2>1, <2>2 DEF Streak
<1>5. CASE pnl < 0
    <2>1. losses' = losses + 1 /\ reduced' = IF losses + 1 >= LossStreak THEN RecoveryWins ELSE reduced
        BY <1>5 DEF RecordTrade
    <2>2. losses' \in Nat /\ reduced' \in Nat
        BY <1>1, <2>1
    <2>3. LossesCounted'
        <3>1. losses' <= n + 1
            BY <1>1, <1>2, <2>1
        <3>2. CASE losses = n
            BY <1>4, <2>1, <3>1, <3>2 DEF LossesCounted
        <3>3. CASE losses # n
            <4>1. n - losses \in 1 .. n /\ (n + 1) - losses' = n - losses
                BY <1>1, <1>2, <2>1, <3>3
            <4>2. tradeLog'[(n + 1) - losses'] >= 0
                BY <1>2, <1>4, <3>3, <4>1
            <4> QED BY <1>4, <3>1, <4>2 DEF LossesCounted
        <3> QED BY <3>2, <3>3
    <2>4. ASSUME NEW i \in DOMAIN tradeLog', Streak(i)', Len(tradeLog') - i < RecoveryWins
          PROVE  reduced' >= RecoveryWins - (Len(tradeLog') - i)
        <3>1. i \in 1 .. n + 1 /\ Len(tradeLog') = n + 1
            BY <1>4
        <3>2. CASE i \in 1 .. n
            <4>1. Streak(i) /\ i \in DOMAIN tradeLog
                BY <1>1, <1>7, <2>4, <3>2 DEF n
            <4>2. n - i < RecoveryWins /\ n - i \in Nat
                BY <1>1, <2>4, <3>1, <3>2
            <4>3. reduced >= RecoveryWins - (n - i)
                BY <4>1, <4>2 DEF SizingInv, ReductionLasts, n
            <4> QED BY <1>1, <2>1, <3>1, <4>2, <4>3
        <3>3. CASE i = n + 1
            <4>2. i >= LossStreak /\ \A j \in i - LossStreak + 1 .. i : tradeLog'[j] < 0
                BY <2>4 DEF Streak
            <4>3. losses + 1 >= LossStreak
                <5> SUFFICES ASSUME losses + 1 < LossStreak PROVE FALSE
                    BY <1>1
                <5>1. n - losses \in 1 .. n /\ losses # n /\ n - losses \in i - LossStreak + 1 .. i
                    BY <1>1, <1>2, <3>3, <4>2
                <5>2. tradeLog'[n - losses] < 0 /\ tradeLog'[n - losses] >= 0
                    BY <1>2, <1>4, <4>2, <5>1
                <5>3. tradeLog'[n - losses] \in Int
                    BY <1>1, <1>4, <5>1
                <5> QED BY <5>2, <5>3
            <4> QED BY <1>1, <2>1, <3>1, <3>3, <4>3
        <3> QED BY <1>1, <3>1, <3>2, <3>3
    <2>5. ReductionLasts'
        BY <2>4 DEF ReductionLasts
    <2> QED BY <1>4, <2>2, <2>3, <2>5
<1>6. CASE ~(pnl < 0)
    <2>1. losses' = 0 /\ reduced' = IF reduced > 0 THEN reduced - 1 ELSE 0
        BY <1>6 DEF RecordTrade, OneLess
    <2>2. losses' \in Nat /\ reduced' \in Nat
        BY <1>1, <2>1
    <2>3. LossesCounted'
        <3>1. (n + 1) - losses' = n + 1 /\ losses' <= n + 1 /\ tradeLog'[n + 1] >= 0
            BY <1>1, <1>4, <1>6, <2>1
        <3> QED BY <1>4, <3>1 DEF LossesCounted
    <2>4. ASSUME NEW i \in DOMAIN tradeLog', Streak(i)', Len(tradeLog') - i < RecoveryWins
          PROVE  reduced' >= RecoveryWins - (Len(tradeLog') - i)
        <3>1. i \in 1 .. n + 1 /\ Len(tradeLog') = n + 1
            BY <1>4
        <3>2. i \in 1 .. n
            <4>1. i \in i - LossStreak + 1 .. i
                BY <1>1, <3>1
            <4>2. tradeLog'[i] < 0
                BY <2>4, <4>1 DEF Streak
            <4>3. i # n + 1
                BY <1>4, <1>6, <4>2
            <4> QED BY <1>1, <3>1, <4>3
        <3>3. Streak(i) /\ i \in DOMAIN tradeLog
            BY <1>1, <1>7, <2>4, <3>2 DEF n
        <3>4. n - i < RecoveryWins /\ n - i \in Nat
            BY <1>1, <2>4, <3>1, <3>2
        <3>5. reduced >= RecoveryWins - (n - i)
            BY <3>3, <3>4 DEF SizingInv, ReductionLasts, n
        <3> QED BY <1>1, <2>1, <3>1, <3>4, <3>5
    <2>5. ReductionLasts'
        BY <2>4 DEF ReductionLasts
    <2> QED BY <1>4, <2>2, <2>3, <2>5
<1> QED BY <1>5, <1>6

LEMMA SizingStep == SizingInv /\ [SizingNext]_sizingVars => SizingInv'
<1> SUFFICES ASSUME SizingInv, [SizingNext]_sizingVars PROVE SizingInv'
    OBVIOUS
<1> DEFINE Same == UNCHANGED <<losses, reduced, tradeLog>>
<1>1. SizingTypes /\ LossesCounted /\ ReductionLasts
    BY DEF SizingInv
\* Without a trade that ends the history and the reduction stay.
<1>2. ASSUME Same PROVE LossesCounted' /\ ReductionLasts'
    BY <1>1, <1>2 DEF LossesCounted, ReductionLasts, Streak
<1>3. CASE UNCHANGED sizingVars
    BY <1>1, <1>2, <1>3 DEF sizingVars, SizingInv, SizingTypes
<1>4. ASSUME NEW kind \in Kinds, NEW sl \in Stops, NEW conf \in Confidences, Proposal(kind, sl, conf)
      PROVE SizingInv'
    <2>1. Same /\ UNCHANGED <<dailyPnl, vix>>
        BY <1>4 DEF Proposal, moneyVars
    <2>2. sl \in Int /\ conf \in 0 .. 100 /\ Quantity(sl, conf) \in Int
        BY <1>1, <1>4, ApprovedFits, SizingAssumption DEF Proposal
    <2>3. running' \in Seq(Positions)
        <3>1. [sl |-> sl, qty |-> Quantity(sl, conf)] \in Positions
            BY <2>2 DEF Positions
        <3> QED BY <1>1, <1>4, <3>1 DEF SizingTypes, Proposal
    <2>4. SizingTypes'
        BY <1>1, <2>1, <2>3 DEF SizingTypes
    <2> QED BY <1>2, <2>1, <2>4 DEF SizingInv
<1>5. ASSUME NEW i \in DOMAIN running, NEW gain \in Outcomes, Ended(i, gain)
      PROVE SizingInv'
    <2> DEFINE pnl == gain * running[i].sl * running[i].qty
    <2>1. RecordTrade(pnl) /\ dailyPnl' = dailyPnl + pnl /\ running' = RemoveAt(running, i) /\ vix' = vix
        BY <1>5 DEF Ended
    <2>2. pnl \in Int
        <3>1. running[i] \in Positions
            BY <1>1 DEF SizingTypes
        <3>2. running[i].sl \in Int /\ running[i].qty \in Int /\ gain \in Int
            BY <3>1, SizingAssumption DEF Positions
        <3>3. gain * running[i].sl \in Int
            BY <3>2, TimesType
        <3> QED BY <3>2, <3>3, TimesType
    <2>3. running' \in Seq(Positions)
        BY <1>1, <2>1, RemovedType DEF SizingTypes
    <2> HIDE DEF pnl
    <2>4. losses' \in Nat /\ reduced' \in Nat /\ tradeLog' \in Seq(Int) /\ LossesCounted' /\ ReductionLasts'
        BY <2>1, <2>2, RecordKeeps
    <2>5. SizingTypes'
        BY <1>1, <2>1, <2>2, <2>3, <2>4 DEF SizingTypes
    <2> QED BY <2>4, <2>5 DEF SizingInv
<1>6. ASSUME NEW v \in Vixes, Breadth(v) PROVE SizingInv'
    <2>1. Same /\ UNCHANGED <<dailyPnl, running>> /\ vix' = v /\ v \in Nat
        BY <1>6, SizingAssumption DEF Breadth, moneyVars
    <2>2. SizingTypes'
        BY <1>1, <2>1 DEF SizingTypes
    <2> QED BY <1>2, <2>1, <2>2 DEF SizingInv
<1>7. ASSUME NewDay PROVE SizingInv'
    <2>1. Same /\ UNCHANGED <<vix, running>> /\ dailyPnl' = 0
        BY <1>7 DEF NewDay, moneyVars
    <2>2. SizingTypes'
        BY <1>1, <2>1 DEF SizingTypes
    <2> QED BY <1>2, <2>1, <2>2 DEF SizingInv
<1> QED BY <1>3, <1>4, <1>5, <1>6, <1>7 DEF SizingNext

\* The losing streak and the reduction the drawdown manager keeps follow from the
\* trades that ended (drawdown_manager.py:61-89).
THEOREM SizingInvariant == SizingSpec => []SizingInv
BY SizingStart, SizingStep, PTL DEF SizingSpec

\* Of the trades after a losing streak that the design names none is more than half
\* the size, whatever they end with (drawdown_manager.py:36-59, 74-89).
THEOREM StreakShrinks == SizingSpec => []StreakHalves
<1>1. SizingInv => StreakHalves
    <2> SUFFICES ASSUME SizingInv, NEW i \in DOMAIN tradeLog, Streak(i),
                        Len(tradeLog) - i < RecoveryWins
        PROVE Multiplier <= 16
        BY DEF StreakHalves
    <2>1. /\ tradeLog \in Seq(Int) /\ reduced \in Nat /\ RecoveryWins \in Nat
          /\ i \in 1 .. Len(tradeLog) /\ Len(tradeLog) \in Nat
        BY SizingAssumption DEF SizingInv, SizingTypes
    <2>2. reduced >= RecoveryWins - (Len(tradeLog) - i)
        BY DEF SizingInv, ReductionLasts
    <2>3. reduced > 0
        BY <2>1, <2>2
    <2> QED BY <2>1, <2>3, MultiplierRange
<1> QED BY <1>1, SizingInvariant, PTL

\* No approval risks more than its share of the capital or half of what may still be
\* lost today (risk_manager.py:140-170, 366-397).
THEOREM RiskWithinBudget == SizingSpec => RiskFitsBudget
<1> DEFINE Fits == Len(running') > Len(running) =>
                    LET risk == Last(running').sl * Last(running').qty
                    IN  /\ 100 * risk <= Capital * RiskPct
                        /\ 2 * risk <= MaxDailyLoss + dailyPnl
<1>1. SizingInv /\ [SizingNext]_sizingVars => [Fits]_sizingVars
    <2> SUFFICES ASSUME SizingInv, SizingNext, Len(running') > Len(running) PROVE Fits
        BY DEF sizingVars
    <2>1. running \in Seq(Positions) /\ Len(running) \in Nat
        BY DEF SizingInv, SizingTypes
    <2>2. running' # running
        BY <2>1
    <2>3. ASSUME NEW i \in DOMAIN running, NEW gain \in Outcomes, Ended(i, gain) PROVE FALSE
        <3>1. Len(running') = Len(running) - 1
            BY <2>1, <2>3, RemovedType DEF Ended
        <3> QED BY <2>1, <3>1
    <2>4. PICK kind \in Kinds, sl \in Stops, conf \in Confidences : Proposal(kind, sl, conf)
        BY <2>2, <2>3 DEF SizingNext, Breadth, NewDay
    <2> DEFINE p == [sl |-> sl, qty |-> Quantity(sl, conf)]
    <2>5. Last(running') = p
        BY <2>1, <2>4 DEF Proposal, Last
    <2>6. Last(running').sl = sl /\ Last(running').qty = Quantity(sl, conf)
        BY <2>5
    <2>7. /\ 100 * (sl * Quantity(sl, conf)) <= Capital * RiskPct
          /\ 2 * (sl * Quantity(sl, conf)) <= MaxDailyLoss + dailyPnl
        BY <2>4, ApprovedFits DEF SizingInv, Proposal
    <2> QED BY <2>6, <2>7
<1> QED BY <1>1, SizingInvariant, PTL DEF SizingSpec, RiskFitsBudget

-----------------------------------------------------------------------------
(* What the paper account pays and gets.                                     *)

LEMMA ImpactType ==
    ASSUME NEW qty \in Nat
    PROVE  ImpactBps(qty) \in Int
<1> DEFINE k == qty \div ReferenceLot
           lots == Max({1, k})
           K == (1000000 * lots) \div Volume
           S == {n \in 0 .. 500 : n * n <= K}
<1>1. ReferenceLot \in Nat \ {0} /\ Volume \in Nat \ {0}
    BY FillsAssumption
<1>2. k \in Int
    BY <1>1
<1> HIDE DEF k
<1>3. lots \in Nat
    BY <1>2, TwoMax
<1>4. ImpactBps(qty) = Max(S)
    BY DEF ImpactBps, k
<1> HIDE DEF lots
<1>5. K \in Nat
    BY <1>1, <1>3
<1> HIDE DEF K
<1>6. S \in SUBSET Int /\ S \in SUBSET (0 .. 500) /\ 0 \in S
    BY <1>5
<1> HIDE DEF S
<1>7. IsFiniteSet(S)
    <2>1. 0 \in Int /\ 500 \in Int
        OBVIOUS
    <2>2. IsFiniteSet(0 .. 500)
        BY <2>1, FS_Interval
    <2> QED BY <1>6, <2>2, FS_Subset
<1>8. Max(S) \in S
    BY <1>6, <1>7, LargestOf
<1> QED BY <1>4, <1>6, <1>8

\* Slippage is never nothing.
LEMMA SlippageBounds ==
    ASSUME NEW kind, NEW type, NEW price \in Nat, NEW qty \in Nat, NEW hour \in Nat
    PROVE  Slippage(kind, type, price, qty, hour) \in Int /\ Slippage(kind, type, price, qty, hour) >= 5
<1>1. BaseBps(kind) \in {5, 20, 30, 50, 100}
    BY DEF BaseBps
<1>2. OrderBps(kind, type) \in Int
    BY <1>1 DEF OrderBps
<1> DEFINE bps == OrderBps(kind, type) + ImpactBps(qty)
           u == (price * bps) \div 1000
           v == (u * VolatilityPct) \div 100
           y == (v * hour) \div 10000
<1>3. Slippage(kind, type, price, qty, hour) = Max({5, y})
    BY DEF Slippage
<1>4. bps \in Int /\ VolatilityPct \in Int
    BY <1>2, ImpactType DEF VolatilityPct
<1>5. u \in Int
    <2> HIDE DEF bps
    <2>1. price * bps \in Int
        BY <1>4, TimesType
    <2> QED BY <2>1
<1>6. v \in Int
    <2> HIDE DEF u
    <2>1. u * VolatilityPct \in Int
        BY <1>4, <1>5, TimesType
    <2> QED BY <2>1
<1>7. y \in Int
    <2> HIDE DEF v
    <2>1. v * hour \in Int
        BY <1>6, TimesType
    <2> QED BY <2>1
<1> HIDE DEF y
<1>8. Max({5, y}) = IF 5 >= y THEN 5 ELSE y
    BY <1>7, TwoMax
<1> QED BY <1>3, <1>7, <1>8

LEMMA FillBounds ==
    ASSUME NEW kind, NEW type, NEW side, NEW price \in Nat, NEW qty \in Nat, NEW hour \in Nat
    PROVE  LET fill == Fill(kind, type, side, price, qty, hour)
           IN  /\ fill \in Int
               /\ price = 0 => fill = 0
               /\ price > 0 /\ side = "BUY" => fill >= price + 5
               /\ price > 0 /\ side # "BUY" => fill = 5 \/ (fill >= 5 /\ fill <= price - 5)
<1>1. PICK s \in Int : s = Slippage(kind, type, price, qty, hour) /\ s >= 5
    BY SlippageBounds
<1>2. CASE price = 0
    BY <1>2 DEF Fill
<1>3. CASE price > 0 /\ side = "BUY"
    <2>1. Fill(kind, type, side, price, qty, hour) = Max({5, price + s})
        BY <1>1, <1>3 DEF Fill
    <2>2. PICK v \in Int : v = price + s
        BY <1>1
    <2>3. Max({5, v}) = IF 5 >= v THEN 5 ELSE v
        BY <2>2, TwoMax
    <2> QED BY <1>1, <1>3, <2>1, <2>2, <2>3
<1>4. CASE price > 0 /\ side # "BUY"
    <2>1. Fill(kind, type, side, price, qty, hour) = Max({5, price - s})
        BY <1>1, <1>4 DEF Fill
    <2>2. PICK v \in Int : v = price - s
        BY <1>1
    <2>3. Max({5, v}) = IF 5 >= v THEN 5 ELSE v
        BY <2>2, TwoMax
    <2> QED BY <1>1, <1>4, <2>1, <2>2, <2>3
<1> QED BY <1>2, <1>3, <1>4

Held == [kind : {"CE", "PE", "UP", "DOWN"}, qty : Nat \ {0}, entry : Int, raw : Nat,
         how : {"event", "market", "limit", "stop"}]

FillTypes ==
    /\ spot \in Spots \cup {0} /\ live \in Nat /\ iv \in Nat
    /\ position \in Held \cup {NoPosition}

\* What was paid is above the price, what was got for the index sold is below.
EntryApart ==
    position # NoPosition =>
        /\ position.kind \in Rising /\ position.how # "limit" =>
               IF position.raw > 0 THEN position.entry >= position.raw + 5 ELSE position.entry = 0
        /\ position.kind = "DOWN" =>
               /\ position.raw > 0
               /\ position.entry = 5 \/ (position.entry >= 5 /\ position.entry <= position.raw - 5)

FillsInv == FillTypes /\ EntryApart /\ GainNeedsMove

FillSpec == FillInit /\ [][FillNext]_fillVars

LEMMA FillStart == FillInit => FillsInv
BY DEF FillInit, FillsInv, FillTypes, EntryApart, GainNeedsMove, NoTrade

LEMMA SpotType ==
    ASSUME FillTypes
    PROVE  spot \in Nat
BY FillsAssumption DEF FillTypes

LEMMA ValueType ==
    ASSUME FillTypes, position # NoPosition
    PROVE  Value(position) \in Int /\ (position.entry >= 0 => Value(position) \in Nat)
<1>1. position \in Held /\ position.entry \in Int /\ live \in Nat /\ spot \in Nat
    BY SpotType DEF FillTypes, Held
<1>2. CASE position.kind \in Options
    <2>1. spot > 0 => Theory(position.kind, spot) \in Nat
        BY <1>2, FillsAssumption DEF FillTypes, Options
    <2>2. Value(position) = Premium(position)
        BY <1>2 DEF Value
    <2> QED BY <1>1, <2>1, <2>2 DEF Premium
<1>3. CASE position.kind \notin Options
    BY <1>1, <1>3 DEF Value
<1> QED BY <1>2, <1>3

LEMMA EntryNotNegative ==
    ASSUME FillTypes, EntryApart, position # NoPosition,
           position.kind # "PE", position.how # "limit"
    PROVE  position.entry >= 0
<1>1. position.kind \in {"CE", "UP", "DOWN"} /\ position.entry \in Int /\ position.raw \in Nat
    BY DEF FillTypes, Held
<1> QED BY <1>1 DEF EntryApart, Rising

\* A gain of a position that was neither a put nor a limit order takes a move.
LEMMA GainTakesMove ==
    ASSUME FillTypes, EntryApart, position # NoPosition,
           position.kind # "PE", position.how # "limit", NEW hour \in HourPct,
           Gross(position, Fill(position.kind, "market", ExitSide(position.kind), Value(position),
                                position.qty, hour)) > 0
    PROVE  Moved(position)
<1>1. /\ position.kind \in {"CE", "UP", "DOWN"} /\ position.qty \in Nat \ {0}
      /\ position.entry \in Int /\ position.raw \in Nat
    BY DEF FillTypes, Held
<1>2. Value(position) \in Nat
    BY EntryNotNegative, ValueType
<1>3. hour \in Nat /\ position.qty \in Nat
    BY <1>1, FillsAssumption
<1>4. PICK exit : exit = Fill(position.kind, "market", ExitSide(position.kind), Value(position),
                              position.qty, hour)
    OBVIOUS
<1>5. /\ exit \in Int
      /\ Value(position) = 0 => exit = 0
      /\ Value(position) > 0 /\ ExitSide(position.kind) = "BUY" => exit >= Value(position) + 5
      /\ Value(position) > 0 /\ ExitSide(position.kind) # "BUY" =>
            exit = 5 \/ (exit >= 5 /\ exit <= Value(position) - 5)
    BY <1>2, <1>3, <1>4, FillBounds
<1>6. Gross(position, exit) > 0
    BY <1>4
<1>7. CASE position.kind = "DOWN"
    <2>1. ExitSide(position.kind) = "BUY" /\ "DOWN" \notin Options
        BY <1>7 DEF ExitSide, Rising, Options
    <2>2. position.entry > exit
        <3>1. (position.entry - exit) * position.qty > 0
            BY <1>6, <1>7 DEF Gross
        <3>2. position.entry - exit <= 0 => (position.entry - exit) * position.qty <= 0
            BY <1>1, <1>5
        <3>3. ~(position.entry - exit <= 0)
            BY <1>1, <1>5, <3>1, <3>2, TimesType
        <3> QED BY <1>1, <1>5, <3>3
    <2>3. /\ position.raw > 0
          /\ position.entry = 5 \/ (position.entry >= 5 /\ position.entry <= position.raw - 5)
        BY <1>7 DEF EntryApart
    <2>4. Value(position) < position.raw
        <3>1. CASE Value(position) = 0
            BY <2>3, <3>1
        <3>2. CASE Value(position) > 0
            <4>1. exit >= Value(position) + 5
                BY <1>5, <2>1, <3>2
            <4> QED BY <1>1, <1>2, <1>5, <2>2, <2>3, <3>2, <4>1
        <3> QED BY <1>2, <3>1, <3>2
    <2> QED BY <1>7, <2>4 DEF Moved
<1>8. CASE position.kind \in Rising
    <2>1. ExitSide(position.kind) # "BUY" /\ position.kind # "DOWN"
        BY <1>8 DEF ExitSide, Rising
    <2>2. exit > position.entry
        <3>1. (exit - position.entry) * position.qty > 0
            BY <1>6, <2>1 DEF Gross
        <3>2. exit - position.entry <= 0 => (exit - position.entry) * position.qty <= 0
            BY <1>1, <1>5
        <3>3. ~(exit - position.entry <= 0)
            BY <1>1, <1>5, <3>1, <3>2, TimesType
        <3> QED BY <1>1, <1>5, <3>3
    <2>3. IF position.raw > 0 THEN position.entry >= position.raw + 5 ELSE position.entry = 0
        BY <1>8 DEF EntryApart
    <2>4. Value(position) > position.raw
        <3>1. Value(position) # 0
            <4>1. position.entry >= 0
                BY <1>1, <2>3
            <4> QED BY <1>1, <1>5, <2>2, <4>1
        <3>2. exit = 5 \/ (exit >= 5 /\ exit <= Value(position) - 5)
            BY <1>2, <1>5, <2>1, <3>1
        <3> QED BY <1>1, <1>2, <1>5, <2>2, <2>3, <3>1, <3>2
    <2> QED BY <2>1, <2>4 DEF Moved
<1> QED BY <1>1, <1>7, <1>8 DEF Rising

LEMMA EnterKeeps ==
    ASSUME FillsInv, NEW kind \in {"CE", "PE", "UP", "DOWN"}, NEW premium \in Premiums,
           NEW qty \in Quantities, NEW hour \in HourPct, Enter(kind, premium, qty, hour)
    PROVE  FillsInv'
<1>1. FillTypes /\ GainNeedsMove /\ spot \in Nat
    BY SpotType DEF FillsInv
<1>2. qty \in Nat \ {0} /\ hour \in Nat /\ premium \in Nat
    BY FillsAssumption
<1>3. PICK raw \in Nat : raw = IF kind \in Options THEN premium ELSE spot
    BY <1>1, <1>2
<1>4. PICK fill : fill = Fill(kind, "market", EntrySide(kind), raw, qty, hour)
    OBVIOUS
<1>5. /\ raw > 0 /\ UNCHANGED <<spot, live, iv, trade>>
      /\ position' = [kind |-> kind, qty |-> qty, entry |-> fill, raw |-> raw, how |-> "event"]
    BY <1>3, <1>4 DEF Enter, Opened
<1>6. /\ fill \in Int
      /\ EntrySide(kind) = "BUY" => fill >= raw + 5
      /\ EntrySide(kind) # "BUY" => fill = 5 \/ (fill >= 5 /\ fill <= raw - 5)
    BY <1>2, <1>4, <1>5, FillBounds
<1>7. position' \in Held
    BY <1>2, <1>5, <1>6 DEF Held
<1>8. FillTypes'
    BY <1>1, <1>5, <1>7 DEF FillTypes
<1>9. /\ position'.kind = kind /\ position'.entry = fill /\ position'.raw = raw
      /\ kind \in Rising <=> EntrySide(kind) = "BUY"
      /\ "DOWN" \notin Rising
    BY <1>5 DEF EntrySide, Rising
<1>10. EntryApart'
    BY <1>5, <1>6, <1>9 DEF EntryApart, Rising
<1>11. GainNeedsMove'
    BY <1>1, <1>5 DEF GainNeedsMove
<1> QED BY <1>8, <1>10, <1>11 DEF FillsInv

LEMMA PlaceKeeps ==
    ASSUME FillsInv, NEW type \in {"market", "limit", "stop"}, NEW limit \in Spots,
           NEW qty \in Quantities, NEW hour \in HourPct, PlaceOrder(type, limit, qty, hour)
    PROVE  FillsInv'
<1>1. FillTypes /\ GainNeedsMove /\ spot \in Nat
    BY SpotType DEF FillsInv
<1>2. qty \in Nat \ {0} /\ hour \in Nat /\ limit \in Nat
    BY FillsAssumption
<1>3. PICK raw \in Nat : raw = IF spot > 0 THEN spot ELSE limit
    BY <1>1, <1>2
<1>4. PICK fill : fill = Fill("UP", type, "BUY", raw, qty, hour)
    OBVIOUS
<1>5. /\ fill \in Int
      /\ raw = 0 => fill = 0
      /\ raw > 0 => fill >= raw + 5
    BY <1>2, <1>4, FillBounds
<1>6. PICK entry : entry = IF type = "limit" /\ limit > 0 THEN Min({fill, limit}) ELSE fill
    OBVIOUS
<1>7. /\ UNCHANGED <<spot, live, iv, trade>>
      /\ position' = [kind |-> "UP", qty |-> qty, entry |-> entry, raw |-> raw, how |-> type]
    BY <1>3, <1>4, <1>6 DEF PlaceOrder, Opened
<1>8. entry \in Int
    <2>1. fill \in Int /\ limit \in Int
        BY <1>2, <1>5
    <2>2. Min({fill, limit}) = IF fill <= limit THEN fill ELSE limit
        BY <2>1, TwoMax
    <2> QED BY <1>6, <2>1, <2>2
<1>9. position' \in Held
    BY <1>2, <1>7, <1>8 DEF Held
<1>10. FillTypes'
    BY <1>1, <1>7, <1>9 DEF FillTypes
<1>11. /\ position'.kind = "UP" /\ position'.entry = entry /\ position'.raw = raw /\ position'.how = type
    BY <1>7
<1>12. type # "limit" => entry = fill
    BY <1>6
<1>13. EntryApart'
    BY <1>5, <1>11, <1>12 DEF EntryApart
<1>14. GainNeedsMove'
    BY <1>1, <1>7 DEF GainNeedsMove
<1> QED BY <1>10, <1>13, <1>14 DEF FillsInv

LEMMA ExitKeeps ==
    ASSUME FillsInv, NEW hour \in HourPct, Exit(hour)
    PROVE  FillsInv'
<1>1. FillTypes /\ EntryApart /\ position # NoPosition /\ position' = NoPosition /\ UNCHANGED <<spot, live, iv>>
    BY DEF FillsInv, Exit
<1>2. PICK exit : exit = Fill(position.kind, "market", ExitSide(position.kind), Value(position),
                              position.qty, hour)
    OBVIOUS
<1>3. trade' = [kind |-> position.kind, how |-> position.how,
                gained |-> Gross(position, exit) > 0, moved |-> Moved(position)]
    BY <1>2 DEF Exit
<1>4. FillTypes' /\ EntryApart'
    BY <1>1 DEF FillTypes, EntryApart
<1>5. GainNeedsMove'
    <2>1. /\ trade'.kind = position.kind /\ trade'.how = position.how
          /\ trade'.gained = (Gross(position, exit) > 0) /\ trade'.moved = Moved(position)
        BY <1>3
    <2>2. position.kind # "PE" /\ position.how # "limit" /\ Gross(position, exit) > 0 => Moved(position)
        BY <1>1, <1>2, GainTakesMove
    <2> QED BY <2>1, <2>2 DEF GainNeedsMove
<1> QED BY <1>4, <1>5 DEF FillsInv

\* What a position that is no put and no limit order was entered at lies on the
\* losing side of the market's price (paper_executor.py:945-1025).
THEOREM FillsInvariant == FillSpec => []FillsInv
<1>1. FillsInv /\ [FillNext]_fillVars => FillsInv'
    <2> SUFFICES ASSUME FillsInv, [FillNext]_fillVars PROVE FillsInv'
        OBVIOUS
    <2>1. CASE UNCHANGED fillVars
        BY <2>1 DEF fillVars, FillsInv, FillTypes, EntryApart, GainNeedsMove
    <2>2. ASSUME NEW p \in Spots, NEW v \in Ivs, SpotTick(p, v) PROVE FillsInv'
        <3>1. v \in Nat /\ UNCHANGED <<live, position, trade>> /\ spot' = p
              /\ iv' = IF v > 0 THEN v ELSE iv
            BY <2>2, FillsAssumption DEF SpotTick
        <3>2. FillTypes'
            BY <3>1 DEF FillsInv, FillTypes
        <3> QED BY <3>1, <3>2 DEF FillsInv, EntryApart, GainNeedsMove
    <2>3. ASSUME NEW premium \in Premiums, Chain(premium) PROVE FillsInv'
        <3>1. premium \in Nat /\ UNCHANGED <<spot, iv, position, trade>>
              /\ live' = IF premium > 0 THEN premium ELSE live
            BY <2>3, FillsAssumption DEF Chain
        <3>2. FillTypes'
            BY <3>1 DEF FillsInv, FillTypes
        <3> QED BY <3>1, <3>2 DEF FillsInv, EntryApart, GainNeedsMove
    <2> QED BY <2>1, <2>2, <2>3, EnterKeeps, PlaceKeeps, ExitKeeps DEF FillNext
<1> QED BY <1>1, FillStart, PTL DEF FillSpec

\* Such a trade gains nothing before charges unless the price moved its way
\* (paper_executor.py:1100-1161, slippage_model.py:287-402).
THEOREM NoGainWithoutMove == FillSpec => []GainNeedsMove
<1>1. FillsInv => GainNeedsMove
    BY DEF FillsInv
<1> QED BY <1>1, FillsInvariant, PTL

-----------------------------------------------------------------------------
(* The bus: for any channels, handles and capacities, whoever subscribes,     *)
(* fails to subscribe or is slow.                                            *)

Msg == [channel : Channels, id : Nat \ {0}]

BusTypes ==
    /\ remote \subseteq Channels /\ keys \subseteq Channels
    /\ incoming \in Seq(Msg) /\ published \in Seq(Msg)
    /\ registered \in [Channels -> Seq(Handles)]
    /\ got \in [Handles -> Seq(Msg)] /\ missed \in [Handles -> SUBSET Msg]
    /\ since \in [Handles -> Nat \cup {Never, Lost}]

Ascending(s) == \A i, j \in DOMAIN s : i < j => s[i].id < s[j].id
Behind(m) == m \in ToSet(published) /\ \A i \in DOMAIN incoming : m.id < incoming[i].id

\* A message is known by its place, and what is on its way is in that order.
OnItsWay ==
    /\ \A i \in DOMAIN published : published[i].id = i
    /\ Ascending(incoming)
    /\ \A m \in ToSet(incoming) : m \in ToSet(published) /\ m.channel \in remote

\* What a handle was given or lost comes before all that is on its way.
GivenBefore == \A h \in Handles :
    /\ Ascending(got[h])
    /\ \A m \in ToSet(got[h]) \cup missed[h] : Behind(m)

\* Every handle that asked is registered, and no channel of one is ever new, so
\* that Redis sends nothing more to a handle later than it did at first.
AllRegistered ==
    /\ \A ch \in Channels : ToSet(registered[ch]) = {h \in Handles : since[h] # Never /\ ch \in Wants[h]}
    /\ \A h \in Handles : since[h] # Never => Wants[h] \subseteq keys

NothingLost == ~cut => \A h \in Handles : since[h] >= 0 => Given(h) = Owed(h)

BusInv == BusTypes /\ OnItsWay /\ GivenBefore /\ AllRegistered /\ NothingLost

BusSpec == BusInit /\ [][BusNext]_busVars

LEMMA AppendElements ==
    ASSUME NEW S, NEW s \in Seq(S), NEW e \in S
    PROVE  ToSet(Append(s, e)) = ToSet(s) \cup {e}
<1> DEFINE t == Append(s, e)
<1>1. DOMAIN s = 1 .. Len(s) /\ DOMAIN t = 1 .. Len(s) + 1 /\ Len(s) \in Nat
    BY AppendProperties
<1>2. \A i \in 1 .. Len(s) : t[i] = s[i]
    BY AppendProperties
<1>3. t[Len(s) + 1] = e
    BY AppendProperties
<1>4. \A i \in 1 .. Len(s) + 1 : i \in 1 .. Len(s) \/ i = Len(s) + 1
    BY <1>1
<1>5. Len(s) + 1 \in 1 .. Len(s) + 1 /\ \A i \in 1 .. Len(s) : i \in 1 .. Len(s) + 1
    BY <1>1
<1> HIDE DEF t
<1>6. {t[i] : i \in 1 .. Len(s) + 1} = {s[i] : i \in 1 .. Len(s)} \cup {e}
    BY <1>2, <1>3, <1>4, <1>5
<1> QED BY <1>1, <1>6 DEF ToSet, t

LEMMA TailElements ==
    ASSUME NEW S, NEW s \in Seq(S), s # <<>>
    PROVE  /\ ToSet(s) = {Head(s)} \cup ToSet(Tail(s))
           /\ \A i \in DOMAIN Tail(s) : i + 1 \in DOMAIN s /\ Tail(s)[i] = s[i + 1]
           /\ 1 \in DOMAIN s /\ Head(s) = s[1]
<1> DEFINE t == Tail(s)
<1>1. DOMAIN s = 1 .. Len(s) /\ DOMAIN t = 1 .. Len(s) - 1 /\ Len(s) \in Nat /\ Len(s) >= 1
    BY HeadTailProperties
<1>2. \A i \in DOMAIN t : i + 1 \in DOMAIN s /\ t[i] = s[i + 1]
    BY <1>1, HeadTailProperties
<1>3. 1 \in DOMAIN s /\ Head(s) = s[1]
    BY <1>1
<1>4. \A i \in DOMAIN s : i = 1 \/ (i - 1 \in DOMAIN t /\ t[i - 1] = s[i])
  <2> SUFFICES ASSUME NEW i \in DOMAIN s, i # 1
               PROVE  i - 1 \in DOMAIN t /\ t[i - 1] = s[i]
      OBVIOUS
  <2>1. i \in Int /\ i - 1 \in DOMAIN t /\ (i - 1) + 1 = i
      BY <1>1
  <2> QED BY <2>1, <1>2
<1> HIDE DEF t
<1>5. {s[i] : i \in DOMAIN s} = {Head(s)} \cup {t[i] : i \in DOMAIN t}
    BY <1>2, <1>3, <1>4
<1> QED BY <1>2, <1>3, <1>5 DEF ToSet, t

LEMMA AscendingAppend ==
    ASSUME NEW s \in Seq(Msg), NEW m \in Msg, Ascending(s), \A x \in ToSet(s) : x.id < m.id
    PROVE  Ascending(Append(s, m))
<1> DEFINE t == Append(s, m)
<1>1. DOMAIN s = 1 .. Len(s) /\ DOMAIN t = 1 .. Len(s) + 1 /\ Len(s) \in Nat
    BY AppendProperties
<1>2. \A i \in DOMAIN s : t[i] = s[i]
    BY AppendProperties
<1>3. t[Len(s) + 1] = m
    BY AppendProperties
<1> HIDE DEF t
<1> SUFFICES ASSUME NEW i \in DOMAIN t, NEW j \in DOMAIN t, i < j PROVE t[i].id < t[j].id
    BY DEF Ascending, t
<1>4. i \in DOMAIN s
    BY <1>1
<1>5. CASE j \in DOMAIN s
    BY <1>2, <1>4, <1>5 DEF Ascending
<1>6. CASE j = Len(s) + 1
    BY <1>2, <1>3, <1>4, <1>6 DEF ToSet
<1> QED BY <1>1, <1>5, <1>6

LEMMA AscendingTail ==
    ASSUME NEW s \in Seq(Msg), s # <<>>, Ascending(s)
    PROVE  Ascending(Tail(s)) /\ \A x \in ToSet(Tail(s)) : Head(s).id < x.id
<1> DEFINE t == Tail(s)
<1>1. /\ \A i \in DOMAIN t : i + 1 \in DOMAIN s /\ t[i] = s[i + 1]
      /\ 1 \in DOMAIN s /\ Head(s) = s[1]
    BY TailElements
<1>2. \A i \in DOMAIN t : i \in Nat \ {0}
    BY HeadTailProperties
<1> HIDE DEF t
<1>3. \A i, j \in DOMAIN t : i < j => i + 1 < j + 1
    BY <1>2
<1>4. \A i \in DOMAIN t : 1 < i + 1
    BY <1>2
<1>5. Ascending(t)
    BY <1>1, <1>3 DEF Ascending
<1>6. \A x \in ToSet(t) : Head(s).id < x.id
    BY <1>1, <1>4 DEF Ascending, ToSet
<1> QED BY <1>5, <1>6 DEF t

LEMMA BusStart == BusInit => BusInv
<1> SUFFICES ASSUME BusInit PROVE BusInv
    OBVIOUS
<1>1. ToSet(<<>>) = {}
    BY DEF ToSet
<1>2. <<>> \in Seq(Msg) /\ <<>> \in Seq(Handles)
    OBVIOUS
<1>3. BusTypes
    BY <1>2 DEF BusInit, BusTypes
<1>4. OnItsWay
    BY <1>1 DEF BusInit, OnItsWay, Ascending
<1>5. GivenBefore
    BY <1>1 DEF BusInit, GivenBefore, Ascending, Behind
<1>6. AllRegistered
    BY <1>1 DEF BusInit, AllRegistered
<1>7. \A h \in Handles : ~(since[h] >= 0)
    BY DEF BusInit, Never
<1>8. NothingLost
    BY <1>7 DEF NothingLost
<1> QED BY <1>3, <1>4, <1>5, <1>6, <1>8 DEF BusInv

\* What an action that leaves given and lost messages alone must show.
LEMMA SameHistory ==
    ASSUME BusInv, NEW h \in Handles,
           got'[h] = got[h], missed'[h] = missed[h], published' = published,
           incoming' = incoming \/ incoming' = <<>>
    PROVE  Ascending(got[h])' /\ \A m \in (ToSet(got[h]) \cup missed[h])' : Behind(m)'
<1>1. Ascending(got[h])'
    BY DEF BusInv, GivenBefore, Ascending
<1>2. \A m \in ToSet(got[h]) \cup missed[h] : Behind(m)
    BY DEF BusInv, GivenBefore
<1>3. \A m : Behind(m) => Behind(m)'
    BY DEF Behind
<1>4. (ToSet(got[h]) \cup missed[h])' = ToSet(got[h]) \cup missed[h]
    BY DEF ToSet
<1> QED BY <1>1, <1>2, <1>3, <1>4

LEMMA RegisteredKept ==
    ASSUME BusInv, NEW h \in Handles, since[h] = Never, NEW n \in Nat \cup {Lost},
           registered' = Registered(h), keys' = keys \cup Wants[h],
           since' = [since EXCEPT ![h] = n]
    PROVE  AllRegistered' /\ registered' \in [Channels -> Seq(Handles)] /\ keys' \subseteq Channels
<1>1. n # Never
    BY DEF Never, Lost
<1>2. \A g \in Handles : since'[g] = IF g = h THEN n ELSE since[g]
    BY DEF BusInv, BusTypes
<1>3. registered' \in [Channels -> Seq(Handles)]
    BY AppendProperties DEF Registered, BusInv, BusTypes
<1>4. ASSUME NEW ch \in Channels
      PROVE  ToSet(registered[ch])' = {g \in Handles : since[g] # Never /\ ch \in Wants[g]}'
  <2>1. registered[ch] \in Seq(Handles)
      BY DEF BusInv, BusTypes
  <2>2. ToSet(registered[ch]) = {g \in Handles : since[g] # Never /\ ch \in Wants[g]}
      BY DEF BusInv, AllRegistered
  <2>3. ToSet(Append(registered[ch], h)) = ToSet(registered[ch]) \cup {h}
      BY <2>1, AppendElements
  <2>4. CASE ch \in Wants[h]
    <3>1. registered'[ch] = Append(registered[ch], h)
        BY <2>4 DEF Registered
    <3> QED BY <1>1, <1>2, <2>2, <2>3, <2>4, <3>1
  <2>5. CASE ch \notin Wants[h]
    <3>1. registered'[ch] = registered[ch]
        BY <2>5 DEF Registered
    <3> QED BY <1>1, <1>2, <2>2, <2>5, <3>1
  <2> QED BY <2>4, <2>5
<1>5. \A g \in Handles : since'[g] # Never => Wants[g] \subseteq keys'
    BY <1>2 DEF BusInv, AllRegistered
<1>6. keys' \subseteq Channels
    BY BusAssumption DEF BusInv, BusTypes
<1> QED BY <1>3, <1>4, <1>5, <1>6 DEF AllRegistered

LEMMA SubscribeKeeps == ASSUME BusInv, NEW h \in Handles, Subscribe(h) PROVE BusInv'
<1>1. Len(published) \in Nat
    BY DEF BusInv, BusTypes
<1>2. AllRegistered' /\ registered' \in [Channels -> Seq(Handles)] /\ keys' \subseteq Channels
    BY <1>1, RegisteredKept DEF Subscribe
<1>3. BusTypes'
  <2>1. remote' \subseteq Channels
      BY BusAssumption DEF BusInv, BusTypes, Subscribe, NewChannels
  <2>2. since' \in [Handles -> Nat \cup {Never, Lost}]
      BY <1>1 DEF BusInv, BusTypes, Subscribe
  <2> QED BY <1>2, <2>1, <2>2 DEF BusInv, BusTypes, Subscribe
<1>4. OnItsWay'
    BY DEF BusInv, OnItsWay, Subscribe, Ascending, ToSet
<1>5. GivenBefore'
    BY SameHistory DEF GivenBefore, Subscribe
<1>6. NothingLost'
  <2> SUFFICES ASSUME ~cut, NEW g \in Handles, since'[g] >= 0 PROVE (Given(g) = Owed(g))'
      BY DEF NothingLost, Subscribe
  <2>1. CASE g # h
    <3>1. since'[g] = since[g]
        BY <2>1 DEF BusInv, BusTypes, Subscribe
    <3>2. since[g] # Never
        BY <3>1 DEF Never
    <3>3. Heard(g)' = Heard(g)
        BY <3>2 DEF BusInv, AllRegistered, Subscribe, NewChannels, Heard
    <3>4. Given(g) = Owed(g)
        BY <3>1 DEF BusInv, NothingLost
    <3> QED BY <3>1, <3>3, <3>4 DEF Given, Owed, Subscribe
  <2>2. CASE g = h
    <3>1. since'[h] = Len(published)
        BY DEF BusInv, BusTypes, Subscribe
    <3>2. \A m \in ToSet(published) : ~(m.id > Len(published))
        BY DEF BusInv, BusTypes, OnItsWay, ToSet
    <3>3. \A m \in ToSet(got[h]) : m \in ToSet(published)
        BY DEF BusInv, GivenBefore, Behind
    <3>4. Given(h)' = {} /\ Owed(h)' = {}
        BY <3>1, <3>2, <3>3 DEF Given, Owed, Subscribe
    <3> QED BY <2>2, <3>4
  <2> QED BY <2>1, <2>2
<1> QED BY <1>2, <1>3, <1>4, <1>5, <1>6 DEF BusInv

LEMMA SubscribeFailsKeeps == ASSUME BusInv, NEW h \in Handles, SubscribeFails(h) PROVE BusInv'
<1>1. AllRegistered' /\ registered' \in [Channels -> Seq(Handles)] /\ keys' \subseteq Channels
    BY RegisteredKept DEF SubscribeFails
<1>2. BusTypes'
  <2>1. since' \in [Handles -> Nat \cup {Never, Lost}]
      BY DEF BusInv, BusTypes, SubscribeFails
  <2> QED BY <1>1, <2>1 DEF BusInv, BusTypes, SubscribeFails
<1>3. OnItsWay'
    BY DEF BusInv, OnItsWay, SubscribeFails, Ascending, ToSet
<1>4. GivenBefore'
    BY SameHistory DEF GivenBefore, SubscribeFails
<1>5. NothingLost'
  <2> SUFFICES ASSUME ~cut, NEW g \in Handles, since'[g] >= 0 PROVE (Given(g) = Owed(g))'
      BY DEF NothingLost, SubscribeFails
  <2>1. g # h
      BY DEF BusInv, BusTypes, SubscribeFails, Lost
  <2>2. since'[g] = since[g]
      BY <2>1 DEF BusInv, BusTypes, SubscribeFails
  <2>3. Given(g) = Owed(g)
      BY <2>2 DEF BusInv, NothingLost
  <2> QED BY <2>2, <2>3 DEF Given, Owed, Heard, SubscribeFails
<1> QED BY <1>1, <1>2, <1>3, <1>4, <1>5 DEF BusInv

LEMMA PublishKeeps == ASSUME BusInv, NEW ch \in Channels, Publish(ch) PROVE BusInv'
<1> DEFINE msg == [channel |-> ch, id |-> Len(published) + 1]
<1>1. msg \in Msg /\ msg.id = Len(published) + 1 /\ msg.channel = ch
    BY DEF Msg, BusInv, BusTypes
<1>2. /\ published' = Append(published, msg)
      /\ incoming' = IF ch \in remote THEN Append(incoming, msg) ELSE incoming
    BY DEF Publish
<1>3. \A i \in DOMAIN published : published[i].id = i /\ i < msg.id
    BY DEF BusInv, BusTypes, OnItsWay
<1>4. incoming \in Seq(Msg) /\ published \in Seq(Msg)
    BY DEF BusInv, BusTypes
<1> HIDE DEF msg
<1>5. ToSet(published') = ToSet(published) \cup {msg}
    BY <1>1, <1>2, <1>4, AppendElements
<1>6. ToSet(incoming') = IF ch \in remote THEN ToSet(incoming) \cup {msg} ELSE ToSet(incoming)
  <2>1. ToSet(Append(incoming, msg)) = ToSet(incoming) \cup {msg}
      BY <1>1, <1>4, AppendElements
  <2>2. CASE ch \in remote
      BY <1>2, <2>1, <2>2
  <2>3. CASE ch \notin remote
      BY <1>2, <2>3
  <2> QED BY <2>2, <2>3
<1>7. \A m \in ToSet(published) : m.id < msg.id
    BY <1>3 DEF ToSet
<1>8. \A m \in ToSet(incoming) : m \in ToSet(published) /\ m.channel \in remote
    BY DEF BusInv, OnItsWay
<1>9. BusTypes'
    BY <1>1, <1>2, AppendProperties DEF BusInv, BusTypes, Publish
<1>10. OnItsWay'
  <2>1. \A i \in DOMAIN published' : published'[i].id = i
    <3>1. DOMAIN published' = 1 .. Len(published) + 1 /\ DOMAIN published = 1 .. Len(published)
          /\ Len(published) \in Nat
        BY <1>1, <1>2, <1>4, AppendProperties
    <3>2. \A i \in DOMAIN published : published'[i] = published[i]
        BY <1>1, <1>2, <1>4, <3>1, AppendProperties
    <3>3. published'[Len(published) + 1] = msg
        BY <1>1, <1>2, <1>4, AppendProperties
    <3>4. \A i \in DOMAIN published' : i \in DOMAIN published \/ i = Len(published) + 1
        BY <3>1
    <3> QED BY <1>1, <1>3, <3>2, <3>3, <3>4
  <2>2. Ascending(incoming')
    <3>1. Ascending(incoming)
        BY DEF BusInv, OnItsWay
    <3>2. Ascending(Append(incoming, msg))
        BY <1>1, <1>4, <1>7, <1>8, <3>1, AscendingAppend
    <3> QED BY <1>2, <3>1, <3>2
  <2>3. \A m \in ToSet(incoming') : m \in ToSet(published') /\ m.channel \in remote
      BY <1>1, <1>5, <1>6, <1>8
  <2>4. Ascending(incoming)'
      BY <2>2 DEF Ascending
  <2> QED BY <2>1, <2>3, <2>4 DEF OnItsWay, Publish, ToSet
<1>11. GivenBefore'
  <2> SUFFICES ASSUME NEW h \in Handles
               PROVE  Ascending(got[h])' /\ \A m \in (ToSet(got[h]) \cup missed[h])' : Behind(m)'
      BY DEF GivenBefore
  <2>1. got' = got /\ missed' = missed
      BY DEF Publish
  <2>2. Ascending(got[h])'
      BY <2>1 DEF BusInv, GivenBefore, Ascending
  <2>3. \A m \in ToSet(got[h]) \cup missed[h] : Behind(m)
      BY DEF BusInv, GivenBefore
  <2>4. ASSUME NEW m, Behind(m) PROVE Behind(m)'
    <3>1. m \in ToSet(published') /\ m.id < msg.id
        BY <1>5, <1>7, <2>4 DEF Behind
    <3>2. \A x \in ToSet(incoming) : m.id < x.id
        BY <2>4 DEF Behind, ToSet
    <3>3. \A x \in ToSet(incoming') : m.id < x.id
        BY <1>6, <3>1, <3>2
    <3>4. m \in ToSet(published)' /\ \A i \in DOMAIN incoming' : m.id < incoming'[i].id
        BY <3>1, <3>3 DEF ToSet
    <3> QED BY <3>4 DEF Behind
  <2>5. (ToSet(got[h]) \cup missed[h])' = ToSet(got[h]) \cup missed[h]
      BY <2>1 DEF ToSet
  <2> QED BY <2>2, <2>3, <2>4, <2>5
<1>12. AllRegistered'
    BY DEF BusInv, AllRegistered, Publish, ToSet
<1>13. NothingLost'
  <2> SUFFICES ASSUME ~cut, NEW h \in Handles, since[h] >= 0 PROVE (Given(h) = Owed(h))'
      BY DEF NothingLost, Publish
  <2>1. Given(h) = Owed(h)
      BY DEF BusInv, NothingLost
  <2>2. Given(h)' = Given(h)
      BY DEF Given, Publish, ToSet
  <2>3. msg \notin ToSet(published)
      BY <1>7, <1>1, <1>4
  <2>4. msg.channel \in Heard(h) => msg \in ToSet(incoming')
      BY <1>1, <1>6 DEF Heard
  <2>5. Owed(h)' = {m \in ToSet(published') : /\ m.id > since[h] /\ m.channel \in Heard(h)
                                              /\ m \notin ToSet(incoming') \cup missed[h]}
      BY DEF Owed, Heard, Publish, ToSet
  <2>6. Owed(h)' = Owed(h)
      BY <1>5, <1>6, <2>3, <2>4, <2>5 DEF Owed
  <2> QED BY <2>1, <2>2, <2>6
<1> QED BY <1>9, <1>10, <1>11, <1>12, <1>13 DEF BusInv

LEMMA DispatchKeeps == ASSUME BusInv, Dispatch PROVE BusInv'
<1> DEFINE msg == Head(incoming)
           To(h) == h \in ToSet(registered[msg.channel])
<1>1. incoming \in Seq(Msg) /\ incoming # <<>> /\ published \in Seq(Msg)
    BY DEF BusInv, BusTypes, Dispatch
<1>2. msg \in Msg
    BY <1>1
<1>3. /\ ToSet(incoming) = {msg} \cup ToSet(incoming')
      /\ Ascending(incoming') /\ \A x \in ToSet(incoming') : msg.id < x.id
    BY <1>1, TailElements, AscendingTail DEF Dispatch, BusInv, OnItsWay
<1>4. msg \in ToSet(published) /\ msg.channel \in remote
    BY <1>3 DEF BusInv, OnItsWay
<1>5. \A h \in Handles :
        /\ got'[h] = IF To(h) /\ ~Full(h) THEN Append(got[h], msg) ELSE got[h]
        /\ missed'[h] = IF To(h) /\ Full(h) THEN missed[h] \cup {msg} ELSE missed[h]
    BY DEF Dispatch
<1>6. /\ published' = published /\ remote' = remote /\ since' = since /\ registered' = registered
      /\ keys' = keys /\ cut' = cut
    BY DEF Dispatch
<1>7. \A h \in Handles : To(h) <=> since[h] # Never /\ msg.channel \in Wants[h]
    BY <1>2 DEF BusInv, AllRegistered, Msg
<1>8. \A h \in Handles : got[h] \in Seq(Msg) /\ missed[h] \subseteq Msg
    BY DEF BusInv, BusTypes
<1>9. BusTypes'
  <2>1. incoming' \in Seq(Msg)
      BY <1>1, HeadTailProperties DEF Dispatch
  <2>2. ASSUME NEW h \in Handles PROVE got'[h] \in Seq(Msg) /\ missed'[h] \subseteq Msg
    <3>1. got[h] \in Seq(Msg) /\ missed[h] \subseteq Msg
        BY <1>8
    <3> HIDE DEF msg, To
    <3>2. Append(got[h], msg) \in Seq(Msg)
        BY <1>2, <3>1, AppendProperties
    <3>3. got'[h] = Append(got[h], msg) \/ got'[h] = got[h]
        BY <1>5
    <3>4. missed'[h] = missed[h] \cup {msg} \/ missed'[h] = missed[h]
        BY <1>5
    <3> QED BY <1>2, <3>1, <3>2, <3>3, <3>4
  <2>3. got' \in [Handles -> Seq(Msg)] /\ missed' \in [Handles -> SUBSET Msg]
    <3>1. got' = [h \in Handles |-> got'[h]] /\ missed' = [h \in Handles |-> missed'[h]]
        BY DEF Dispatch
    <3> QED BY <2>2, <3>1
  <2> QED BY <1>6, <2>1, <2>3 DEF BusInv, BusTypes
<1> HIDE DEF msg, To
<1>10. \A h \in Handles : /\ Ascending(got[h])
                          /\ \A m \in ToSet(got[h]) \cup missed[h] : m \in ToSet(published) /\ m.id < msg.id
  <2> SUFFICES ASSUME NEW h \in Handles
               PROVE  /\ Ascending(got[h])
                      /\ \A m \in ToSet(got[h]) \cup missed[h] : m \in ToSet(published) /\ m.id < msg.id
      OBVIOUS
  <2>1. 1 \in DOMAIN incoming /\ incoming[1] = msg
      BY <1>1, TailElements DEF msg
  <2> QED BY <2>1 DEF BusInv, GivenBefore, Behind
<1>11. OnItsWay'
  <2>1. \A m \in ToSet(incoming') : m \in ToSet(published) /\ m.channel \in remote
      BY <1>3 DEF BusInv, OnItsWay
  <2> QED BY <1>3, <1>6, <2>1 DEF BusInv, OnItsWay, ToSet, Ascending
<1>12. \A h \in Handles : /\ got'[h] \in Seq(Msg)
                          /\ ToSet(got'[h]) = IF To(h) /\ ~Full(h) THEN ToSet(got[h]) \cup {msg} ELSE ToSet(got[h])
  <2> SUFFICES ASSUME NEW h \in Handles
               PROVE  /\ got'[h] \in Seq(Msg)
                      /\ ToSet(got'[h]) = IF To(h) /\ ~Full(h) THEN ToSet(got[h]) \cup {msg} ELSE ToSet(got[h])
      OBVIOUS
  <2>1. got[h] \in Seq(Msg)
      BY <1>8
  <2>2. Append(got[h], msg) \in Seq(Msg) /\ ToSet(Append(got[h], msg)) = ToSet(got[h]) \cup {msg}
      BY <1>2, <2>1, AppendElements, AppendProperties
  <2>3. got'[h] = IF To(h) /\ ~Full(h) THEN Append(got[h], msg) ELSE got[h]
      BY <1>5
  <2>4. CASE To(h) /\ ~Full(h)
      BY <2>2, <2>3, <2>4
  <2>5. CASE ~(To(h) /\ ~Full(h))
    <3>1. got'[h] = got[h]
        BY <2>3, <2>5
    <3> QED BY <2>1, <2>5, <3>1
  <2> QED BY <2>4, <2>5
<1>13. GivenBefore'
  <2> SUFFICES ASSUME NEW h \in Handles
               PROVE  Ascending(got[h])' /\ \A m \in (ToSet(got[h]) \cup missed[h])' : Behind(m)'
      BY DEF GivenBefore
  <2>1. Ascending(got'[h])
    <3>1. Ascending(Append(got[h], msg))
        BY <1>2, <1>8, <1>10, AscendingAppend
    <3> QED BY <1>5, <1>10, <3>1
  <2>2. ASSUME NEW m \in ToSet(got'[h]) \cup missed'[h] PROVE m \in ToSet(published) /\ m.id <= msg.id
    <3>1. m \in ToSet(got[h]) \cup missed[h] \/ m = msg
        BY <1>5, <1>12
    <3>2. msg.id \in Int /\ (m \in ToSet(got[h]) \cup missed[h] => m.id \in Int)
      <4>1. \A x \in Msg : x.id \in Int
          BY DEF Msg
      <4>2. ToSet(got[h]) \cup missed[h] \subseteq Msg
          BY <1>8 DEF ToSet
      <4> QED BY <1>2, <4>1, <4>2
    <3> QED BY <1>4, <1>10, <3>1, <3>2
  <2>3. ASSUME NEW m \in ToSet(got'[h]) \cup missed'[h], NEW i \in DOMAIN incoming'
        PROVE  m.id < incoming'[i].id
    <3>1. incoming'[i] \in ToSet(incoming') /\ incoming'[i] \in Msg
        BY <1>9 DEF ToSet, BusTypes
    <3>2. incoming'[i].id \in Int /\ msg.id \in Int /\ msg.id < incoming'[i].id
        BY <1>2, <1>3, <3>1 DEF Msg
    <3>3. m.id \in Int
      <4>1. got'[h] \in Seq(Msg) /\ missed'[h] \subseteq Msg
          BY <1>9 DEF BusTypes
      <4>2. m \in Msg
          BY <4>1 DEF ToSet
      <4> QED BY <4>2 DEF Msg
    <3> QED BY <2>2, <3>2, <3>3
  <2>4. (ToSet(got[h]) \cup missed[h])' = ToSet(got'[h]) \cup missed'[h] /\ ToSet(published)' = ToSet(published)
      BY <1>6 DEF ToSet
  <2>5. Ascending(got[h])'
      BY <2>1 DEF Ascending
  <2> QED BY <2>2, <2>3, <2>4, <2>5 DEF Behind
<1>14. AllRegistered'
    BY <1>6 DEF BusInv, AllRegistered, ToSet
<1>15. NothingLost'
  <2> SUFFICES ASSUME ~cut, NEW h \in Handles, since[h] >= 0 PROVE (Given(h) = Owed(h))'
      BY <1>6 DEF NothingLost
  <2>1. Given(h) = Owed(h)
      BY DEF BusInv, NothingLost
  <2>2. To(h) <=> msg.channel \in Heard(h)
    <3>1. since[h] # Never
        BY DEF Never
    <3> QED BY <1>4, <1>7, <3>1 DEF Heard
  <2>3. msg \notin ToSet(incoming') /\ msg \notin missed[h] /\ msg \notin ToSet(got[h])
    <3>1. ~(msg.id < msg.id)
        BY <1>2 DEF Msg
    <3> QED BY <1>3, <1>10, <3>1
  <2>4. Given(h)' = {m \in ToSet(got'[h]) : m.id > since[h]}
      BY <1>6 DEF Given, ToSet
  <2>5. Owed(h)' = {m \in ToSet(published) : /\ m.id > since[h] /\ m.channel \in Heard(h)
                                             /\ m \notin ToSet(incoming') \cup missed'[h]}
      BY <1>6 DEF Owed, Heard, ToSet
  <2>6. CASE To(h) /\ ~Full(h)
    <3>1. ToSet(got'[h]) = ToSet(got[h]) \cup {msg} /\ missed'[h] = missed[h]
        BY <1>5, <1>12, <2>6
    <3> QED BY <1>3, <1>4, <2>1, <2>2, <2>3, <2>4, <2>5, <2>6, <3>1 DEF Given, Owed
  <2>7. CASE To(h) /\ Full(h)
    <3>1. ToSet(got'[h]) = ToSet(got[h]) /\ missed'[h] = missed[h] \cup {msg}
        BY <1>5, <1>12, <2>7
    <3> QED BY <1>3, <2>1, <2>4, <2>5, <3>1 DEF Given, Owed
  <2>8. CASE ~To(h)
    <3>1. ToSet(got'[h]) = ToSet(got[h]) /\ missed'[h] = missed[h]
        BY <1>5, <1>12, <2>8
    <3> QED BY <1>3, <2>1, <2>2, <2>4, <2>5, <2>8, <3>1 DEF Given, Owed
  <2> QED BY <2>6, <2>7, <2>8
<1> QED BY <1>9, <1>11, <1>13, <1>14, <1>15 DEF BusInv

LEMMA DispatcherDiesKeeps == ASSUME BusInv, DispatcherDies PROVE BusInv'
<1>1. incoming' = incoming \/ incoming' = <<>>
    BY DEF DispatcherDies
<1>2. BusTypes'
  <2>1. incoming \in Seq(Msg)
      BY DEF BusInv, BusTypes
  <2>2. <<>> \in Seq(Msg)
      OBVIOUS
  <2>3. incoming' \in Seq(Msg)
      BY <1>1, <2>1, <2>2
  <2> QED BY <2>3 DEF BusInv, BusTypes, DispatcherDies
<1>3. OnItsWay'
    BY <1>1 DEF BusInv, OnItsWay, DispatcherDies, Ascending, ToSet
<1>4. GivenBefore'
    BY <1>1, SameHistory DEF GivenBefore, DispatcherDies
<1>5. AllRegistered'
    BY DEF BusInv, AllRegistered, DispatcherDies, ToSet
<1>6. NothingLost'
    BY DEF NothingLost, DispatcherDies
<1> QED BY <1>2, <1>3, <1>4, <1>5, <1>6 DEF BusInv

\* Nothing the invariant speaks of changes.
LEMMA BusSame ==
    ASSUME BusInv,
           UNCHANGED <<remote, incoming, registered, keys, got, missed, published, since, cut>>
    PROVE  BusInv'
<1>1. BusTypes'
    BY DEF BusInv, BusTypes
<1>2. OnItsWay'
    BY DEF BusInv, OnItsWay, Ascending, ToSet
<1>3. GivenBefore'
    BY SameHistory DEF GivenBefore
<1>4. AllRegistered'
    BY DEF BusInv, AllRegistered, ToSet
<1>5. NothingLost'
    BY DEF BusInv, NothingLost, Given, Owed, Heard, ToSet
<1> QED BY <1>1, <1>2, <1>3, <1>4, <1>5 DEF BusInv

\* The invariant of the bus, whatever fails (redis_publisher.py:135-196).
THEOREM BusInvariant == BusSpec => []BusInv
<1>1. BusInit => BusInv
    BY BusStart
<1>2. BusInv /\ [BusNext]_busVars => BusInv'
  <2> SUFFICES ASSUME BusInv, [BusNext]_busVars PROVE BusInv'
      OBVIOUS
  <2>1. CASE \E h \in Handles : Subscribe(h) \/ SubscribeFails(h) \/ Take(h)
      BY <2>1, SubscribeKeeps, SubscribeFailsKeeps, BusSame DEF Take
  <2>2. CASE \E ch \in Channels : Publish(ch)
      BY <2>2, PublishKeeps
  <2>3. CASE Dispatch
      BY <2>3, DispatchKeeps
  <2>4. CASE DispatcherDies
      BY <2>4, DispatcherDiesKeeps
  <2>5. CASE UNCHANGED busVars
      BY <2>5, BusSame DEF busVars
  <2> QED BY <2>1, <2>2, <2>3, <2>4, <2>5 DEF BusNext
<1> QED BY <1>1, <1>2, PTL DEF BusSpec

\* Messages come in order, each once, and none is lost but to a full queue, until
\* the connection fails (redis_publisher.py:135-196).
THEOREM AlwaysInOrder == BusSpec => []DeliveredInOrder
<1>1. BusInv => DeliveredInOrder
    BY DEF BusInv, GivenBefore, NothingLost, DeliveredInOrder, Ascending
<1> QED BY <1>1, BusInvariant, PTL

-----------------------------------------------------------------------------
(* The bus as one mailbox per handle: queue and messages on their way are one *)
(* box, which every step of the bus changes as a step of Mailboxes, or not.   *)

\* The queue of a handle holds the last of what it was given.
QueueInv ==
    /\ queue \in [Handles -> Seq(Msg)]
    /\ \A h \in Handles : /\ Ascending(queue[h]) /\ ToSet(queue[h]) \subseteq ToSet(got[h])
                          /\ since[h] = Never => queue[h] = <<>>

BoxInv == BusInv /\ QueueInv

\* The abstract step of a step.
Boxed == [Boxes!Next]_<<Len(published), remote, Joined, Box>>

LEMMA BoxFacts ==
    ASSUME BoxInv
    PROVE  /\ incoming \in Seq(Msg) /\ published \in Seq(Msg) /\ Len(published) \in Nat
           /\ Ascending(incoming)
           /\ \A m \in ToSet(incoming) : m \in Msg /\ m.channel \in remote /\ m.id \in 1 .. Len(published)
           /\ \A h \in Handles :
                  /\ queue[h] \in Seq(Msg) /\ Ascending(queue[h])
                  /\ \A m \in ToSet(queue[h]) : m \in Msg /\ \A n \in ToSet(incoming) : m.id < n.id
           /\ \A ch \in Channels, h \in Handles :
                  h \in ToSet(registered[ch]) <=> h \in Joined /\ ch \in Wants[h]
<1>1. incoming \in Seq(Msg) /\ published \in Seq(Msg) /\ Len(published) \in Nat
    BY DEF BoxInv, BusInv, BusTypes
<1>2. ASSUME NEW m \in ToSet(incoming) PROVE m \in Msg /\ m.channel \in remote /\ m.id \in 1 .. Len(published)
  <2>1. m \in ToSet(published) /\ m.channel \in remote
      BY DEF BoxInv, BusInv, OnItsWay
  <2>2. PICK i \in 1 .. Len(published) : m = published[i]
      BY <1>1, <2>1 DEF ToSet
  <2>3. published[i].id = i
      BY <1>1, <2>2 DEF BoxInv, BusInv, OnItsWay
  <2> QED BY <1>1, <2>1, <2>2, <2>3
<1>3. ASSUME NEW h \in Handles
      PROVE  /\ queue[h] \in Seq(Msg) /\ Ascending(queue[h])
             /\ \A m \in ToSet(queue[h]) : m \in Msg /\ \A n \in ToSet(incoming) : m.id < n.id
  <2>1. queue[h] \in Seq(Msg) /\ Ascending(queue[h]) /\ ToSet(queue[h]) \subseteq ToSet(got[h])
      BY DEF BoxInv, QueueInv
  <2>2. ASSUME NEW m \in ToSet(queue[h]) PROVE m \in Msg /\ \A n \in ToSet(incoming) : m.id < n.id
    <3>1. m \in Msg
        BY <2>1 DEF ToSet
    <3>2. Behind(m)
        BY <2>1, <2>2 DEF BoxInv, BusInv, GivenBefore
    <3> QED BY <3>1, <3>2 DEF Behind, ToSet
  <2> QED BY <2>1, <2>2
<1>4. \A ch \in Channels, h \in Handles :
          h \in ToSet(registered[ch]) <=> h \in Joined /\ ch \in Wants[h]
    BY DEF BoxInv, BusInv, AllRegistered, Joined
<1> QED BY <1>1, <1>2, <1>3, <1>4 DEF BoxInv, BusInv, OnItsWay

LEMMA AscendingSize ==
    ASSUME NEW s \in Seq(Msg), Ascending(s)
    PROVE  IsFiniteSet(ToSet(s)) /\ Cardinality(ToSet(s)) = Len(s)
<1> DEFINE D == 1 .. Len(s)
           E == ToSet(s)
           b == [i \in D |-> s[i]]
<1>1. Len(s) \in Nat /\ DOMAIN s = D
    BY AppendProperties
<1>2. E = {s[i] : i \in D}
    BY <1>1 DEF ToSet
<1>3. \A i, j \in D : s[i] = s[j] => i = j
  <2> SUFFICES ASSUME NEW i \in D, NEW j \in D, s[i] = s[j], i # j PROVE FALSE
      OBVIOUS
  <2>1. i < j \/ j < i
      BY <1>1
  <2>2. s[i].id \in Nat /\ s[j].id \in Nat
    <3>1. s[i] \in Msg /\ s[j] \in Msg
        BY <1>1
    <3> QED BY <3>1 DEF Msg
  <2> QED BY <1>1, <2>1, <2>2 DEF Ascending
<1>4. b \in Bijection(D, E)
  <2>1. b \in [D -> E] /\ \A i \in D : b[i] = s[i]
      BY <1>2
  <2>2. \A e \in E : \E i \in D : e = s[i]
      BY <1>2
  <2> HIDE DEF D, E, b
  <2>3. b \in Surjection(D, E)
      BY <2>1, <2>2 DEF Surjection
  <2>4. b \in Injection(D, E)
      BY <1>3, <2>1 DEF Injection, IsInjective
  <2> QED BY <2>3, <2>4 DEF Bijection
<1>5. IsFiniteSet(D) /\ Cardinality(D) = Len(s)
  <2>1. 1 \in Int /\ Len(s) \in Int
      BY <1>1
  <2> QED BY <1>1, <2>1, FS_Interval
<1>6. ExistsBijection(D, E)
    BY <1>4 DEF ExistsBijection
<1> HIDE DEF D, E, b
<1>7. IsFiniteSet(E) /\ Cardinality(E) = Cardinality(D)
    BY <1>5, <1>6, FS_Bijection
<1> QED BY <1>5, <1>7 DEF E

\* What is in a box: older messages in the queue, newer ones on their way.
LEMMA BoxParts ==
    ASSUME NEW h \in Handles
    PROVE  Box[h] = ToSet(queue[h]) \cup {m \in ToSet(incoming) : h \in ToSet(registered[m.channel])}
    BY DEF Box, Underway

LEMMA BoxIs == Box = [h \in Handles |-> Box[h]] /\ Box' = [h \in Handles |-> Box'[h]]
    BY DEF Box

LEMMA BoxPartsNext ==
    ASSUME NEW h \in Handles
    PROVE  Box'[h] = ToSet(queue'[h]) \cup {m \in ToSet(incoming') : h \in ToSet(registered'[m.channel])}
  BY DEF Box, Underway, ToSet

LEMMA BoxStart == BusInit => Boxes!Init /\ QueueInv
<1> SUFFICES ASSUME BusInit PROVE Boxes!Init /\ QueueInv
    OBVIOUS
<1> USE DEF BusInit
<1>1. ToSet(<<>>) = {} /\ Len(<<>>) = 0
    BY DEF ToSet
<1>2. Box = [h \in Handles |-> {}]
    BY <1>1 DEF Box, Underway
<1>3. Joined = {}
    BY DEF Joined
<1>4. <<>> \in Seq(Msg) /\ Ascending(<<>>)
    BY EmptySeq DEF Ascending
<1> QED BY <1>1, <1>2, <1>3, <1>4 DEF Boxes!Init, QueueInv

LEMMA PublishBoxed == ASSUME BoxInv, NEW ch \in Channels, Publish(ch) PROVE QueueInv' /\ Boxed
<1> DEFINE msg == [channel |-> ch, id |-> Len(published) + 1]
<1>1. msg \in Msg /\ msg.channel = ch
    BY BoxFacts DEF Msg
<1>2. /\ published' = Append(published, msg)
      /\ incoming' = IF ch \in remote THEN Append(incoming, msg) ELSE incoming
      /\ UNCHANGED <<remote, registered, queue, got, since>>
    BY DEF Publish
<1>3. Len(published') = Len(published) + 1
    BY <1>1, <1>2, BoxFacts, AppendProperties
<1>4. Joined' = Joined
    BY <1>2 DEF Joined
<1>5. ToSet(incoming') = IF ch \in remote THEN ToSet(incoming) \cup {msg} ELSE ToSet(incoming)
  <2> HIDE DEF msg
  <2>1. CASE ch \in remote
      BY <1>1, <1>2, <2>1, BoxFacts, AppendElements
  <2>2. CASE ch \notin remote
      BY <1>2, <2>2
  <2> QED BY <2>1, <2>2
<1>6. ASSUME NEW h \in Handles
      PROVE  Box'[h] = IF h \in Joined /\ ch \in Wants[h] \cap remote THEN Box[h] \cup {msg} ELSE Box[h]
  <2>1. h \in ToSet(registered[ch]) <=> h \in Joined /\ ch \in Wants[h]
      BY BoxFacts
  <2>2. Box[h] = ToSet(queue[h]) \cup {m \in ToSet(incoming) : h \in ToSet(registered[m.channel])}
      BY BoxParts
  <2>3. Box'[h] = ToSet(queue[h]) \cup {m \in ToSet(incoming') : h \in ToSet(registered[m.channel])}
      BY <1>2, BoxPartsNext
  <2> HIDE DEF msg
  <2>4. CASE ch \in remote
    <3>1. ToSet(incoming') = ToSet(incoming) \cup {msg}
        BY <1>5, <2>4
    <3> QED BY <1>1, <2>1, <2>2, <2>3, <2>4, <3>1
  <2>5. CASE ch \notin remote
      BY <1>5, <2>2, <2>3, <2>5
  <2> QED BY <2>4, <2>5
<1>7. QueueInv'
    BY <1>2 DEF BoxInv, QueueInv, Ascending, ToSet
<1>8. Box' = [h \in Handles |-> IF h \in Joined /\ ch \in Wants[h] \cap remote THEN Box[h] \cup {msg} ELSE Box[h]]
    BY <1>6, BoxIs
<1>9. Boxes!Send(ch)
    BY <1>2, <1>3, <1>4, <1>8 DEF Boxes!Send, Boxes!Message
<1> QED BY <1>7, <1>9 DEF Boxed, Boxes!Next

LEMMA TakeBoxed == ASSUME BoxInv, NEW h \in Handles, Take(h) PROVE QueueInv' /\ Boxed
<1> DEFINE m == Head(queue[h])
           rest == Tail(queue[h])
<1>1. /\ queue[h] # <<>> /\ queue' = [queue EXCEPT ![h] = rest]
      /\ UNCHANGED <<remote, incoming, registered, got, published, since>>
    BY DEF Take
<1>2. queue \in [Handles -> Seq(Msg)] /\ queue[h] \in Seq(Msg) /\ Ascending(queue[h])
    BY DEF BoxInv, QueueInv
<1>3. ToSet(queue[h]) = {m} \cup ToSet(rest)
    BY <1>1, <1>2, TailElements
<1>4. Ascending(rest) /\ \A x \in ToSet(rest) : m.id < x.id
    BY <1>1, <1>2, AscendingTail
<1>5. m \in Msg /\ rest \in Seq(Msg)
    BY <1>1, <1>2, HeadTailProperties
<1>6. \A x \in ToSet(incoming) : m.id < x.id
    BY <1>3, BoxFacts
<1> HIDE DEF m, rest
<1>7. queue'[h] = rest /\ \A g \in Handles \ {h} : queue'[g] = queue[g]
    BY <1>1, <1>2
<1>8. QueueInv'
  <2>1. queue' \in [Handles -> Seq(Msg)]
      BY <1>1, <1>2, <1>5
  <2>2. ASSUME NEW g \in Handles
        PROVE  /\ Ascending(queue'[g]) /\ ToSet(queue'[g]) \subseteq ToSet(got[g])
               /\ since[g] = Never => queue'[g] = <<>>
    <3>1. CASE g = h
        BY <1>1, <1>3, <1>4, <1>7, <3>1 DEF BoxInv, QueueInv
    <3>2. CASE g # h
        BY <1>7, <3>2 DEF BoxInv, QueueInv
    <3> QED BY <3>1, <3>2
  <2> QED BY <1>1, <2>1, <2>2 DEF QueueInv, Ascending, ToSet
<1>9. ASSUME NEW x \in Box[h], x # m PROVE m.id < x.id
    BY <1>3, <1>4, <1>6, <1>9, BoxParts
<1>10. m.id \in Nat /\ m \in Box[h]
    BY <1>3, <1>5, BoxParts DEF Msg
<1>11. {x \in Box[h] : x.id < m.id} = {}
  <2> SUFFICES ASSUME NEW x \in Box[h], x.id < m.id PROVE FALSE
      OBVIOUS
  <2>1. x \in Msg
      BY BoxFacts, BoxParts
  <2>2. x.id \in Nat
      BY <2>1 DEF Msg
  <2> QED BY <1>9, <1>10, <2>2
<1>12. ASSUME NEW g \in Handles PROVE Box'[g] = IF g = h THEN Box[h] \ {m} ELSE Box[g]
  <2>1. Box[g] = ToSet(queue[g]) \cup {x \in ToSet(incoming) : g \in ToSet(registered[x.channel])}
      BY BoxParts
  <2>2. Box'[g] = ToSet(queue'[g]) \cup {x \in ToSet(incoming) : g \in ToSet(registered[x.channel])}
      BY <1>1, BoxPartsNext
  <2>3. CASE g = h
    <3>1. m \notin ToSet(rest) /\ m \notin ToSet(incoming)
        BY <1>4, <1>6, <1>10
    <3> QED BY <1>3, <1>7, <2>1, <2>2, <2>3, <3>1
  <2>4. CASE g # h
      BY <1>7, <2>1, <2>2, <2>4
  <2> QED BY <2>3, <2>4
<1>13. Box' = [Box EXCEPT ![h] = Box[h] \ {m}]
  <2>1. [Box EXCEPT ![h] = Box[h] \ {m}] = [g \in Handles |-> IF g = h THEN Box[h] \ {m} ELSE Box[g]]
      BY BoxIs
  <2> QED BY <1>12, <2>1, BoxIs
<1>14. Joined' = Joined
    BY <1>1 DEF Joined
<1>15. Boxes!Take(h)
    BY <1>1, <1>10, <1>11, <1>13, <1>14 DEF Boxes!Take, Boxes!Older
<1> QED BY <1>8, <1>15 DEF Boxed, Boxes!Next

LEMMA SameQueues ==
    ASSUME BoxInv, queue' = queue, got' = got, \A h \in Handles : since'[h] = Never => since[h] = Never
    PROVE  QueueInv'
<1>1. \A h \in Handles : /\ Ascending(queue[h]) /\ ToSet(queue[h]) \subseteq ToSet(got[h])
                         /\ since[h] = Never => queue[h] = <<>>
    BY DEF BoxInv, QueueInv
<1>2. \A h \in Handles : Ascending(queue[h])' /\ (ToSet(queue[h]) \subseteq ToSet(got[h]))'
    BY <1>1 DEF Ascending, ToSet
<1>3. queue' \in [Handles -> Seq(Msg)]
    BY DEF BoxInv, QueueInv
<1> QED BY <1>1, <1>2, <1>3 DEF QueueInv

LEMMA DiesBoxed == ASSUME BoxInv, DispatcherDies PROVE QueueInv' /\ Boxed
<1>1. incoming' \in {incoming, <<>>} /\ UNCHANGED <<remote, registered, queue, got, published, since>>
    BY DEF DispatcherDies
<1>2. QueueInv'
    BY <1>1, SameQueues
<1>3. Joined' = Joined
    BY <1>1 DEF Joined
<1>4. CASE incoming' = incoming
  <2>1. Box' = Box
      BY <1>1, <1>4 DEF Box, Underway, ToSet
  <2> QED BY <1>1, <1>2, <1>3, <2>1 DEF Boxed
<1>5. CASE incoming' = <<>> /\ incoming # <<>>
  <2> DEFINE last == Head(incoming).id - 1
  <2>1. ToSet(incoming) = {Head(incoming)} \cup ToSet(Tail(incoming))
        /\ \A x \in ToSet(Tail(incoming)) : Head(incoming).id < x.id
      BY <1>5, BoxFacts, TailElements, AscendingTail
  <2>2. Head(incoming).id \in 1 .. Len(published) /\ Len(published) \in Nat
      BY <2>1, BoxFacts
  <2>3. last \in 0 .. Len(published)
      BY <2>2
  <2>4. ToSet(<<>>) = {}
      BY DEF ToSet
  <2>5. \A x \in ToSet(incoming) : x.id \in Nat /\ ~(x.id <= last)
    <3> SUFFICES ASSUME NEW x \in ToSet(incoming) PROVE x.id \in Nat /\ ~(x.id <= last)
        OBVIOUS
    <3>1. x.id \in Nat
        BY BoxFacts
    <3> QED BY <2>1, <2>2, <3>1
  <2>6. \A h \in Handles : \A x \in ToSet(queue[h]) : x.id <= last
    <3> SUFFICES ASSUME NEW h \in Handles, NEW x \in ToSet(queue[h]) PROVE x.id <= last
        OBVIOUS
    <3>1. x \in Msg /\ x.id < Head(incoming).id
        BY <2>1, BoxFacts
    <3>2. x.id \in Nat
        BY <3>1 DEF Msg
    <3> QED BY <2>2, <3>1, <3>2
  <2> HIDE DEF last
  <2>7. ASSUME NEW h \in Handles PROVE Box'[h] = {x \in Box[h] : x.id <= last}
    <3>1. Box[h] = ToSet(queue[h]) \cup {x \in ToSet(incoming) : h \in ToSet(registered[x.channel])}
        BY BoxParts
    <3>2. Box'[h] = ToSet(queue[h])
        BY <1>1, <1>5, <2>4, BoxPartsNext
    <3> QED BY <2>5, <2>6, <3>1, <3>2
  <2>8. Box' = [h \in Handles |-> {x \in Box[h] : x.id <= last}]
      BY <2>7, BoxIs
  <2>9. Boxes!Fail
      BY <1>1, <1>3, <2>3, <2>8 DEF Boxes!Fail
  <2> QED BY <1>2, <2>9 DEF Boxed, Boxes!Next
<1> QED BY <1>1, <1>4, <1>5

\* Subscribing, with or without an answer from Redis.
Joins(h, n, new) ==
    /\ since[h] = Never /\ n \in Nat \cup {Lost}
    /\ registered' = Registered(h) /\ remote' = remote \cup new
    /\ since' = [since EXCEPT ![h] = n]
    /\ UNCHANGED <<incoming, queue, got, published>>

LEMMA JoinBoxed ==
    ASSUME BoxInv, NEW h \in Handles, NEW n, NEW new \in SUBSET Wants[h], Joins(h, n, new)
    PROVE  QueueInv' /\ Boxed
<1> USE DEF Joins
<1>1. since \in [Handles -> Nat \cup {Never, Lost}] /\ registered \in [Channels -> Seq(Handles)]
    BY DEF BoxInv, BusInv, BusTypes
<1>2. since'[h] = n /\ n # Never /\ \A g \in Handles \ {h} : since'[g] = since[g]
    BY <1>1 DEF Never, Lost
<1>3. QueueInv'
  <2>1. \A g \in Handles : since'[g] = Never => since[g] = Never
      BY <1>2
  <2> QED BY <2>1, SameQueues
<1>4. h \notin Joined /\ Joined' = Joined \cup {h}
    BY <1>2 DEF Joined
<1>5. ASSUME NEW ch \in Channels
      PROVE  ToSet(registered'[ch]) = ToSet(registered[ch]) \cup (IF ch \in Wants[h] THEN {h} ELSE {})
  <2>1. registered[ch] \in Seq(Handles)
      BY <1>1
  <2>2. registered'[ch] = IF ch \in Wants[h] THEN Append(registered[ch], h) ELSE registered[ch]
      BY DEF Registered
  <2>3. CASE ch \in Wants[h]
      BY <2>1, <2>2, <2>3, AppendElements
  <2>4. CASE ch \notin Wants[h]
      BY <2>2, <2>4
  <2> QED BY <2>3, <2>4
<1> DEFINE early == {m \in ToSet(incoming) : m.channel \in Wants[h]}
<1>6. ASSUME NEW m \in ToSet(incoming)
      PROVE  m.channel \in Channels /\ m.channel \in remote /\ m \in [channel : Channels, id : 1 .. Len(published)]
    BY BoxFacts DEF Msg
<1>7. early \in SUBSET [channel : Wants[h] \cap remote, id : 1 .. Len(published)]
  <2> SUFFICES ASSUME NEW m \in early PROVE m \in [channel : Wants[h] \cap remote, id : 1 .. Len(published)]
      OBVIOUS
  <2>1. m \in [channel : Channels, id : 1 .. Len(published)] /\ m.channel \in Wants[h] \cap remote
      BY <1>6
  <2> QED BY <2>1
<1>8. ASSUME NEW g \in Handles PROVE Box'[g] = IF g = h THEN early ELSE Box[g]
  <2>1. Box[g] = ToSet(queue[g]) \cup {x \in ToSet(incoming) : g \in ToSet(registered[x.channel])}
      BY BoxParts
  <2>2. Box'[g] = ToSet(queue[g]) \cup {x \in ToSet(incoming) : g \in ToSet(registered'[x.channel])}
      BY BoxPartsNext
  <2>3. CASE g = h
    <3>1. \A ch \in Channels : h \notin ToSet(registered[ch])
        BY <1>4, BoxFacts
    <3>2. ToSet(queue[h]) = {}
        BY DEF BoxInv, QueueInv, ToSet
    <3>3. \A x \in ToSet(incoming) : h \in ToSet(registered'[x.channel]) <=> x.channel \in Wants[h]
        BY <1>5, <1>6, <3>1
    <3> QED BY <2>2, <2>3, <3>2, <3>3
  <2>4. CASE g # h
    <3>1. \A x \in ToSet(incoming) : g \in ToSet(registered'[x.channel]) <=> g \in ToSet(registered[x.channel])
        BY <1>5, <1>6, <2>4
    <3> QED BY <2>1, <2>2, <2>4, <3>1
  <2> QED BY <2>3, <2>4
<1> HIDE DEF early
<1>9. Box' = [Box EXCEPT ![h] = early]
  <2>1. [Box EXCEPT ![h] = early] = [g \in Handles |-> IF g = h THEN early ELSE Box[g]]
      BY BoxIs
  <2> QED BY <1>8, <2>1, BoxIs
<1>10. Boxes!Join(h)
    BY <1>4, <1>7, <1>9 DEF Boxes!Join
<1> QED BY <1>3, <1>10 DEF Boxed, Boxes!Next

\* The abstract specification counts as its instance does.
LEMMA CountsAlike ==
    ASSUME NEW S
    PROVE  Boxes!Cardinality(S) = Cardinality(S)
  BY DEF Cardinality, Boxes!Cardinality

LEMMA DispatchBoxed == ASSUME BoxInv, Dispatch PROVE QueueInv' /\ Boxed
<1> DEFINE msg == Head(incoming)
           To(h) == h \in ToSet(registered[msg.channel])
           crowded == {h \in Handles : To(h) /\ Full(h)}
<1>1. /\ incoming # <<>> /\ incoming' = Tail(incoming)
      /\ UNCHANGED <<remote, registered, published, since>>
      /\ queue' = [h \in Handles |-> IF To(h) /\ ~Full(h) THEN Append(queue[h], msg) ELSE queue[h]]
      /\ got' = [h \in Handles |-> IF To(h) /\ ~Full(h) THEN Append(got[h], msg) ELSE got[h]]
    BY DEF Dispatch
<1>2. /\ ToSet(incoming) = {msg} \cup ToSet(incoming')
      /\ \A x \in ToSet(incoming') : msg.id < x.id
    BY <1>1, BoxFacts, TailElements, AscendingTail
<1>3. msg \in Msg /\ msg.id \in Nat
    BY <1>2, BoxFacts DEF Msg
<1>4. Joined' = Joined
    BY <1>1 DEF Joined
<1>5. got \in [Handles -> Seq(Msg)]
    BY DEF BoxInv, BusInv, BusTypes
<1>6. \A h \in Handles : To(h) => since[h] # Never
  <2>1. msg.channel \in Channels
      BY <1>3 DEF Msg
  <2> QED BY <2>1, BoxFacts DEF Joined
<1> HIDE DEF msg, crowded, To
<1>7. ASSUME NEW h \in Handles
      PROVE  /\ queue'[h] \in Seq(Msg) /\ Ascending(queue'[h]) /\ ToSet(queue'[h]) \subseteq ToSet(got'[h])
             /\ since[h] = Never => queue'[h] = <<>>
             /\ ToSet(queue'[h]) = IF To(h) /\ ~Full(h) THEN ToSet(queue[h]) \cup {msg} ELSE ToSet(queue[h])
  <2>1. /\ queue[h] \in Seq(Msg) /\ Ascending(queue[h]) /\ \A x \in ToSet(queue[h]) : x.id < msg.id
        /\ ToSet(queue[h]) \subseteq ToSet(got[h]) /\ got[h] \in Seq(Msg)
        /\ since[h] = Never => queue[h] = <<>>
      BY <1>2, <1>5, BoxFacts DEF BoxInv, QueueInv
  <2>2. CASE To(h) /\ ~Full(h)
    <3>1. queue'[h] = Append(queue[h], msg) /\ got'[h] = Append(got[h], msg)
        BY <1>1, <2>2
    <3>2. /\ ToSet(Append(queue[h], msg)) = ToSet(queue[h]) \cup {msg}
          /\ ToSet(Append(got[h], msg)) = ToSet(got[h]) \cup {msg}
        BY <1>3, <2>1, AppendElements
    <3>3. Ascending(Append(queue[h], msg)) /\ Append(queue[h], msg) \in Seq(Msg)
        BY <1>3, <2>1, AscendingAppend, AppendProperties
    <3> QED BY <1>6, <2>1, <2>2, <3>1, <3>2, <3>3
  <2>3. CASE ~(To(h) /\ ~Full(h))
    <3>1. queue'[h] = queue[h] /\ got'[h] = got[h]
        BY <1>1, <2>3
    <3> QED BY <2>1, <2>3, <3>1
  <2> QED BY <2>2, <2>3
<1>8. QueueInv'
  <2>1. queue' \in [Handles -> Seq(Msg)]
    <3>1. queue' = [h \in Handles |-> queue'[h]]
        BY <1>1
    <3> QED BY <1>7, <3>1
  <2>2. \A h \in Handles : Ascending(queue[h])' /\ (ToSet(queue[h]) \subseteq ToSet(got[h]))'
      BY <1>7 DEF Ascending, ToSet
  <2> QED BY <1>1, <1>7, <2>1, <2>2 DEF QueueInv
<1>9. ASSUME NEW h \in Handles PROVE Box'[h] = IF h \in crowded THEN Box[h] \ {msg} ELSE Box[h]
  <2>1. Box[h] = ToSet(queue[h]) \cup {x \in ToSet(incoming) : h \in ToSet(registered[x.channel])}
      BY BoxParts
  <2>2. Box'[h] = ToSet(queue'[h]) \cup {x \in ToSet(incoming') : h \in ToSet(registered[x.channel])}
      BY <1>1, BoxPartsNext
  <2>3. To(h) <=> h \in ToSet(registered[msg.channel])
      BY DEF To
  <2>4. h \in crowded <=> To(h) /\ Full(h)
      BY DEF crowded
  <2>5. msg \notin ToSet(incoming') /\ msg \notin ToSet(queue[h])
      BY <1>2, <1>3, BoxFacts
  <2>6. CASE To(h) /\ ~Full(h)
      BY <1>2, <1>7, <2>1, <2>2, <2>3, <2>4, <2>6
  <2>7. CASE To(h) /\ Full(h)
      BY <1>2, <1>7, <2>1, <2>2, <2>3, <2>4, <2>5, <2>7
  <2>8. CASE ~To(h)
      BY <1>2, <1>7, <2>1, <2>2, <2>3, <2>4, <2>8
  <2> QED BY <2>6, <2>7, <2>8
<1>10. Box' = [h \in Handles |-> IF h \in crowded THEN Box[h] \ {msg} ELSE Box[h]]
    BY <1>9, BoxIs
<1>11. CASE crowded = {}
  <2>1. Box' = Box
      BY <1>10, <1>11, BoxIs
  <2> QED BY <1>1, <1>4, <1>8, <2>1 DEF Boxed
<1>12. CASE crowded # {}
  <2>1. ASSUME NEW h \in crowded
        PROVE  h \in Handles /\ msg \in Box[h] /\ Cardinality({x \in Box[h] : x.id < msg.id}) >= HandleCapacity
    <3>1. h \in Handles /\ h \in ToSet(registered[msg.channel]) /\ Len(queue[h]) >= HandleCapacity
        BY DEF crowded, To, Full
    <3>2. Box[h] = ToSet(queue[h]) \cup {x \in ToSet(incoming) : h \in ToSet(registered[x.channel])}
        BY <3>1, BoxParts
    <3>3. queue[h] \in Seq(Msg) /\ Ascending(queue[h]) /\ \A x \in ToSet(queue[h]) : x.id < msg.id
        BY <1>2, <3>1, BoxFacts
    <3>4. \A x \in ToSet(incoming) : ~(x.id < msg.id)
      <4>1. \A x \in ToSet(incoming) : x.id \in Nat
          BY BoxFacts
      <4> QED BY <1>2, <1>3, <4>1
    <3>5. {x \in Box[h] : x.id < msg.id} = ToSet(queue[h])
        BY <3>2, <3>3, <3>4
    <3>6. Cardinality(ToSet(queue[h])) = Len(queue[h])
        BY <3>3, AscendingSize
    <3> QED BY <1>2, <3>1, <3>2, <3>5, <3>6
  <2>2. crowded \in SUBSET Handles /\ msg \in [channel : Channels, id : 1 .. Len(published)]
    <3>1. msg \in Msg /\ msg.id \in 1 .. Len(published)
        BY <1>2, BoxFacts
    <3>2. msg \in [channel : Channels, id : 1 .. Len(published)]
        BY <3>1 DEF Msg
    <3> QED BY <2>1, <3>2
  <2>3. ASSUME NEW h \in crowded
        PROVE  msg \in Box[h] /\ Cardinality(Boxes!Older(h, msg)) >= HandleCapacity
    <3>1. Boxes!Older(h, msg) = {x \in Box[h] : x.id < msg.id}
        BY DEF Boxes!Older
    <3> QED BY <2>1, <3>1
  <2>4. /\ \A h \in crowded : msg \in Box[h] /\ Boxes!Cardinality(Boxes!Older(h, msg)) >= HandleCapacity
        /\ Box' = [h \in Handles |-> IF h \in crowded THEN Box[h] \ {msg} ELSE Box[h]]
      BY <1>10, <2>3, CountsAlike
  <2>5. Boxes!Drop
    <3>1. UNCHANGED <<Len(published), remote, Joined>>
        BY <1>1, <1>4
    <3> QED BY <2>2, <2>4, <3>1 DEF Boxes!Drop
  <2> QED BY <1>8, <2>5 DEF Boxed, Boxes!Next
<1> QED BY <1>11, <1>12

LEMMA BoxStep == ASSUME BoxInv, [BusNext]_busVars PROVE QueueInv' /\ Boxed
<1>1. ASSUME NEW h \in Handles, Subscribe(h) PROVE QueueInv' /\ Boxed
  <2>1. Len(published) \in Nat /\ NewChannels(h) \in SUBSET Wants[h]
      BY BoxFacts DEF NewChannels
  <2>2. Joins(h, Len(published), NewChannels(h))
      BY <1>1, <2>1 DEF Subscribe, Joins
  <2> QED BY <2>1, <2>2, JoinBoxed
<1>2. ASSUME NEW h \in Handles, SubscribeFails(h) PROVE QueueInv' /\ Boxed
  <2>1. Joins(h, Lost, {})
      BY <1>2 DEF SubscribeFails, Joins
  <2> QED BY <2>1, JoinBoxed
<1>3. CASE UNCHANGED busVars
  <2>1. UNCHANGED <<queue, got, since, registered, incoming, published, remote>>
      BY <1>3 DEF busVars
  <2>2. QueueInv'
      BY <2>1, SameQueues
  <2>3. Box' = Box /\ Joined' = Joined
      BY <2>1 DEF Box, Underway, Joined, ToSet
  <2> QED BY <2>1, <2>2, <2>3 DEF Boxed
<1> QED BY <1>1, <1>2, <1>3, TakeBoxed, PublishBoxed, DispatchBoxed, DiesBoxed DEF BusNext

\* The bus implements one mailbox per subscriber: what is published is in the boxes
\* of all who want it at once, is taken oldest first, and is lost only behind a
\* full queue or when the connection fails (redis_publisher.py:68-76, 135-196).
THEOREM BusImplementsMailboxes == BusSpec => ImplementsMailboxes
<1>1. BusInit => Boxes!Init /\ QueueInv
    BY BoxStart
<1>2. BusInv /\ QueueInv /\ [BusNext]_busVars => QueueInv' /\ Boxed
    BY BoxStep DEF BoxInv
<1>3. Boxed => [Boxes!Next]_Boxes!vars
    BY DEF Boxed, Boxes!vars
<1> QED BY <1>1, <1>2, <1>3, BusInvariant, PTL DEF BusSpec, ImplementsMailboxes, Boxes!Spec

-----------------------------------------------------------------------------
(* The reconciliation: for any contracts and prices, whatever was dealt between *)
(* question and answer.                                                      *)

Sides == {"LONG", "SHORT"}
BrokerPosition == [qty : Int, side : Sides, price : Int]
Entry == [symbol : Contracts, qty : Int, side : Sides, price : Int,
          status : {"OPEN", "CLOSED"}, id : Contracts \cup {IdOf[s] : s \in Contracts}]

ReconcilerTypes ==
    /\ broker \in [Contracts -> BrokerPosition]
    /\ book \in Seq(Entry)
    /\ answer # Unasked => answer \in [Contracts -> BrokerPosition]

ReconcilerSpec == ReconcilerInit /\ [][ReconcilerNext]_reconcilerVars

\* Every element of a finite set has a place in its sequence.
LEMMA SequenceOfSet ==
    ASSUME NEW S, IsFiniteSet(S)
    PROVE  SetToSeq(S) \in Seq(S) /\ ToSet(SetToSeq(S)) = S
<1> DEFINE n == Cardinality(S)
           f == SetToSeq(S)
<1>1. n \in Nat /\ Bijection(1 .. n, S) # {}
    BY FS_CardinalityType DEF ExistsBijection
<1>2. \E g \in [1 .. n -> S] : IsInjective(g)
    BY <1>1 DEF Bijection, Injection
<1>3. f \in [1 .. n -> S] /\ IsInjective(f)
    BY <1>2 DEF SetToSeq
<1> HIDE DEF f
<1>4. f \in Injection(1 .. n, S)
    BY <1>3 DEF Injection
<1>5. IsFiniteSet(1 .. n) /\ Cardinality(1 .. n) = n
    <2>1. 1 \in Int /\ n \in Int
        BY <1>1
    <2> QED BY <1>1, <2>1, FS_Interval
<1>6. f \in Surjection(1 .. n, S)
    BY <1>4, <1>5, FS_Injection
<1>7. f \in Seq(S)
    BY <1>1, <1>3
<1>8. DOMAIN f = 1 .. n /\ \A x \in S : \E i \in DOMAIN f : f[i] = x
    BY <1>3, <1>6 DEF Surjection
<1>9. ToSet(f) = S
    BY <1>3, <1>8 DEF ToSet
<1> QED BY <1>7, <1>9 DEF f

LEMMA ConcatElements ==
    ASSUME NEW S, NEW s \in Seq(S), NEW t \in Seq(S)
    PROVE  s \o t \in Seq(S) /\ ToSet(s \o t) = ToSet(s) \cup ToSet(t)
<1> DEFINE u == s \o t
           n == Len(s)
           m == Len(t)
<1>1. DOMAIN s = 1 .. n /\ DOMAIN t = 1 .. m /\ n \in Nat /\ m \in Nat
    OBVIOUS
<1>2. u \in Seq(S) /\ Len(u) = n + m /\ \A i \in 1 .. n + m : u[i] = IF i <= n THEN s[i] ELSE t[i - n]
    BY ConcatProperties
<1>3. DOMAIN u = 1 .. n + m
    BY <1>2
<1> HIDE DEF u, n, m
<1>4. \A i \in DOMAIN s : i \in DOMAIN u /\ u[i] = s[i]
    BY <1>1, <1>2, <1>3
<1>5. \A j \in DOMAIN t : n + j \in DOMAIN u /\ u[n + j] = t[j]
  <2> SUFFICES ASSUME NEW j \in DOMAIN t PROVE n + j \in DOMAIN u /\ u[n + j] = t[j]
      OBVIOUS
  <2>1. n + j \in 1 .. n + m /\ ~(n + j <= n) /\ (n + j) - n = j
      BY <1>1
  <2> QED BY <1>2, <1>3, <2>1
<1>6. \A i \in DOMAIN u : (i \in DOMAIN s /\ u[i] = s[i]) \/ (i - n \in DOMAIN t /\ u[i] = t[i - n])
    BY <1>1, <1>2, <1>3
<1>7. {u[i] : i \in DOMAIN u} = {s[i] : i \in DOMAIN s} \cup {t[i] : i \in DOMAIN t}
    BY <1>4, <1>5, <1>6
<1> QED BY <1>2, <1>7 DEF ToSet, u

LEMMA PlacesInBook ==
    ASSUME ReconcilerTypes
    PROVE  /\ DOMAIN book = 1 .. Len(book) /\ Len(book) \in Nat
           /\ \A i \in DOMAIN book : book[i] \in Entry
           /\ \A s \in Contracts : Entries(s) # {} =>
                \E i \in DOMAIN book : i \in Entries(s) /\ i = Max(Entries(s))
<1>1. DOMAIN book = 1 .. Len(book) /\ Len(book) \in Nat /\ \A i \in DOMAIN book : book[i] \in Entry
    BY DEF ReconcilerTypes
<1>2. ASSUME NEW s \in Contracts, Entries(s) # {}
      PROVE  \E i \in DOMAIN book : i \in Entries(s) /\ i = Max(Entries(s))
    <2>1. Entries(s) \subseteq 1 .. Len(book)
        BY <1>1 DEF Entries
    <2>2. IsFiniteSet(1 .. Len(book))
        <3>1. 1 \in Int /\ Len(book) \in Int
            BY <1>1
        <3> QED BY <3>1, FS_Interval
    <2>3. IsFiniteSet(Entries(s)) /\ Entries(s) \in SUBSET Int
        BY <1>1, <2>1, <2>2, FS_Subset
    <2>4. Max(Entries(s)) \in Entries(s)
        BY <1>2, <2>3, LargestOf
    <2> QED BY <1>1, <2>1, <2>4
<1> QED BY <1>1, <1>2

LEMMA ResolvedEntry ==
    ASSUME ReconcilerTypes, answer # Unasked, NEW i \in DOMAIN book
    PROVE  /\ Resolved(i) \in Entry
           /\ Resolved(i).symbol = book[i].symbol
           /\ Resolved(i).side = book[i].side
           /\ answer[book[i].symbol] # Flat => Resolved(i).status = book[i].status
           /\ Resolved(i).qty = IF Known(i) /\ answer[book[i].symbol] # Flat
                                THEN answer[book[i].symbol].qty ELSE book[i].qty
<1>1. book[i] \in Entry
    BY DEF ReconcilerTypes
<1>2. answer[book[i].symbol] \in BrokerPosition
    BY <1>1 DEF ReconcilerTypes, Entry
<1> DEFINE e == book[i]
           b == answer[e.symbol]
<1>3. CASE ~Known(i)
    <2>1. Resolved(i) = e
        BY <1>3 DEF Resolved
    <2> QED BY <1>1, <1>3, <2>1
<1>4. CASE Known(i) /\ b = Flat
    <2>1. Missing(i)
        BY <1>4 DEF Missing
    <2>2. Resolved(i) = [e EXCEPT !.status = "CLOSED"]
        BY <1>4, <2>1 DEF Resolved
    <2> QED BY <1>1, <1>4, <2>2 DEF Entry
<1>5. CASE Known(i) /\ b # Flat
    <2>1. ~Missing(i)
        BY <1>5 DEF Missing
    <2>2. PICK p \in Int : Resolved(i) = [e EXCEPT !.qty = b.qty, !.price = p]
        <3>1. b.price \in Int /\ e.price \in Int
            BY <1>1, <1>2 DEF BrokerPosition, Entry
        <3>2. Resolved(i) = [e EXCEPT !.qty = b.qty, !.price = IF PriceDiffers(b, e) THEN b.price ELSE @]
            BY <1>5, <2>1 DEF Resolved
        <3> QED BY <1>1, <3>1, <3>2 DEF Entry
    <2>3. b.qty \in Int
        BY <1>2 DEF BrokerPosition
    <2> HIDE DEF b
    <2> QED BY <1>1, <1>5, <2>2, <2>3 DEF Entry, b
<1> QED BY <1>3, <1>4, <1>5

\* The book after a pass: the resolved entries and one import for each id.
LEMMA BookAfterPass ==
    ASSUME ReconcilerTypes, answer # Unasked, NEW imports \in Imports,
           book' = [i \in DOMAIN book |-> Resolved(i)] \o SetToSeq({Imported(s) : s \in imports})
    PROVE  /\ book' \in Seq(Entry)
           /\ ToSet(book') = {Resolved(i) : i \in DOMAIN book} \cup {Imported(s) : s \in imports}
<1> DEFINE old == [i \in DOMAIN book |-> Resolved(i)]
           new == {Imported(s) : s \in imports}
           add == SetToSeq(new)
<1>1. DOMAIN book = 1 .. Len(book) /\ Len(book) \in Nat
    BY PlacesInBook
<1>2. old \in Seq(Entry) /\ Len(old) = Len(book) /\ \A i \in DOMAIN book : old[i] = Resolved(i)
    <2>1. old \in [1 .. Len(book) -> Entry]
        BY <1>1, ResolvedEntry
    <2> QED BY <1>1, <2>1
<1>3. imports \subseteq Contracts
    BY DEF Imports, Orphans
<1>4. new \subseteq Entry
    <2> SUFFICES ASSUME NEW s \in imports PROVE Imported(s) \in Entry
        OBVIOUS
    <2>1. s \in Contracts /\ answer[s] \in BrokerPosition
        BY <1>3 DEF ReconcilerTypes
    <2>2. Imported(s) = [symbol |-> s, qty |-> answer[s].qty, side |-> answer[s].side,
                         price |-> answer[s].price, status |-> "OPEN", id |-> IdOf[s]]
        BY DEF Imported, Position
    <2>3. answer[s].qty \in Int /\ answer[s].side \in Sides /\ answer[s].price \in Int
        BY <2>1 DEF BrokerPosition
    <2> QED BY <2>1, <2>2, <2>3 DEF Entry
<1>5. IsFiniteSet(new)
    <2>1. IsFiniteSet(imports)
        BY <1>3, ReconcilerAssumption, FS_Subset
    <2> DEFINE g == [s \in imports |-> Imported(s)]
    <2>2. g \in Surjection(imports, new)
        BY DEF Surjection
    <2> HIDE DEF g
    <2> QED BY <2>1, <2>2, FS_Surjection
<1> HIDE DEF new, old
<1>6. add \in Seq(new) /\ ToSet(add) = new
    BY <1>5, SequenceOfSet
<1>7. add \in Seq(Entry)
    BY <1>4, <1>6
<1>8. book' = old \o add
    BY DEF old, new
<1> HIDE DEF add
<1>9. old \o add \in Seq(Entry) /\ ToSet(old \o add) = ToSet(old) \cup ToSet(add)
    BY <1>2, <1>7, ConcatElements
<1>10. DOMAIN old = DOMAIN book
    BY <1>1, <1>2
<1>11. ToSet(old) = {Resolved(i) : i \in DOMAIN book}
    BY <1>2, <1>10 DEF ToSet
<1>12. ToSet(book') = {Resolved(i) : i \in DOMAIN book} \cup new
    BY <1>6, <1>8, <1>9, <1>11 DEF ToSet
<1> QED BY <1>8, <1>9, <1>12 DEF new

\* Whether a position is hidden depends on the entries, not on their places.
LEMMA HiddenBy ==
    ASSUME NEW positions, NEW b
    PROVE  Hidden(positions, b) =
             {s \in Contracts : positions[s] # Flat /\
                ~\E e \in ToSet(b) : /\ e.symbol = s /\ e.status = "OPEN"
                                     /\ e.qty = positions[s].qty /\ e.side = positions[s].side}
BY DEF Hidden, ToSet

LEMMA PassProgresses ==
    ASSUME ReconcilerTypes, Compared
    PROVE  LET after == Hidden(answer, book')
               before == Hidden(answer, book)
           IN  /\ after \subseteq before
               /\ after \subseteq GivenUp \/ after # before
<1> DEFINE after == Hidden(answer, book')
           before == Hidden(answer, book)
<1>1. answer # Unasked
    BY DEF Compared
<1>2. PICK imports \in Imports :
        book' = [i \in DOMAIN book |-> Resolved(i)] \o SetToSeq({Imported(s) : s \in imports})
    BY DEF Compared
<1>3. ToSet(book') = {Resolved(i) : i \in DOMAIN book} \cup {Imported(s) : s \in imports}
    BY <1>1, <1>2, BookAfterPass
<1>4. imports \subseteq Orphans /\ \A s \in Orphans : \E u \in imports : IdOf[u] = IdOf[s]
    BY DEF Imports
<1>5. ASSUME NEW s \in imports PROVE s \notin after
    <2>1. /\ Imported(s).symbol = s /\ Imported(s).status = "OPEN"
          /\ Imported(s).qty = answer[s].qty /\ Imported(s).side = answer[s].side
        BY DEF Imported, Position
    <2> QED BY <1>3, <2>1, HiddenBy
<1>6. ASSUME NEW s \in after PROVE s \in before
    <2>1. s \in Contracts /\ answer[s] # Flat
        BY DEF Hidden
    <2> SUFFICES ASSUME NEW i \in DOMAIN book, book[i].symbol = s, book[i].status = "OPEN",
                        book[i].qty = answer[s].qty, book[i].side = answer[s].side
                 PROVE  FALSE
        BY <2>1 DEF Hidden
    <2>2. /\ Resolved(i).symbol = s /\ Resolved(i).status = "OPEN"
          /\ Resolved(i).qty = answer[s].qty /\ Resolved(i).side = answer[s].side
        BY <1>1, <2>1, ResolvedEntry
    <2>3. Resolved(i) \in ToSet(book')
        BY <1>3
    <2> QED BY <2>2, <2>3, HiddenBy
<1>7. ASSUME NEW s \in after, s \notin GivenUp PROVE Entries(s) = {}
    <2>1. s \in Contracts /\ answer[s] # Flat
        BY DEF Hidden
    <2> SUFFICES ASSUME Entries(s) # {} PROVE FALSE
        OBVIOUS
    <2>2. PICK i \in DOMAIN book : i \in Entries(s) /\ i = Max(Entries(s))
        BY <2>1, PlacesInBook
    <2>3. book[i].symbol = s
        BY <2>2 DEF Entries
    <2>4. Known(i)
        BY <2>2, <2>3 DEF Known
    <2>5. book[i].status # "CLOSED" /\ book[i].side = answer[s].side
        BY <1>7, <2>1, <2>2 DEF GivenUp
    <2>6. book[i].status = "OPEN"
        <3>1. book[i] \in Entry
            BY PlacesInBook
        <3> QED BY <2>5, <3>1 DEF Entry
    <2>7. /\ Resolved(i).symbol = s /\ Resolved(i).status = "OPEN"
          /\ Resolved(i).qty = answer[s].qty /\ Resolved(i).side = answer[s].side
        BY <1>1, <2>1, <2>3, <2>4, <2>5, <2>6, ResolvedEntry
    <2>8. Resolved(i) \in ToSet(book')
        BY <1>3
    <2> QED BY <2>7, <2>8, HiddenBy
<1>8. ASSUME NEW s \in after, s \notin GivenUp PROVE \E u \in before : u \notin after
    <2>1. s \in Orphans
        BY <1>7, <1>8 DEF Hidden, Orphans
    <2>2. PICK u \in imports : IdOf[u] = IdOf[s]
        BY <1>4, <2>1
    <2>3. u \in before
        BY <1>4 DEF Orphans, Hidden, Entries
    <2> QED BY <1>5, <2>3
<1> QED BY <1>6, <1>8

LEMMA TypesKept == ASSUME ReconcilerTypes, [ReconcilerNext]_reconcilerVars PROVE ReconcilerTypes'
<1>1. Flat \in BrokerPosition
    BY DEF Flat, BrokerPosition, Sides
<1>2. ASSUME NEW s \in Contracts, NEW to \in BrokerPosition, Deal(s, to)
      PROVE  broker' \in [Contracts -> BrokerPosition]
    BY <1>2 DEF Deal, ReconcilerTypes
<1>3. ASSUME NEW s \in Contracts, NEW price \in FillPrices, Buy(s, price) PROVE ReconcilerTypes'
    <2>1. price \in Int /\ broker[s].qty \in Int
        BY ReconcilerAssumption DEF ReconcilerTypes, BrokerPosition
    <2>2. Bought1(broker[s], price) \in BrokerPosition
        BY <2>1 DEF Bought1, BrokerPosition, Sides
    <2>3. broker' \in [Contracts -> BrokerPosition]
        BY <1>2, <1>3, <2>2 DEF Buy
    <2>4. Position(s, 1, "LONG", price, "OPEN", s) \in Entry
        BY <2>1 DEF Position, Entry, Sides
    <2>5. book' \in Seq(Entry)
        BY <1>3, <2>4, AppendProperties DEF Buy, ReconcilerTypes
    <2> QED BY <1>3, <2>3, <2>5 DEF Buy, ReconcilerTypes
<1>4. ASSUME NEW i \in DOMAIN book, Leave(i) PROVE ReconcilerTypes'
    <2>0. book[i] \in Entry
        BY DEF ReconcilerTypes
    <2>1. book[i].symbol \in Contracts /\ book[i].qty \in Int
        BY <2>0 DEF Entry
    <2> DEFINE b == broker[book[i].symbol]
    <2>2. b \in BrokerPosition
        BY <2>1 DEF ReconcilerTypes
    <2>3. [b EXCEPT !.qty = @ - book[i].qty] \in BrokerPosition
        BY <2>1, <2>2 DEF BrokerPosition
    <2>4. broker' \in [Contracts -> BrokerPosition]
        BY <1>1, <1>2, <1>4, <2>1, <2>3 DEF Leave
    <2>5. book' \in Seq(Entry)
        BY <1>4, RemovedType DEF Leave, ReconcilerTypes
    <2> QED BY <1>4, <2>4, <2>5 DEF Leave, ReconcilerTypes
<1>5. ASSUME NEW s \in Contracts, NEW to \in BrokerPosition, DealUnknown(s, to) PROVE ReconcilerTypes'
    <2>1. broker' \in [Contracts -> BrokerPosition]
        BY <1>2, <1>5 DEF DealUnknown
    <2> QED BY <1>5, <2>1 DEF DealUnknown, ReconcilerTypes
<1>6. ASSUME NEW s \in Contracts, NEW side \in {"LONG", "SHORT"}, NEW price \in FillPrices
      PROVE  [qty |-> 1, side |-> side, price |-> price] \in BrokerPosition
    BY ReconcilerAssumption DEF BrokerPosition, Sides
<1>7. CASE Fetched
    <2>1. NoPositions \in [Contracts -> BrokerPosition]
        BY <1>1 DEF NoPositions
    <2>2. answer' = broker \/ answer' = NoPositions
        BY <1>7 DEF Fetched
    <2> QED BY <1>7, <2>1, <2>2 DEF Fetched, ReconcilerTypes
<1>8. CASE FetchFailed
    BY <1>8 DEF FetchFailed, ReconcilerTypes
<1>9. CASE Compared
    <2>1. PICK imports \in Imports :
            book' = [i \in DOMAIN book |-> Resolved(i)] \o SetToSeq({Imported(s) : s \in imports})
        BY <1>9 DEF Compared
    <2>2. book' \in Seq(Entry)
        BY <1>9, <2>1, BookAfterPass DEF Compared
    <2> QED BY <1>9, <2>2 DEF Compared, ReconcilerTypes
<1>10. CASE UNCHANGED reconcilerVars
    BY <1>10 DEF reconcilerVars, ReconcilerTypes
<1> QED BY <1>1, <1>3, <1>4, <1>5, <1>6, <1>7, <1>8, <1>9, <1>10 DEF ReconcilerNext

\* No pass hides a position it is told of, and one that shows none more leaves
\* hidden only those given up, whatever was dealt since the question and although
\* a failing adapter answers that there is nothing (position_reconciler.py:196-247,
\* 446-525).
THEOREM PassesProgress == ReconcilerSpec => PassCovers
<1> DEFINE Covers == (answer # Unasked /\ answer' = Unasked) =>
                         LET after == Hidden(answer, book')
                             before == Hidden(answer, book)
                         IN  /\ after \subseteq before
                             /\ after \subseteq GivenUp \/ after # before
<1>1. ReconcilerInit => ReconcilerTypes
    BY DEF ReconcilerInit, ReconcilerTypes, Flat, BrokerPosition, Sides
<1>2. ReconcilerTypes /\ [ReconcilerNext]_reconcilerVars => ReconcilerTypes'
    BY TypesKept
<1>3. ReconcilerTypes /\ [ReconcilerNext]_reconcilerVars => [Covers]_reconcilerVars
    <2> SUFFICES ASSUME ReconcilerTypes, ReconcilerNext, answer # Unasked, answer' = Unasked
                 PROVE  LET after == Hidden(answer, book')
                            before == Hidden(answer, book)
                        IN  /\ after \subseteq before
                            /\ after \subseteq GivenUp \/ after # before
        OBVIOUS
    <2>1. Compared
        BY DEF ReconcilerNext, Buy, Leave, DealUnknown, Fetched, FetchFailed
    <2> QED BY <2>1, PassProgresses
<1> QED BY <1>1, <1>2, <1>3, PTL DEF ReconcilerSpec, PassCovers

-----------------------------------------------------------------------------
(* What is learnt from simulated trades: for any bars a backtest may download,*)
(* however its writes fail and whenever it is killed.                         *)

Ordered(T) == \E s \in [1 .. Cardinality(T) -> T] : \A i, j \in DOMAIN s : i < j => s[i] < s[j]

\* If a finite set has no order, neither has one whose subsets all have.
LEMMA SmallestUnordered ==
    ASSUME NEW K, IsFiniteSet(K), ~Ordered(K)
    PROVE  \E T \in SUBSET K : ~Ordered(T) /\ \A U \in SUBSET T : U = T \/ Ordered(U)
<1> DEFINE Bad == {T \in SUBSET K : ~Ordered(T)}
<1>1. Bad \in SUBSET (SUBSET K) /\ K \in Bad
    OBVIOUS
<1> HIDE DEF Bad
<1>2. PICK T \in Bad : \A U \in Bad : U \subseteq T => U = T
    BY <1>1, SmallestOf
<1> QED BY <1>2 DEF Bad

\* Finitely many positions have an order.
LEMMA OrderExists ==
    ASSUME NEW K \in SUBSET Int, IsFiniteSet(K)
    PROVE  /\ InOrder(K) \in [1 .. Cardinality(K) -> K]
           /\ \A i, j \in DOMAIN InOrder(K) : i < j => InOrder(K)[i] < InOrder(K)[j]
<1>1. Ordered(K)
  <2> SUFFICES ASSUME ~Ordered(K) PROVE FALSE
      OBVIOUS
  <2>3. PICK T \in SUBSET K : ~Ordered(T) /\ \A U \in SUBSET T : U = T \/ Ordered(U)
      BY SmallestUnordered
  <2>4. IsFiniteSet(T) /\ T \in SUBSET Int
      BY <2>3, FS_Subset
  <2>5. T # {}
    <3> SUFFICES ASSUME T = {} PROVE Ordered(T)
        BY <2>3
    <3>1. Cardinality(T) = 0
        BY FS_EmptySet
    <3>2. 1 .. Cardinality(T) = {}
        BY <3>1
    <3> DEFINE f == [i \in 1 .. Cardinality(T) |-> i]
    <3>3. f \in [1 .. Cardinality(T) -> T] /\ DOMAIN f = {}
        BY <3>2
    <3> HIDE DEF f
    <3> QED BY <3>3 DEF Ordered
  <2> DEFINE x == Max(T)
             U == T \ {x}
             n == Cardinality(T)
  <2>6. x \in T /\ \A y \in T : y <= x
      BY <2>4, <2>5, LargestOf
  <2>7. Cardinality(U) = n - 1 /\ n \in Nat /\ Cardinality(U) \in Nat
      BY <2>4, <2>6, FS_RemoveElement, FS_CardinalityType, FS_Subset
  <2>8. Ordered(U)
      BY <2>3, <2>6
  <2> HIDE DEF x, n
  <2>9. PICK s \in [1 .. n - 1 -> U] : \A i, j \in DOMAIN s : i < j => s[i] < s[j]
      BY <2>7, <2>8 DEF Ordered, n
  <2> DEFINE t == [i \in 1 .. n |-> IF i = n THEN x ELSE s[i]]
  <2>10. \A i \in 1 .. n : i = n \/ i \in 1 .. n - 1
      BY <2>7
  <2>11. t \in [1 .. n -> T]
      BY <2>6, <2>9, <2>10
  <2>12. ASSUME NEW i \in 1 .. n, NEW j \in 1 .. n, i < j PROVE t[i] < t[j]
    <3>1. i \in 1 .. n - 1 /\ i # n
        BY <2>7, <2>12
    <3>2. CASE j = n
      <4>1. t[j] = x /\ t[i] = s[i] /\ s[i] \in U
          BY <2>9, <3>1, <3>2
      <4>2. s[i] \in Int /\ x \in Int /\ s[i] # x /\ s[i] <= x
          BY <4>1, <2>4, <2>6
      <4> QED BY <4>1, <4>2
    <3>3. CASE j \in 1 .. n - 1
      <4>1. j # n /\ t[j] = s[j] /\ t[i] = s[i]
          BY <2>7, <3>1, <3>3
      <4>2. s[i] < s[j]
          BY <2>9, <2>12, <3>1, <3>3
      <4> QED BY <4>1, <4>2
    <3> QED BY <2>10, <3>2, <3>3
  <2>13. DOMAIN t = 1 .. n
      OBVIOUS
  <2> HIDE DEF t
  <2>14. Ordered(T)
      BY <2>11, <2>12, <2>13 DEF Ordered, n
  <2> QED BY <2>3, <2>14
<1> DEFINE F == [1 .. Cardinality(K) -> K]
           P(s) == \A i, j \in DOMAIN s : i < j => s[i] < s[j]
<1>3. \E s \in F : P(s)
    BY <1>1 DEF Ordered
<1>4. InOrder(K) = CHOOSE s \in F : P(s)
    BY DEF InOrder
<1> HIDE DEF F, P
<1>5. InOrder(K) \in F /\ P(InOrder(K))
    BY <1>3, <1>4
<1> QED BY <1>5 DEF F, P

\* The trades a strategy may make of a day of n bars: all but the overnight ones
\* have a bar left.
Bars(kind, n) == IF kind = "BTST" THEN 1 .. n - 2
                 ELSE IF kind = "INTRADAY" THEN 1 .. n - 1 ELSE 1 .. n - Hold
DayOf(c, kind) == IF kind = "BTST" THEN c.days ELSE c.day
Tries(c, kind) == {TradeAt(kind, DayOf(c, kind), i, c.vix) : i \in Bars(kind, Len(DayOf(c, kind)))}
TradesIn(c) == UNION {Tries(c, kind) : kind \in DOMAIN Gate}
AllTrades == UNION {TradesIn(c) : c \in Courses}

LEMMA DayLength ==
    ASSUME NEW c \in Courses, NEW kind
    PROVE  /\ DayOf(c, kind) \in Seq(Bar) /\ Len(DayOf(c, kind)) \in Nat
           /\ DOMAIN DayOf(c, kind) = 1 .. Len(DayOf(c, kind))
<1>1. DayOf(c, kind) \in Seq(Bar)
    BY LearningAssumption DEF DayOf
<1> QED BY <1>1

LEMMA OrderedSeq ==
    ASSUME NEW K \in SUBSET Int, IsFiniteSet(K)
    PROVE  InOrder(K) \in Seq(K)
<1> DEFINE s == InOrder(K)
           n == Cardinality(K)
<1>1. n \in Nat /\ s \in [1 .. n -> K]
    BY OrderExists, FS_CardinalityType
<1> HIDE DEF s, n
<1>2. s \in Seq(K)
    BY <1>1
<1> QED BY <1>2 DEF s

LEMMA UptoFinite == ASSUME NEW n \in Int PROVE IsFiniteSet(1 .. n)
<1>1. 1 \in Int
    OBVIOUS
<1> QED BY <1>1, FS_Interval

LEMMA WiderSeq ==
    ASSUME NEW S, NEW T, S \subseteq T, NEW s \in Seq(S)
    PROVE  s \in Seq(T)
<1>1. s \in [1 .. Len(s) -> S] /\ Len(s) \in Nat
    OBVIOUS
<1>2. s \in [1 .. Len(s) -> T]
    BY <1>1
<1> QED BY <1>1, <1>2

\* Of finitely many of a strategy's bars.
LEMMA OrderedWithin ==
    ASSUME NEW n \in Int, NEW K \in SUBSET (1 .. n)
    PROVE  InOrder(K) \in Seq(1 .. n)
<1>1. IsFiniteSet(1 .. n)
    BY UptoFinite
<1>2. K \in SUBSET Int /\ IsFiniteSet(K)
  <2>1. IsFiniteSet(K)
      BY <1>1, FS_Subset
  <2> QED BY <2>1
<1>3. InOrder(K) \in Seq(K)
    BY <1>2, OrderedSeq
<1> QED BY <1>3, WiderSeq

LEMMA MorningIn ==
    ASSUME NEW n \in Nat, n >= 5
    PROVE  MorningBar(n) \in 1 .. n
<1> DEFINE settled == Morning \cap 1 .. n
           early == (IF n >= 20 THEN 7 .. 12 ELSE 2 .. 3) \cap 1 .. n
<1>1. settled \in SUBSET Int /\ IsFiniteSet(settled) /\ early \in SUBSET Int /\ IsFiniteSet(early)
  <2>1. settled \in SUBSET (1 .. n) /\ early \in SUBSET (1 .. n) /\ IsFiniteSet(1 .. n)
      BY UptoFinite
  <2>2. IsFiniteSet(settled) /\ IsFiniteSet(early)
      BY <2>1, FS_Subset
  <2> QED BY <2>1, <2>2
<1>2. early # {}
  <2>1. CASE n >= 20
    <3>1. 7 \in early
        BY <2>1
    <3> QED BY <3>1
  <2>2. CASE ~(n >= 20)
    <3>1. 2 \in early
        BY <2>2
    <3> QED BY <3>1
  <2> QED BY <2>1, <2>2
<1>3. Max(early) \in early
    BY <1>1, <1>2, LargestOf
<1>4. settled # {} => Max(settled) \in settled
    BY <1>1, LargestOf
<1>5. MorningBar(n) = IF settled # {} THEN Max(settled) ELSE Max(early)
    BY DEF MorningBar
<1>6. settled \in SUBSET (1 .. n) /\ early \in SUBSET (1 .. n)
    OBVIOUS
<1> HIDE DEF settled, early
<1> QED BY <1>3, <1>4, <1>5, <1>6

LEMMA EntriesIn ==
    ASSUME NEW kind \in DOMAIN Gate, NEW n \in Nat
    PROVE  EntryBars(kind, n) \in Seq(Bars(kind, n))
<1>0. kind \in {"BTST", "INTRADAY", "SCALP"}
    BY DEF Gate
<1>1. CASE kind = "BTST"
  <2> DEFINE K == {i \in FirstNight .. n - 2 : i % 2 = 1}
             m == n - 2
  <2>1. K \in SUBSET (1 .. m) /\ m \in Int
      BY BacktestAssumption DEF BacktestAssumption
  <2>2. EntryBars(kind, n) = InOrder(K)
      BY <1>1 DEF EntryBars
  <2>3. Bars(kind, n) = 1 .. m
      BY <1>1 DEF Bars
  <2> HIDE DEF K, m
  <2> QED BY <2>1, <2>2, <2>3, OrderedWithin
<1>2. CASE kind # "BTST" /\ n < MinBars[kind]
  <2>1. EntryBars(kind, n) = <<>>
      BY <1>2 DEF EntryBars
  <2> QED BY <2>1
<1>3. CASE kind = "INTRADAY" /\ ~(n < MinBars[kind])
  <2> DEFINE afternoon == (3 * n) \div 5 + 1
             m == MorningBar(n)
             B == 1 .. n - 1
  <2>1. n >= 5
      BY <1>3, BacktestAssumption DEF BacktestAssumption
  <2>2. m \in 1 .. n
      BY <2>1, MorningIn
  <2>3. afternoon \in B
      BY <2>1
  <2>4. EntryBars(kind, n) = IF m \in {afternoon, n} THEN <<afternoon>> ELSE <<m, afternoon>>
      BY <1>3 DEF EntryBars
  <2>5. Bars(kind, n) = B
      BY <1>3 DEF Bars
  <2>6. m # n => m \in B
      BY <2>2, <2>1
  <2> HIDE DEF afternoon, m, B
  <2> QED BY <2>3, <2>4, <2>5, <2>6
<1>4. CASE kind = "SCALP" /\ ~(n < MinBars[kind])
  <2> DEFINE K == {i \in ScalpBars : i <= n - Hold}
             m == n - Hold
  <2>1. m \in Int /\ ScalpBars \subseteq Nat \ {0}
      BY BacktestAssumption DEF BacktestAssumption
  <2>2. K \in SUBSET (1 .. m)
    <3> SUFFICES ASSUME NEW i \in ScalpBars, i <= n - Hold PROVE i \in 1 .. m
        OBVIOUS
    <3>1. i \in Nat \ {0}
        BY <2>1
    <3> QED BY <2>1, <3>1
  <2>3. EntryBars(kind, n) = InOrder(K)
      BY <1>4 DEF EntryBars
  <2>4. Bars(kind, n) = 1 .. m
      BY <1>4 DEF Bars
  <2> HIDE DEF K, m
  <2> QED BY <2>1, <2>2, <2>3, <2>4, OrderedWithin
<1> QED BY <1>0, <1>1, <1>2, <1>3, <1>4

\* What a backtest trades are trades of its bars.
LEMMA TradesTyped ==
    ASSUME NEW c \in Courses, NEW kind \in DOMAIN Gate
    PROVE  TradesOf(kind, DayOf(c, kind), c.vix) \in Seq(Tries(c, kind))
<1> DEFINE day == DayOf(c, kind)
           B == Bars(kind, Len(day))
           bars == EntryBars(kind, Len(day))
           tried == [k \in DOMAIN bars |-> TradeAt(kind, day, bars[k], c.vix)]
           K == {k \in DOMAIN bars : tried[k].strength >= Gate[kind]}
           kept == InOrder(K)
           T == Tries(c, kind)
<1>1. bars \in Seq(B)
    BY DayLength, EntriesIn
<1>2. TradesOf(kind, day, c.vix) = [n \in DOMAIN kept |-> tried[kept[n]]]
    BY DEF TradesOf
<1>3. \A i \in B : TradeAt(kind, day, i, c.vix) \in T
    BY DEF Tries
<1> HIDE DEF day, B, bars, T
<1>4. DOMAIN bars = 1 .. Len(bars) /\ Len(bars) \in Int /\ \A k \in DOMAIN bars : bars[k] \in B
    BY <1>1
<1>5. \A k \in DOMAIN bars : tried[k] \in T
    BY <1>3, <1>4
<1>6. K \in SUBSET DOMAIN bars
    OBVIOUS
<1> HIDE DEF tried, K
<1>7. kept \in Seq(DOMAIN bars)
  <2> DEFINE m == Len(bars)
  <2>1. m \in Int /\ K \in SUBSET (1 .. m) /\ DOMAIN bars = 1 .. m
      BY <1>4, <1>6
  <2> HIDE DEF m
  <2> QED BY <2>1, OrderedWithin
<1> HIDE DEF kept
<1>9. DOMAIN kept = 1 .. Len(kept) /\ Len(kept) \in Nat /\ \A n \in DOMAIN kept : kept[n] \in DOMAIN bars
    BY <1>7
<1>10. [n \in DOMAIN kept |-> tried[kept[n]]] \in [1 .. Len(kept) -> T]
    BY <1>5, <1>9
<1>11. [n \in DOMAIN kept |-> tried[kept[n]]] \in Seq(T)
    BY <1>9, <1>10
<1> QED BY <1>2, <1>11 DEF day, T

LEMMA BacktestedTyped ==
    ASSUME NEW c \in Courses
    PROVE  Backtested(c.days, c.day, c.vix) \in Seq(TradesIn(c))
<1> DEFINE T == TradesIn(c)
           overnight == TradesOf("BTST", c.days, c.vix)
           within == TradesOf("INTRADAY", c.day, c.vix)
           quick == TradesOf("SCALP", c.day, c.vix)
<1>1. DOMAIN Gate = {"BTST", "INTRADAY", "SCALP"}
    BY DEF Gate
<1>2. \A kind \in DOMAIN Gate : TradesOf(kind, DayOf(c, kind), c.vix) \in Seq(Tries(c, kind))
    BY TradesTyped
<1>3. \A kind \in DOMAIN Gate : Tries(c, kind) \subseteq T
    BY DEF TradesIn
<1>4. overnight \in Seq(Tries(c, "BTST")) /\ within \in Seq(Tries(c, "INTRADAY")) /\ quick \in Seq(Tries(c, "SCALP"))
    BY <1>1, <1>2 DEF DayOf
<1>5. Backtested(c.days, c.day, c.vix) = overnight \o within \o quick
    BY DEF Backtested
<1> HIDE DEF overnight, within, quick, T
<1>6. overnight \in Seq(T) /\ within \in Seq(T) /\ quick \in Seq(T)
    BY <1>1, <1>3, <1>4
<1>7. overnight \o within \o quick \in Seq(T)
    BY <1>6
<1> QED BY <1>5, <1>7 DEF T

LEMMA TradeFacts ==
    ASSUME NEW t \in AllTrades
    PROVE  t.dir \in {1, -1} /\ DOMAIN t.signals \subseteq Agents /\ t.type \in DOMAIN Gate
<1>0. PICK c \in Courses, kind \in DOMAIN Gate : t \in Tries(c, kind)
    BY DEF AllTrades, TradesIn
<1>1. PICK i \in Bars(kind, Len(DayOf(c, kind))) : t = TradeAt(kind, DayOf(c, kind), i, c.vix)
    BY <1>0 DEF Tries
<1> DEFINE day == DayOf(c, kind)
           signals == Signals(day, i, c.vix)
           consensus == Consensus(signals)
<1>2. t.type = kind /\ t.dir = consensus.dir /\ t.signals = signals
    BY <1>1 DEF TradeAt
<1>3. consensus.dir \in {1, -1}
    BY DEF Consensus
<1>4. DOMAIN signals \subseteq Agents
    BY DEF Signals
<1> QED BY <1>2, <1>3, <1>4

\* An analyst that took a side was either right or wrong.
LEMMA JudgedSides ==
    ASSUME NEW t \in AllTrades
    PROVE  /\ Right(t) \cap Wrong(t) = {} /\ Right(t) \cup Wrong(t) = Judged(t)
           /\ Judged(t) \subseteq Agents
<1>1. t.dir # 0 /\ DOMAIN t.signals \subseteq Agents
    BY TradeFacts
<1>2. OnItsSide(t) \cap OnTheOther(t) = {} /\ OnItsSide(t) \cup OnTheOther(t) = Judged(t)
    BY <1>1 DEF OnItsSide, OnTheOther, Judged
<1> QED BY <1>1, <1>2 DEF Right, Wrong, Judged

AllRows == {<<a, t.type, t.regime>> : a \in Agents, t \in AllTrades}

LEMMA RowIn == \A t \in AllTrades, a \in Agents : Row(a, t) \in AllRows
BY DEF Row, AllRows

\* What a backtest has yet to store are trades of the bars it downloaded, and the
\* analysts it has yet to count are of those that took a side.
LearningTypes ==
    /\ todo \in Seq(AllTrades)
    /\ todo # <<>> => course \in Courses /\ todo \in Seq(TradesIn(course))
    /\ counting # Nothing => counting \in AllTrades /\ uncounted \subseteq Judged(counting)
    /\ counting = Nothing => uncounted = {}
    /\ lessons \in Seq({Lesson(t) : t \in AllTrades})
    /\ \A key \in DOMAIN accuracy : accuracy[key].total \in Nat /\ accuracy[key].correct \in Nat
    /\ skipped \in Seq([key : AllRows, right : BOOLEAN])

\* The place after a sequence is one more than any of its places.
LEMMA OneMore ==
    ASSUME NEW S, NEW s \in Seq(S), NEW A \in SUBSET DOMAIN s
    PROVE  Cardinality(A) \in Nat /\ Cardinality(A \cup {Len(s) + 1}) = Cardinality(A) + 1
<1>1. IsFiniteSet(A) /\ Cardinality(A) \in Nat
    BY FinitePart
<1>2. Len(s) + 1 \notin A
    OBVIOUS
<1>3. Cardinality(A \cup {Len(s) + 1}) = Cardinality(A) + 1
    BY <1>1, <1>2, FS_AddElement
<1> QED BY <1>1, <1>3

LEMMA SequenceApart ==
    ASSUME NEW S, IsFiniteSet(S)
    PROVE  \A i, j \in DOMAIN SetToSeq(S) : SetToSeq(S)[i] = SetToSeq(S)[j] => i = j
<1> DEFINE n == Cardinality(S)
           f == SetToSeq(S)
<1>1. n \in Nat /\ Bijection(1 .. n, S) # {}
    BY FS_CardinalityType DEF ExistsBijection
<1>2. \E g \in [1 .. n -> S] : IsInjective(g)
    BY <1>1 DEF Bijection, Injection
<1>3. f \in [1 .. n -> S] /\ IsInjective(f)
    BY <1>2 DEF SetToSeq
<1> HIDE DEF f
<1> QED BY <1>3 DEF IsInjective, f

\* The analysts that a trade proved right, or wrong.
Side(t, right) == IF right THEN Right(t) ELSE Wrong(t)

LEMMA KeyParts ==
    ASSUME NEW key \in Scorecards, NEW a, NEW t
    PROVE  Row(a, t) = key <=> a = key[1] /\ t.type = key[2] /\ t.regime = key[3]
<1>1. PICK b \in Agents, ty \in DOMAIN Gate, r \in {VixRegime(c.vix) : c \in Courses} : key = <<b, ty, r>>
    BY DEF Scorecards
<1>2. key[1] = b /\ key[2] = ty /\ key[3] = r
    BY <1>1
<1> QED BY <1>1, <1>2 DEF Row

LEMMA OnSide ==
    ASSUME NEW t \in AllTrades, NEW a \in Judged(t), NEW right \in BOOLEAN
    PROVE  (a \in Right(t)) = right <=> a \in Side(t, right)
<1>1. a \in Right(t) <=> a \notin Wrong(t)
    BY JudgedSides
<1>2. CASE right = TRUE
    BY <1>2 DEF Side
<1>3. CASE right = FALSE
    BY <1>1, <1>3 DEF Side
<1> QED BY <1>2, <1>3

\* What a lesson is counted under.
Matches(t, key, right) == t.type = key[2] /\ t.regime = key[3] /\ key[1] \in Side(t, right)

LEMMA UnderWayMatches ==
    ASSUME LearningTypes, NEW key \in Scorecards, NEW right \in BOOLEAN
    PROVE  UnderWay(key, right) <=> key[1] \in uncounted /\ Matches(counting, key, right)
<1>1. CASE key[1] \notin uncounted
    BY <1>1 DEF UnderWay
<1>2. CASE key[1] \in uncounted
  <2>1. counting \in AllTrades /\ key[1] \in Judged(counting)
      BY <1>2 DEF LearningTypes
  <2>2. (key[1] \in Right(counting)) = right <=> key[1] \in Side(counting, right)
      BY <2>1, OnSide
  <2> QED BY <1>2, <2>2, KeyParts DEF UnderWay, Matches
<1> QED BY <1>1, <1>2

LEMMA OneType == ASSUME NEW p PROVE One(p) \in {0, 1} /\ (p => One(p) = 1) /\ (~p => One(p) = 0)
BY DEF One

\* An analyst that is counted is no longer under way, and the others still are.
LEMMA DoneCounts ==
    ASSUME LearningTypes, NEW a \in uncounted, Done(a), NEW key \in Scorecards, NEW right \in BOOLEAN
    PROVE  One(UnderWay(key, right)) =
               One(UnderWay(key, right)') + One(key = Row(a, counting) /\ right = (a \in Right(counting)))
<1> DEFINE before == UnderWay(key, right)
           after == UnderWay(key, right)'
           this == key = Row(a, counting) /\ right = (a \in Right(counting))
<1>1. CASE key = Row(a, counting)
  <2>1. key[1] = a
      BY <1>1, KeyParts
  <2>2. ~after
      BY <2>1 DEF UnderWay, Done
  <2>3. before <=> this
      BY <1>1, <2>1 DEF UnderWay
  <2> HIDE DEF before, after, this
  <2>4. One(before) = One(after) + One(this)
      BY <2>2, <2>3 DEF One
  <2> QED BY <2>4 DEF before, after, this
<1>2. CASE key # Row(a, counting)
  <2>1. after <=> before
    <3>1. CASE key[1] = a
        BY <1>2, <3>1 DEF UnderWay, Done
    <3>2. CASE uncounted = {a} /\ key[1] # a
        BY <3>2 DEF UnderWay, Done
    <3>3. CASE uncounted # {a} /\ key[1] # a
        BY <3>3 DEF UnderWay, Done
    <3> QED BY <3>1, <3>2, <3>3
  <2>2. ~this
      BY <1>2
  <2> HIDE DEF before, after, this
  <2>3. One(before) = One(after) + One(this)
      BY <2>1, <2>2 DEF One
  <2> QED BY <2>3 DEF before, after, this
<1> QED BY <1>1, <1>2

\* A row counts one signal more.
LEMMA ScoredCounts ==
    ASSUME LearningTypes, NEW row, NEW p \in BOOLEAN, accuracy' = Scored(accuracy, row, p)
    PROVE  /\ \A key, right : right \in BOOLEAN =>
                Tallied(key, right)' = Tallied(key, right) + One(key = row /\ right = p)
           /\ \A key \in DOMAIN accuracy' : /\ accuracy'[key].total \in Nat
                                            /\ accuracy'[key].correct \in Nat
<1>1. \A k \in DOMAIN accuracy : accuracy[k].total \in Nat /\ accuracy[k].correct \in Nat
    BY DEF LearningTypes
<1> DEFINE new == row \notin DOMAIN accuracy
           total == IF new THEN 1 ELSE accuracy[row].total + 1
           correct == (IF new THEN 0 ELSE accuracy[row].correct) + One(p)
           multiplier == IF new THEN IF p THEN 100 ELSE 50 ELSE 50 + (100 * correct) \div total
           changed == [total |-> total, correct |-> correct, multiplier |-> multiplier]
<1>2. /\ DOMAIN accuracy' = DOMAIN accuracy \cup {row}
      /\ \A k \in DOMAIN accuracy' : accuracy'[k] = IF k = row THEN changed ELSE accuracy[k]
    BY DEF Scored
<1>3. changed.total = total /\ changed.correct = correct
    OBVIOUS
<1>4. total \in Nat /\ correct \in Nat
    BY <1>1, OneType
<1> HIDE DEF changed, multiplier
<1>5. ASSUME NEW key, NEW right \in BOOLEAN
      PROVE  Tallied(key, right)' = Tallied(key, right) + One(key = row /\ right = p)
  <2>1. Tallied(key, right) \in Int
      BY <1>1 DEF Tallied
  <2>2. CASE key # row
    <3>1. One(key = row /\ right = p) = 0
        BY <2>2 DEF One
    <3>2. Tallied(key, right)' = Tallied(key, right)
      <4>1. key \in DOMAIN accuracy' <=> key \in DOMAIN accuracy
          BY <1>2, <2>2
      <4>2. key \in DOMAIN accuracy => accuracy'[key] = accuracy[key]
          BY <1>2, <2>2
      <4> QED BY <4>1, <4>2 DEF Tallied
    <3> QED BY <2>1, <3>1, <3>2
  <2>3. CASE key = row
    <3>1. accuracy'[key] = changed /\ key \in DOMAIN accuracy'
        BY <1>2, <2>3
    <3>2. Tallied(key, right)' = IF right THEN correct ELSE total - correct
        BY <1>3, <3>1 DEF Tallied
    <3> DEFINE t == IF new THEN 0 ELSE accuracy[row].total
               c == IF new THEN 0 ELSE accuracy[row].correct
    <3>3. t \in Nat /\ c \in Nat /\ total = t + 1 /\ correct = c + One(p)
        BY <1>1
    <3>4. Tallied(key, right) = IF right THEN c ELSE t - c
        BY <2>3 DEF Tallied
    <3>5. One(key = row /\ right = p) = IF right = p THEN 1 ELSE 0
        BY <2>3 DEF One
    <3>6. One(p) = IF p THEN 1 ELSE 0
        BY DEF One
    <3> HIDE DEF t, c, total, correct
    <3>7. CASE right = TRUE
        BY <3>2, <3>3, <3>4, <3>5, <3>6, <3>7
    <3>8. CASE right = FALSE
      <4>1. CASE p = TRUE
        <5>1. One(key = row /\ right = p) = 0
            BY <3>5, <3>8, <4>1
        <5>2. correct = c + 1
            BY <3>3, <3>6, <4>1
        <5> HIDE DEF new
        <5> QED BY <3>2, <3>3, <3>4, <3>8, <5>1, <5>2
      <4>2. CASE p = FALSE
          BY <3>2, <3>3, <3>4, <3>5, <3>6, <3>8, <4>2
      <4> QED BY <4>1, <4>2
    <3> QED BY <3>7, <3>8
  <2> QED BY <2>2, <2>3
<1>6. \A key \in DOMAIN accuracy' : accuracy'[key].total \in Nat /\ accuracy'[key].correct \in Nat
    BY <1>1, <1>2, <1>3, <1>4
<1> QED BY <1>5, <1>6

\* The places of a value in a sequence.
PlacesOf(s, v) == {i \in DOMAIN s : s[i] = v}

\* A set's sequence adds one place of each element.
LEMMA OncePerElement ==
    ASSUME NEW S, NEW s \in Seq(S), NEW X \in SUBSET S, IsFiniteSet(X), NEW v
    PROVE  /\ s \o SetToSeq(X) \in Seq(S)
           /\ Cardinality(PlacesOf(s \o SetToSeq(X), v)) = Cardinality(PlacesOf(s, v)) + One(v \in X)
<1> DEFINE f == SetToSeq(X)
           u == s \o f
           n == Len(s)
           A == {i \in DOMAIN s : s[i] = v}
           B == {i \in DOMAIN u : u[i] = v}
<1>1. f \in Seq(X) /\ ToSet(f) = X
    BY SequenceOfSet
<1>2. \A i, j \in DOMAIN f : f[i] = f[j] => i = j
    BY SequenceApart
<1> HIDE DEF f
<1>3. f \in Seq(S)
    BY <1>1, WiderSeq
<1>4. u \in Seq(S) /\ Len(u) = n + Len(f) /\ \A i \in 1 .. n + Len(f) : u[i] = IF i <= n THEN s[i] ELSE f[i - n]
    BY <1>3, ConcatProperties
<1>5. /\ DOMAIN s = 1 .. n /\ DOMAIN f = 1 .. Len(f) /\ n \in Nat /\ Len(f) \in Nat
      /\ DOMAIN u = 1 .. n + Len(f)
    BY <1>1, <1>4
<1>6. A \in SUBSET DOMAIN s
    OBVIOUS
<1>7. IsFiniteSet(A) /\ Cardinality(A) \in Nat
    BY <1>6, FinitePart
<1> HIDE DEF u, n
<1>8. CASE v \notin X
  <2>1. \A j \in DOMAIN f : f[j] # v
      BY <1>1, <1>8
  <2>2. B = A
      BY <1>4, <1>5, <2>1
  <2> HIDE DEF A, B
  <2>3. Cardinality(B) = Cardinality(A) + One(v \in X)
      BY <1>7, <1>8, <2>2 DEF One
  <2> QED BY <1>4, <2>3 DEF A, B, u, f, PlacesOf
<1>9. CASE v \in X
  <2>1. PICK j \in DOMAIN f : f[j] = v
      BY <1>1, <1>9 DEF ToSet
  <2>2. n + j \in DOMAIN u /\ u[n + j] = v /\ n + j \notin A
      BY <1>4, <1>5, <2>1
  <2>3. ASSUME NEW i \in B PROVE i \in A \cup {n + j}
    <3>1. CASE i <= n
        BY <1>4, <1>5, <3>1
    <3>2. CASE ~(i <= n)
      <4>1. i - n \in DOMAIN f /\ f[i - n] = v
          BY <1>4, <1>5, <3>2
      <4>2. i - n = j
          BY <1>2, <2>1, <4>1
      <4> QED BY <1>5, <4>2
    <3> QED BY <3>1, <3>2
  <2>4. \A i \in A : i \in B
      BY <1>4, <1>5
  <2>5. B = A \cup {n + j}
      BY <2>2, <2>3, <2>4
  <2>6. Cardinality(A \cup {n + j}) = Cardinality(A) + 1
      BY <1>7, <2>2, FS_AddElement
  <2> HIDE DEF A, B
  <2>7. Cardinality(B) = Cardinality(A) + One(v \in X)
      BY <1>9, <2>5, <2>6, OneType
  <2> QED BY <1>4, <2>7 DEF A, B, u, f, PlacesOf
<1> QED BY <1>8, <1>9

LearningInv == LearningTypes /\ ScorecardTrue
LearningSpec == LearningInit /\ [][LearningNext]_learningVars

LEMMA LearningStart == LearningInit => LearningInv
<1> SUFFICES ASSUME LearningInit PROVE LearningInv
    OBVIOUS
<1> USE DEF LearningInit
<1>0. DOMAIN <<>> = {}
    OBVIOUS
<1>1. LearningTypes
  <2>1. \A S : <<>> \in Seq(S)
      OBVIOUS
  <2> QED BY <1>0, <2>1 DEF LearningTypes
<1>2. ASSUME NEW key \in Scorecards, NEW right \in BOOLEAN
      PROVE  Tallied(key, right) + Cardinality(Skipped(key, right)) + One(UnderWay(key, right))
                = Cardinality(Named(key, right))
  <2>1. Tallied(key, right) = 0
      BY <1>0 DEF Tallied
  <2>2. Skipped(key, right) = {} /\ Named(key, right) = {}
      BY <1>0 DEF Skipped, Named
  <2>3. One(UnderWay(key, right)) = 0
      BY DEF One, UnderWay
  <2> QED BY <2>1, <2>2, <2>3, FS_EmptySet
<1> QED BY <1>1, <1>2 DEF LearningInv, ScorecardTrue

LEMMA PartTypes ==
    ASSUME LearningTypes, NEW key, NEW right \in BOOLEAN
    PROVE  /\ Tallied(key, right) \in Int
           /\ Cardinality(Skipped(key, right)) \in Nat /\ Cardinality(Named(key, right)) \in Nat
<1>1. Tallied(key, right) \in Int
    BY DEF Tallied, LearningTypes
<1>2. Skipped(key, right) \in SUBSET DOMAIN skipped /\ Named(key, right) \in SUBSET DOMAIN lessons
    BY DEF Skipped, Named
<1>3. Cardinality(Skipped(key, right)) \in Nat /\ Cardinality(Named(key, right)) \in Nat
    BY <1>2, FinitePart DEF LearningTypes
<1> QED BY <1>1, <1>3

LEMMA ScoresSame ==
    ASSUME ScorecardTrue, UNCHANGED <<counting, uncounted, lessons, accuracy, skipped>>
    PROVE  ScorecardTrue'
<1> SUFFICES ASSUME NEW key \in Scorecards, NEW right \in BOOLEAN
             PROVE  (Tallied(key, right) + Cardinality(Skipped(key, right)) + One(UnderWay(key, right))
                        = Cardinality(Named(key, right)))'
    BY DEF ScorecardTrue
<1>1. Tallied(key, right)' = Tallied(key, right)
    BY DEF Tallied
<1>2. Skipped(key, right)' = Skipped(key, right) /\ Named(key, right)' = Named(key, right)
    BY DEF Skipped, Named
<1>3. UnderWay(key, right)' <=> UnderWay(key, right)
    BY DEF UnderWay
<1>4. One(UnderWay(key, right)') = One(UnderWay(key, right))
    BY <1>3 DEF One
<1>5. Tallied(key, right) + Cardinality(Skipped(key, right)) + One(UnderWay(key, right))
          = Cardinality(Named(key, right))
    BY DEF ScorecardTrue
<1> QED BY <1>1, <1>2, <1>4, <1>5

\* The first of the trades is one, and the others are.
LEMMA FirstTrade ==
    ASSUME LearningTypes, todo # <<>>
    PROVE  /\ Head(todo) \in AllTrades /\ Tail(todo) \in Seq(AllTrades)
           /\ course \in Courses /\ Tail(todo) \in Seq(TradesIn(course))
<1>1. todo \in Seq(AllTrades) /\ course \in Courses /\ todo \in Seq(TradesIn(course))
    BY DEF LearningTypes
<1> DEFINE S == AllTrades
           T == TradesIn(course)
<1> HIDE DEF S, T
<1>2. todo \in Seq(S) /\ todo \in Seq(T)
    BY <1>1 DEF S, T
<1>3. Head(todo) \in S /\ Tail(todo) \in Seq(S) /\ Tail(todo) \in Seq(T)
    BY <1>2
<1> QED BY <1>1, <1>3 DEF S, T

LEMMA RunKeeps == ASSUME LearningInv, RunBacktest PROVE LearningInv'
<1> USE DEF LearningInv
<1>1. course' \in Courses /\ todo' = Backtested(course'.days, course'.day, course'.vix)
    BY DEF RunBacktest
<1>2. todo' \in Seq(TradesIn(course'))
    BY <1>1, BacktestedTyped
<1>3. TradesIn(course') \subseteq AllTrades
    BY <1>1 DEF AllTrades
<1>4. todo' \in Seq(AllTrades)
    BY <1>2, <1>3, WiderSeq
<1>5. LearningTypes'
    BY <1>1, <1>2, <1>4 DEF RunBacktest, LearningTypes
<1>6. ScorecardTrue'
    BY ScoresSame DEF RunBacktest
<1> QED BY <1>5, <1>6

LEMMA StoreKeeps == ASSUME LearningInv, StoreLesson PROVE LearningInv'
<1> USE DEF LearningInv
<1> DEFINE t == Head(todo)
           L == {Lesson(x) : x \in AllTrades}
           n == Len(lessons) + 1
<1>1. /\ t \in AllTrades /\ Tail(todo) \in Seq(AllTrades)
      /\ course \in Courses /\ Tail(todo) \in Seq(TradesIn(course))
    BY FirstTrade DEF StoreLesson
<1>2. /\ lessons' = Append(lessons, Lesson(t)) /\ counting' = t /\ uncounted' = Judged(t)
      /\ todo' = Tail(todo) /\ counting = Nothing
      /\ UNCHANGED <<course, accuracy, skipped>>
    BY DEF StoreLesson
<1>3. lessons \in Seq(L) /\ uncounted = {} /\ Lesson(t) \in L
    BY <1>1, <1>2 DEF LearningTypes
<1> HIDE DEF L
<1>4. /\ lessons' \in Seq(L) /\ DOMAIN lessons' = DOMAIN lessons \cup {n} /\ lessons'[n] = Lesson(t)
      /\ \A i \in DOMAIN lessons : lessons'[i] = lessons[i] /\ i # n
  <2> DEFINE e == Lesson(t)
  <2> HIDE DEF e
  <2>1. lessons' = Append(lessons, e) /\ e \in L
      BY <1>2, <1>3 DEF e
  <2>2. Append(lessons, e) \in Seq(L) /\ Len(Append(lessons, e)) = n /\ Append(lessons, e)[n] = e
        /\ \A i \in 1 .. Len(lessons) : Append(lessons, e)[i] = lessons[i]
      BY <1>3, <2>1, AppendProperties
  <2>3. DOMAIN lessons = 1 .. Len(lessons) /\ Len(lessons) \in Nat /\ DOMAIN Append(lessons, e) = 1 .. n
      BY <1>3, <2>2
  <2> QED BY <2>1, <2>2, <2>3 DEF e
<1>5. LearningTypes'
  <2>2. t # Nothing
    <3>1. t.type \in DOMAIN Gate
        BY <1>1, TradeFacts
    <3> QED BY <3>1 DEF Nothing, Gate
  <2> QED BY <1>1, <1>2, <1>4, <2>2 DEF LearningTypes, L
<1>6. ASSUME NEW key \in Scorecards, NEW right \in BOOLEAN
      PROVE  (Tallied(key, right) + Cardinality(Skipped(key, right)) + One(UnderWay(key, right))
                = Cardinality(Named(key, right)))'
  <2> DEFINE p == Matches(t, key, right)
             A == Named(key, right)
             B == Named(key, right)'
  <2>1. UnderWay(key, right)' <=> p
    <3>1. UnderWay(key, right)' <=> /\ key[1] \in Judged(t) /\ Row(key[1], t) = key
                                    /\ (key[1] \in Right(t)) = right
        BY <1>2 DEF UnderWay
    <3>2. CASE key[1] \in Judged(t)
      <4>1. (key[1] \in Right(t)) = right <=> key[1] \in Side(t, right)
          BY <1>1, <3>2, OnSide
      <4> QED BY <3>1, <3>2, <4>1, KeyParts DEF Matches
    <3>3. CASE key[1] \notin Judged(t)
      <4>1. key[1] \notin Side(t, right)
          BY <1>1, <3>3, JudgedSides DEF Side
      <4> QED BY <3>1, <3>3, <4>1 DEF Matches
    <3> QED BY <3>2, <3>3
  <2>2. One(UnderWay(key, right)) = 0
      BY <1>3 DEF One, UnderWay
  <2>3. B = IF p THEN A \cup {n} ELSE A
    <3>1. n \in B <=> p
      <4>1. Lesson(t).type = t.type /\ Lesson(t).regime = t.regime
            /\ Lesson(t).correct = Right(t) /\ Lesson(t).wrong = Wrong(t)
          BY DEF Lesson
      <4> QED BY <1>4, <4>1 DEF Named, Matches, Side
    <3>2. \A i \in DOMAIN lessons : i \in B <=> i \in A
        BY <1>4 DEF Named
    <3>3. A \subseteq DOMAIN lessons /\ B \subseteq DOMAIN lessons \cup {n}
        BY <1>4 DEF Named
    <3> HIDE DEF A, B, p
    <3>4. CASE p
        BY <3>1, <3>2, <3>3, <3>4
    <3>5. CASE ~p
      <4>1. \A i \in B : i \in A
          BY <3>1, <3>2, <3>3, <3>5
      <4>2. \A i \in A : i \in B
          BY <3>2, <3>3
      <4>3. B = A
          BY <4>1, <4>2
      <4> QED BY <3>5, <4>3
    <3> QED BY <3>4, <3>5
  <2>4. A \in SUBSET DOMAIN lessons /\ p \in BOOLEAN
      BY DEF Named, Matches
  <2>5. Tallied(key, right)' = Tallied(key, right) /\ Skipped(key, right)' = Skipped(key, right)
      BY <1>2 DEF Tallied, Skipped
  <2>6. Tallied(key, right) + Cardinality(Skipped(key, right)) + One(UnderWay(key, right)) = Cardinality(A)
      BY DEF ScorecardTrue
  <2>7. One(UnderWay(key, right)') = One(p)
      BY <2>1 DEF One
  <2> HIDE DEF A, B, p
  <2>8. Cardinality(B) = Cardinality(A) + One(p) /\ Cardinality(A) \in Nat
    <3>1. Cardinality(A) \in Nat /\ Cardinality(A \cup {n}) = Cardinality(A) + 1
        BY <1>3, <2>4, OneMore
    <3>2. CASE p
        BY <2>3, <3>1, <3>2 DEF One
    <3>3. CASE ~p
        BY <2>3, <3>1, <3>3 DEF One
    <3> QED BY <3>2, <3>3
  <2>9. Tallied(key, right) \in Int /\ Cardinality(Skipped(key, right)) \in Int
      BY PartTypes
  <2>10. Tallied(key, right) + Cardinality(Skipped(key, right)) + One(p) = Cardinality(B)
      BY <2>2, <2>6, <2>8, <2>9, OneType
  <2> QED BY <2>5, <2>7, <2>10 DEF B
<1> QED BY <1>5, <1>6 DEF ScorecardTrue

LEMMA CountKeeps == ASSUME LearningInv, CountAgent PROVE LearningInv'
<1> USE DEF LearningInv
<1> DEFINE a == UpNext
           row == Row(a, counting)
           p == a \in Right(counting)
<1>1. a \in uncounted
    BY DEF CountAgent, UpNext
<1> HIDE DEF a
<1>2. /\ accuracy' = Scored(accuracy, row, p) /\ Done(a)
      /\ UNCHANGED <<course, todo, lessons, skipped>>
    BY DEF CountAgent, a
<1>3. p \in BOOLEAN
    OBVIOUS
<1>4. /\ \A key, right : right \in BOOLEAN =>
            Tallied(key, right)' = Tallied(key, right) + One(key = row /\ right = p)
      /\ \A key \in DOMAIN accuracy' : accuracy'[key].total \in Nat /\ accuracy'[key].correct \in Nat
  <2> HIDE DEF row, p
  <2> QED BY <1>2, <1>3, ScoredCounts
<1>5. LearningTypes'
    BY <1>1, <1>2, <1>4 DEF LearningTypes, Done
<1>6. ASSUME NEW key \in Scorecards, NEW right \in BOOLEAN
      PROVE  (Tallied(key, right) + Cardinality(Skipped(key, right)) + One(UnderWay(key, right))
                = Cardinality(Named(key, right)))'
  <2> DEFINE this == key = row /\ right = p
  <2>1. One(UnderWay(key, right)) = One(UnderWay(key, right)') + One(this)
      BY <1>1, <1>2, DoneCounts
  <2>2. Tallied(key, right)' = Tallied(key, right) + One(this)
      BY <1>4
  <2>3. Skipped(key, right)' = Skipped(key, right) /\ Named(key, right)' = Named(key, right)
      BY <1>2 DEF Skipped, Named
  <2>4. Tallied(key, right) + Cardinality(Skipped(key, right)) + One(UnderWay(key, right))
            = Cardinality(Named(key, right))
      BY DEF ScorecardTrue
  <2>5. Tallied(key, right) \in Int /\ Cardinality(Skipped(key, right)) \in Int
        /\ One(this) \in Int /\ One(UnderWay(key, right)') \in Int
      BY PartTypes, OneType
  <2> HIDE DEF this
  <2> QED BY <2>1, <2>2, <2>3, <2>4, <2>5
<1> QED BY <1>5, <1>6 DEF ScorecardTrue

LEMMA CountFailsKeeps == ASSUME LearningInv, CountFails PROVE LearningInv'
<1> USE DEF LearningInv
<1> DEFINE a == UpNext
           e == [key |-> Row(a, counting), right |-> a \in Right(counting)]
           E == [key : AllRows, right : BOOLEAN]
           n == Len(skipped) + 1
<1>1. a \in uncounted
    BY DEF CountFails, UpNext
<1> HIDE DEF a
<1>2. /\ skipped' = Append(skipped, e) /\ Done(a)
      /\ UNCHANGED <<course, todo, lessons, accuracy>>
    BY DEF CountFails, a
<1>3. e \in E /\ e.key = Row(a, counting) /\ e.right = (a \in Right(counting))
  <2>1. counting \in AllTrades /\ a \in Agents
      BY <1>1, JudgedSides DEF LearningTypes
  <2>2. Row(a, counting) \in AllRows
      BY <2>1, RowIn
  <2> QED BY <2>2
<1>4. skipped \in Seq(E)
    BY DEF LearningTypes
<1> HIDE DEF e, E
<1>5. /\ skipped' \in Seq(E) /\ DOMAIN skipped' = DOMAIN skipped \cup {n} /\ skipped'[n] = e
      /\ \A i \in DOMAIN skipped : skipped'[i] = skipped[i] /\ i # n
  <2>1. Append(skipped, e) \in Seq(E) /\ Len(Append(skipped, e)) = n /\ Append(skipped, e)[n] = e
        /\ \A i \in 1 .. Len(skipped) : Append(skipped, e)[i] = skipped[i]
      BY <1>3, <1>4, AppendProperties
  <2>2. DOMAIN skipped = 1 .. Len(skipped) /\ Len(skipped) \in Nat /\ DOMAIN Append(skipped, e) = 1 .. n
      BY <1>4, <2>1
  <2> QED BY <1>2, <2>1, <2>2
<1>6. LearningTypes'
    BY <1>1, <1>2, <1>5 DEF LearningTypes, Done, E
<1>7. ASSUME NEW key \in Scorecards, NEW right \in BOOLEAN
      PROVE  (Tallied(key, right) + Cardinality(Skipped(key, right)) + One(UnderWay(key, right))
                = Cardinality(Named(key, right)))'
  <2> DEFINE this == key = Row(a, counting) /\ right = (a \in Right(counting))
             A == Skipped(key, right)
             B == Skipped(key, right)'
  <2>1. One(UnderWay(key, right)) = One(UnderWay(key, right)') + One(this)
      BY <1>1, <1>2, DoneCounts
  <2>2. Tallied(key, right)' = Tallied(key, right) /\ Named(key, right)' = Named(key, right)
      BY <1>2 DEF Tallied, Named
  <2>3. Tallied(key, right) + Cardinality(A) + One(UnderWay(key, right)) = Cardinality(Named(key, right))
      BY DEF ScorecardTrue
  <2>4. Tallied(key, right) \in Int /\ One(this) \in Int /\ One(UnderWay(key, right)') \in Int
        /\ this \in BOOLEAN
      BY PartTypes, OneType
  <2>5. n \in B <=> this
    <3>1. e = [key |-> key, right |-> right] <=> this
        BY DEF e
    <3> QED BY <1>5, <3>1 DEF Skipped
  <2>6. A \subseteq DOMAIN skipped /\ B \subseteq DOMAIN skipped \cup {n}
        /\ \A i \in DOMAIN skipped : i \in B <=> i \in A
      BY <1>5 DEF Skipped
  <2> HIDE DEF A, B, this
  <2>7. B = IF this THEN A \cup {n} ELSE A
    <3>1. CASE this
        BY <2>5, <2>6, <3>1
    <3>2. CASE ~this
      <4>1. \A i \in B : i \in A
          BY <2>5, <2>6, <3>2
      <4>2. \A i \in A : i \in B
          BY <2>6
      <4>3. B = A
          BY <4>1, <4>2
      <4> QED BY <3>2, <4>3
    <3> QED BY <3>1, <3>2
  <2>8. Cardinality(B) = Cardinality(A) + One(this) /\ Cardinality(A) \in Nat
    <3>1. A \in SUBSET DOMAIN skipped
        BY <2>6
    <3>2. Cardinality(A) \in Nat /\ Cardinality(A \cup {n}) = Cardinality(A) + 1
        BY <1>4, <3>1, OneMore
    <3>3. CASE this
        BY <2>7, <3>2, <3>3 DEF One
    <3>4. CASE ~this
        BY <2>7, <3>2, <3>4 DEF One
    <3> QED BY <3>3, <3>4
  <2>9. Tallied(key, right) + Cardinality(B) + One(UnderWay(key, right)') = Cardinality(Named(key, right))
      BY <2>1, <2>3, <2>4, <2>8
  <2> QED BY <2>2, <2>9 DEF B
<1> QED BY <1>6, <1>7 DEF ScorecardTrue

LEMMA AgentsFinite == IsFiniteSet(Agents)
<1>1. IsFiniteSet({})
    BY FS_EmptySet
<1> DEFINE A == {"options"} B == A \cup {"flow"} C == B \cup {"profile"} D == C \cup {"technical"}
           E == D \cup {"sentiment"} F == E \cup {"news"} G == F \cup {"macro"}
<1>2. Agents = G
    BY DEF Agents
<1>3. IsFiniteSet(A)
    BY FS_Singleton
<1> HIDE DEF A, B, C, D, E, F
<1>4. IsFiniteSet(B)
    BY <1>3, FS_AddElement DEF B
<1>5. IsFiniteSet(C)
    BY <1>4, FS_AddElement DEF C
<1>6. IsFiniteSet(D)
    BY <1>5, FS_AddElement DEF D
<1>7. IsFiniteSet(E)
    BY <1>6, FS_AddElement DEF E
<1>8. IsFiniteSet(F)
    BY <1>7, FS_AddElement DEF F
<1>9. IsFiniteSet(G)
    BY <1>8, FS_AddElement
<1> QED BY <1>2, <1>9

LEMMA KilledKeeps == ASSUME LearningInv, Killed PROVE LearningInv'
<1> USE DEF LearningInv
<1> DEFINE X == {[key |-> Row(a, counting), right |-> a \in Right(counting)] : a \in uncounted}
           E == [key : AllRows, right : BOOLEAN]
<1>1. /\ todo' = <<>> /\ counting' = Nothing /\ uncounted' = {}
      /\ skipped' = skipped \o SetToSeq(X)
      /\ UNCHANGED <<course, lessons, accuracy>>
    BY DEF Killed
<1>2. X \in SUBSET E
  <2> SUFFICES ASSUME NEW a \in uncounted
               PROVE  [key |-> Row(a, counting), right |-> a \in Right(counting)] \in E
      OBVIOUS
  <2>1. counting \in AllTrades /\ a \in Agents
      BY JudgedSides DEF LearningTypes
  <2>2. Row(a, counting) \in AllRows
      BY <2>1, RowIn
  <2> QED BY <2>2
<1>3. IsFiniteSet(X)
  <2>1. IsFiniteSet(Agents)
      BY AgentsFinite
  <2>2. uncounted \subseteq Agents
    <3>1. CASE counting = Nothing
        BY <3>1 DEF LearningTypes
    <3>2. CASE counting # Nothing
        BY <3>2, JudgedSides DEF LearningTypes
    <3> QED BY <3>1, <3>2
  <2>3. IsFiniteSet(uncounted)
      BY <2>1, <2>2, FS_Subset
  <2> DEFINE f == [a \in uncounted |-> [key |-> Row(a, counting), right |-> a \in Right(counting)]]
  <2>4. X = {f[a] : a \in uncounted}
      OBVIOUS
  <2>5. f \in Surjection(uncounted, X)
      BY DEF Surjection
  <2> QED BY <2>3, <2>5, FS_Surjection
<1>4. skipped \in Seq(E)
    BY DEF LearningTypes
<1>5. ASSUME NEW key \in Scorecards, NEW right \in BOOLEAN
      PROVE  [key |-> key, right |-> right] \in X <=> UnderWay(key, right)
  <2> DEFINE v == [key |-> key, right |-> right]
  <2>1. ASSUME v \in X PROVE UnderWay(key, right)
    <3>1. PICK a \in uncounted : v = [key |-> Row(a, counting), right |-> a \in Right(counting)]
        BY <2>1
    <3>2. v.key = Row(a, counting) /\ v.right = (a \in Right(counting))
        BY <3>1
    <3>3. key = Row(a, counting) /\ right = (a \in Right(counting))
        BY <3>2
    <3>4. key[1] = a
        BY <3>3, KeyParts
    <3> QED BY <3>3, <3>4 DEF UnderWay
  <2>2. ASSUME UnderWay(key, right) PROVE v \in X
    <3>1. key[1] \in uncounted /\ v = [key |-> Row(key[1], counting), right |-> key[1] \in Right(counting)]
        BY <2>2 DEF UnderWay
    <3> QED BY <3>1
  <2> QED BY <2>1, <2>2
<1> HIDE DEF X, E
<1>6. skipped' \in Seq(E) /\ \A v : Cardinality(PlacesOf(skipped', v)) =
                                       Cardinality(PlacesOf(skipped, v)) + One(v \in X)
    BY <1>1, <1>2, <1>3, <1>4, OncePerElement
<1>7. LearningTypes'
  <2>1. <<>> \in Seq(AllTrades)
      OBVIOUS
  <2> QED BY <1>1, <1>6, <2>1 DEF LearningTypes, E
<1>8. ASSUME NEW key \in Scorecards, NEW right \in BOOLEAN
      PROVE  (Tallied(key, right) + Cardinality(Skipped(key, right)) + One(UnderWay(key, right))
                = Cardinality(Named(key, right)))'
  <2>1. Cardinality(Skipped(key, right)') = Cardinality(Skipped(key, right)) + One(UnderWay(key, right))
    <3> DEFINE v == [key |-> key, right |-> right]
    <3>1. Skipped(key, right) = PlacesOf(skipped, v) /\ Skipped(key, right)' = PlacesOf(skipped', v)
        BY DEF Skipped, PlacesOf
    <3>2. One(v \in X) = One(UnderWay(key, right))
        BY <1>5 DEF One
    <3> HIDE DEF v
    <3> QED BY <1>6, <3>1, <3>2
  <2>2. Tallied(key, right)' = Tallied(key, right) /\ Named(key, right)' = Named(key, right)
      BY <1>1 DEF Tallied, Named
  <2>3. One(UnderWay(key, right)') = 0
      BY <1>1 DEF UnderWay, One
  <2>4. Tallied(key, right) + Cardinality(Skipped(key, right)) + One(UnderWay(key, right))
            = Cardinality(Named(key, right))
      BY DEF ScorecardTrue
  <2>5. Tallied(key, right) \in Int /\ Cardinality(Skipped(key, right)) \in Int
        /\ One(UnderWay(key, right)) \in Int
      BY PartTypes, OneType
  <2> QED BY <2>1, <2>2, <2>3, <2>4, <2>5
<1> QED BY <1>7, <1>8 DEF ScorecardTrue

LEMMA LearningStep == ASSUME LearningInv, [LearningNext]_learningVars PROVE LearningInv'
<1> USE DEF LearningInv
<1>1. ASSUME UNCHANGED <<course, todo, counting, uncounted, lessons, accuracy, skipped>>
      PROVE  LearningInv'
  <2>1. LearningTypes'
      BY <1>1 DEF LearningTypes
  <2> QED BY <1>1, <2>1, ScoresSame
<1>2. CASE StoreFails
  <2>1. todo # <<>> /\ todo' = Tail(todo)
        /\ UNCHANGED <<course, counting, uncounted, lessons, accuracy, skipped>>
      BY <1>2 DEF StoreFails
  <2>2. LearningTypes'
      BY <2>1, FirstTrade DEF LearningTypes
  <2> QED BY <2>1, <2>2, ScoresSame
<1>3. CASE AskTrust
    BY <1>1, <1>3 DEF AskTrust
<1>4. CASE AskFails
    BY <1>1, <1>4 DEF AskFails
<1>5. CASE Forget
    BY <1>1, <1>5 DEF Forget
<1>6. CASE UNCHANGED learningVars
    BY <1>1, <1>6 DEF learningVars
<1> QED BY <1>2, <1>3, <1>4, <1>5, <1>6, RunKeeps, StoreKeeps, CountKeeps, CountFailsKeeps, KilledKeeps
        DEF LearningNext

\* The types and the scores are inductive together.
THEOREM LearningInvariant == LearningSpec => []LearningInv
BY LearningStart, LearningStep, PTL DEF LearningSpec

\* An analyst's row of the accuracy table counts the lessons that name it, but for
\* the counts still to come and those lost (historical_backtester.py:664-729).
THEOREM ScoresAgree == LearningSpec => []ScorecardTrue
<1>1. LearningInv => ScorecardTrue
    BY DEF LearningInv
<1> QED BY <1>1, LearningInvariant, PTL

LEMMA LeastIs ==
    ASSUME NEW S \in SUBSET Int, NEW m \in S, \A x \in S : m <= x
    PROVE  Min(S) = m
<1>1. \E n \in S : \A y \in S : n <= y
    OBVIOUS
<1>2. Min(S) \in S /\ \A y \in S : Min(S) <= y
    BY <1>1 DEF Min
<1>3. Min(S) \in Int /\ m \in Int /\ Min(S) <= m /\ m <= Min(S)
    BY <1>2
<1> QED BY <1>3

LEMMA LeastOf ==
    ASSUME NEW S \in SUBSET Int, IsFiniteSet(S), S # {}
    PROVE  Min(S) \in S /\ \A x \in S : Min(S) <= x
<1> DEFINE f == [x \in S |-> -x]
           T == {-x : x \in S}
<1>1. f \in Surjection(S, T)
    BY DEF Surjection
<1>2. IsFiniteSet(T)
    BY <1>1, FS_Surjection
<1>3. T \in SUBSET Int /\ T # {}
    OBVIOUS
<1> DEFINE m == Max(T)
<1>4. m \in T /\ \A y \in T : y <= m
    <2> HIDE DEF T, f
    <2> QED BY <1>2, <1>3, LargestOf
<1> HIDE DEF m
<1>5. PICK n \in S : m = -n
    BY <1>4
<1>6. \A x \in S : n <= x
  <2> SUFFICES ASSUME NEW x \in S PROVE n <= x
      OBVIOUS
  <2>1. -x \in T
      OBVIOUS
  <2>2. -x <= -n
      BY <1>4, <1>5, <2>1
  <2> QED BY <2>2
<1>7. Min(S) = n
    BY <1>6, LeastIs
<1> QED BY <1>6, <1>7

\* The worse and the better of a bar's extremes for a trade.
Worse(b, dir, entry) == IF dir = 1 THEN b.low - entry ELSE entry - b.high
Better(b, dir, entry) == IF dir = 1 THEN b.high - entry ELSE entry - b.low

LEMMA Extremes ==
    ASSUME NEW b \in Bar, NEW dir \in {1, -1}, NEW entry \in Int, NEW stop \in Int, NEW target \in Int
    PROVE  /\ Worse(b, dir, entry) \in Int /\ Better(b, dir, entry) \in Int
           /\ Worse(b, dir, entry) <= Better(b, dir, entry)
           /\ Against(b, dir, entry, stop) <=> Worse(b, dir, entry) <= -stop
           /\ For(b, dir, entry, target) <=> Better(b, dir, entry) >= target
           /\ dir = 1 => /\ dir * (b.low - entry) = Worse(b, dir, entry)
                         /\ dir * (b.high - entry) = Better(b, dir, entry)
           /\ dir # 1 => /\ dir * (b.high - entry) = Worse(b, dir, entry)
                         /\ dir * (b.low - entry) = Better(b, dir, entry)
<1>1. b.low \in Int /\ b.high \in Int /\ b.low <= b.high
    BY DEF Bar
<1>2. CASE dir = 1
    BY <1>1, <1>2 DEF Worse, Better, Against, For
<1>3. CASE dir = -1
    BY <1>1, <1>3 DEF Worse, Better, Against, For
<1> QED BY <1>2, <1>3

\* Two prices a bar, its extremes in the order that highFirst says.
LEMMA TwoPrices ==
    ASSUME NEW day \in Seq(Bar), NEW at \in Nat, NEW last \in Nat,
           NEW highFirst \in [at + 1 .. last -> BOOLEAN], NEW i \in at + 1 .. last
    PROVE  LET prices == PricesSeen(day, at, last, highFirst)
               n == 2 * (i - at)
           IN /\ n \in DOMAIN prices /\ n - 1 \in DOMAIN prices
              /\ highFirst[i] => prices[n - 1] = day[i].high /\ prices[n] = day[i].low
              /\ ~highFirst[i] => prices[n - 1] = day[i].low /\ prices[n] = day[i].high
<1> DEFINE prices == PricesSeen(day, at, last, highFirst)
           n == 2 * (i - at)
<1>1. n \in 1 .. 2 * (last - at) /\ n - 1 \in 1 .. 2 * (last - at)
    OBVIOUS
<1>2. at + (n + 1) \div 2 = i /\ at + ((n - 1) + 1) \div 2 = i
    OBVIOUS
<1>3. n % 2 = 0 /\ (n - 1) % 2 = 1
    OBVIOUS
<1>4. DOMAIN prices = 1 .. 2 * (last - at)
    BY DEF PricesSeen
<1> HIDE DEF n
<1>5. prices[n] = IF highFirst[i] = (n % 2 = 1) THEN day[i].high ELSE day[i].low
    BY <1>1, <1>2 DEF PricesSeen
<1>6. prices[n - 1] = IF highFirst[i] = ((n - 1) % 2 = 1) THEN day[i].high ELSE day[i].low
    BY <1>1, <1>2 DEF PricesSeen
<1>7. highFirst[i] \in BOOLEAN
    OBVIOUS
<1> HIDE DEF prices
<1>8. CASE highFirst[i] = TRUE
  <2> DEFINE even == n % 2 = 1
             odd == (n - 1) % 2 = 1
  <2>0. even = FALSE /\ odd = TRUE
      BY <1>3
  <2> HIDE DEF even, odd
  <2>1. ~(highFirst[i] = even) /\ highFirst[i] = odd
      BY <1>8, <2>0, Zenon
  <2> QED BY <1>1, <1>4, <1>5, <1>6, <1>8, <2>1 DEF prices, n, even, odd
<1>9. CASE highFirst[i] = FALSE
  <2>1. (highFirst[i] = (n % 2 = 1)) = TRUE /\ (highFirst[i] = ((n - 1) % 2 = 1)) = FALSE
      BY <1>3, <1>9
  <2> QED BY <1>1, <1>4, <1>5, <1>6, <1>9, <2>1 DEF prices, n
<1> QED BY <1>7, <1>8, <1>9

LEMMA EachPrice ==
    ASSUME NEW at \in Nat, NEW last \in Nat, NEW n \in 1 .. 2 * (last - at)
    PROVE  \E i \in at + 1 .. last : n \in {2 * (i - at), 2 * (i - at) - 1}
<1> DEFINE i == at + (n + 1) \div 2
<1>1. i \in at + 1 .. last
    OBVIOUS
<1>2. n \in {2 * (i - at), 2 * (i - at) - 1}
    OBVIOUS
<1> QED BY <1>1, <1>2

LEMMA Ranges ==
    ASSUME NEW day \in Seq(Bar), NEW at \in 1 .. Len(day), NEW last \in at + 1 .. Len(day)
    PROVE  /\ at \in Nat /\ last \in Nat /\ day[at] \in Bar /\ day[last] \in Bar
           /\ \A i \in at + 1 .. last : i \in Nat /\ day[i] \in Bar
<1>1. Len(day) \in Nat /\ \A i \in 1 .. Len(day) : day[i] \in Bar
    OBVIOUS
<1>2. at \in Nat /\ last \in Nat /\ last \in 1 .. Len(day)
    BY <1>1
<1>3. \A i \in at + 1 .. last : i \in Nat /\ i \in 1 .. Len(day)
    BY <1>1, <1>2
<1> QED BY <1>1, <1>2, <1>3

\* What the two prices of a bar bring.
Bring(prices, n, dir, entry, x, y) == dir * (prices[n - 1] - entry) = x /\ dir * (prices[n] - entry) = y

\* They bring what the bar's extremes do, in either order.
LEMMA TwoGains ==
    ASSUME NEW day \in Seq(Bar), NEW at \in 1 .. Len(day), NEW last \in at + 1 .. Len(day),
           NEW highFirst \in [at + 1 .. last -> BOOLEAN], NEW i \in at + 1 .. last,
           NEW dir \in {1, -1}, NEW entry \in Int
    PROVE  \/ /\ highFirst[i] <=> dir # 1
              /\ Bring(PricesSeen(day, at, last, highFirst), 2 * (i - at), dir, entry,
                       Worse(day[i], dir, entry), Better(day[i], dir, entry))
           \/ /\ highFirst[i] <=> dir = 1
              /\ Bring(PricesSeen(day, at, last, highFirst), 2 * (i - at), dir, entry,
                       Better(day[i], dir, entry), Worse(day[i], dir, entry))
<1> DEFINE prices == PricesSeen(day, at, last, highFirst)
           n == 2 * (i - at)
           b == day[i]
<1>1. b \in Bar /\ at \in Nat /\ last \in Nat
    BY Ranges
<1>2. /\ highFirst[i] => prices[n - 1] = b.high /\ prices[n] = b.low
      /\ ~highFirst[i] => prices[n - 1] = b.low /\ prices[n] = b.high
    BY <1>1, TwoPrices
<1> HIDE DEF b, n, prices
<1>3. /\ dir = 1 => /\ dir * (b.low - entry) = Worse(b, dir, entry)
                    /\ dir * (b.high - entry) = Better(b, dir, entry)
      /\ dir # 1 => /\ dir * (b.high - entry) = Worse(b, dir, entry)
                    /\ dir * (b.low - entry) = Better(b, dir, entry)
  <2>1. 0 \in Int
      OBVIOUS
  <2> QED BY <1>1, <2>1, Extremes
<1>4. highFirst[i] \in BOOLEAN
    OBVIOUS
<1>5. CASE highFirst[i] = TRUE
  <2>1. prices[n - 1] = b.high /\ prices[n] = b.low
      BY <1>2, <1>5
  <2>2. CASE dir = 1
    <3>1. (highFirst[i] <=> dir = 1)
        BY <1>5, <2>2
    <3> QED BY <1>3, <2>1, <2>2, <3>1 DEF b, n, prices, Bring
  <2>3. CASE dir # 1
    <3>1. (highFirst[i] <=> dir # 1)
        BY <1>5, <2>3
    <3> QED BY <1>3, <2>1, <2>3, <3>1 DEF b, n, prices, Bring
  <2> QED BY <2>2, <2>3
<1>6. CASE highFirst[i] = FALSE
  <2>1. prices[n - 1] = b.low /\ prices[n] = b.high
      BY <1>2, <1>6
  <2>2. CASE dir = 1
    <3>1. (highFirst[i] <=> dir # 1)
        BY <1>6, <2>2
    <3> QED BY <1>3, <2>1, <2>2, <3>1 DEF b, n, prices, Bring
  <2>3. CASE dir # 1
    <3>1. (highFirst[i] <=> dir = 1)
        BY <1>6, <2>3
    <3> QED BY <1>3, <2>1, <2>3, <3>1 DEF b, n, prices, Bring
  <2> QED BY <2>2, <2>3
<1> QED BY <1>4, <1>5, <1>6

\* The prices on which an order is filled.
EndsAt(prices, dir, entry, stop, target) ==
    {n \in DOMAIN prices : \/ dir * (prices[n] - entry) <= -stop
                           \/ dir * (prices[n] - entry) >= target}

\* Does the bar fill one of the orders?
Touches(b, dir, entry, stop, target) == Against(b, dir, entry, stop) \/ For(b, dir, entry, target)

LEMMA FilledOnBar ==
    ASSUME NEW day \in Seq(Bar), NEW at \in 1 .. Len(day), NEW last \in at + 1 .. Len(day),
           NEW highFirst \in [at + 1 .. last -> BOOLEAN],
           NEW dir \in {1, -1}, NEW entry \in Int, NEW stop \in Nat, NEW target \in Nat,
           NEW n \in EndsAt(PricesSeen(day, at, last, highFirst), dir, entry, stop, target)
    PROVE  \E i \in at + 1 .. last : /\ n \in {2 * (i - at), 2 * (i - at) - 1}
                                     /\ Touches(day[i], dir, entry, stop, target)
<1> DEFINE prices == PricesSeen(day, at, last, highFirst)
<1>1. at \in Nat /\ last \in Nat /\ \A i \in at + 1 .. last : day[i] \in Bar
    BY Ranges
<1>2. DOMAIN prices = 1 .. 2 * (last - at)
    BY DEF PricesSeen
<1> DEFINE gain == dir * (prices[n] - entry)
<1>3. n \in 1 .. 2 * (last - at) /\ (gain <= -stop \/ gain >= target)
    BY <1>2 DEF EndsAt
<1>4. PICK i \in at + 1 .. last : n \in {2 * (i - at), 2 * (i - at) - 1}
    BY <1>1, <1>3, EachPrice
<1> DEFINE worse == Worse(day[i], dir, entry)
           better == Better(day[i], dir, entry)
<1>5. gain \in {worse, better}
  <2>1. dir * (prices[2 * (i - at) - 1] - entry) \in {worse, better}
        /\ dir * (prices[2 * (i - at)] - entry) \in {worse, better}
    <3> DEFINE sooner == dir * (prices[2 * (i - at) - 1] - entry)
               later == dir * (prices[2 * (i - at)] - entry)
    <3>1. (sooner = worse /\ later = better) \/ (sooner = better /\ later = worse)
      <4> DEFINE two == 2 * (i - at)
      <4>1. \/ Bring(prices, two, dir, entry, worse, better)
            \/ Bring(prices, two, dir, entry, better, worse)
          BY TwoGains
      <4> HIDE DEF two, worse, better, prices
      <4> QED BY <4>1 DEF Bring, two
    <3> HIDE DEF sooner, later, worse, better
    <3>2. sooner \in {worse, better} /\ later \in {worse, better}
        BY <3>1
    <3> QED BY <3>2 DEF sooner, later
  <2> QED BY <1>4, <2>1
<1>6. /\ worse \in Int /\ better \in Int /\ worse <= better
      /\ Against(day[i], dir, entry, stop) <=> worse <= -stop
      /\ For(day[i], dir, entry, target) <=> better >= target
  <2>1. stop \in Int /\ target \in Int /\ day[i] \in Bar
      BY <1>1
  <2> QED BY <2>1, Extremes
<1> HIDE DEF gain, worse, better
<1>7. Touches(day[i], dir, entry, stop, target)
    BY <1>3, <1>5, <1>6 DEF Touches
<1> QED BY <1>4, <1>7

\* Bar i is the first that touches one of the orders.
FirstIs(i, day, at, last, dir, entry, stop, target) ==
    /\ Touches(day[i], dir, entry, stop, target)
    /\ \A k \in at + 1 .. last : k < i => ~Touches(day[k], dir, entry, stop, target)

\* What that bar makes of the trade.
Decides(b, highFirst, dir, entry, stop, target, end) ==
    /\ end \in {-stop, target}
    /\ ~Against(b, dir, entry, stop) => end = target
    /\ Against(b, dir, entry, stop) /\ (highFirst <=> dir # 1) => end = -stop

\* The first bar that touches an order decides: for the stop if it sees the worse
\* of its extremes first and that reaches it, and for the target if it does not.
LEMMA FirstTouch ==
    ASSUME NEW day \in Seq(Bar), NEW at \in 1 .. Len(day), NEW last \in at + 1 .. Len(day),
           NEW highFirst \in [at + 1 .. last -> BOOLEAN], NEW i \in at + 1 .. last,
           NEW dir \in {1, -1}, NEW entry \in Int, NEW stop \in Nat, NEW target \in Nat, NEW close,
           FirstIs(i, day, at, last, dir, entry, stop, target)
    PROVE  Decides(day[i], highFirst[i], dir, entry, stop, target,
                   Rested(PricesSeen(day, at, last, highFirst), dir, entry, stop, target, close))
<1> DEFINE prices == PricesSeen(day, at, last, highFirst)
           n == 2 * (i - at)
           gain(m) == dir * (prices[m] - entry)
           worse == Worse(day[i], dir, entry)
           better == Better(day[i], dir, entry)
           E == EndsAt(prices, dir, entry, stop, target)
           end == Rested(prices, dir, entry, stop, target, close)
<1>1. at \in Nat /\ last \in Nat /\ day[i] \in Bar /\ i \in Nat
    BY Ranges
<1>2. /\ worse \in Int /\ better \in Int /\ worse <= better
      /\ Against(day[i], dir, entry, stop) <=> worse <= -stop
      /\ For(day[i], dir, entry, target) <=> better >= target
  <2>1. stop \in Int /\ target \in Int
      OBVIOUS
  <2> QED BY <1>1, <2>1, Extremes
<1>3. \/ (highFirst[i] <=> dir # 1) /\ gain(n - 1) = worse /\ gain(n) = better
      \/ (highFirst[i] <=> dir = 1) /\ gain(n - 1) = better /\ gain(n) = worse
  <2>1. \/ (highFirst[i] <=> dir # 1) /\ Bring(prices, n, dir, entry, worse, better)
        \/ (highFirst[i] <=> dir = 1) /\ Bring(prices, n, dir, entry, better, worse)
      BY TwoGains
  <2> HIDE DEF prices, n, worse, better
  <2> QED BY <2>1 DEF Bring
<1>4. n \in DOMAIN prices /\ n - 1 \in DOMAIN prices
    BY <1>1, TwoPrices
<1>5. n \in Int /\ DOMAIN prices \subseteq Int
    BY <1>1 DEF PricesSeen
<1>6. \A m \in E : m >= n - 1
  <2> SUFFICES ASSUME NEW m \in E PROVE m >= n - 1
      OBVIOUS
  <2>1. PICK k \in at + 1 .. last : m \in {2 * (k - at), 2 * (k - at) - 1}
                                    /\ Touches(day[k], dir, entry, stop, target)
      BY FilledOnBar
  <2>2. k \in Int /\ ~(k < i)
      BY <1>1, <2>1 DEF FirstIs
  <2> QED BY <1>1, <2>1, <2>2
<1>7. \A m \in DOMAIN prices : m \in E <=> gain(m) <= -stop \/ gain(m) >= target
    BY DEF EndsAt
<1>8. E \in SUBSET DOMAIN prices
    BY DEF EndsAt
<1>9. end = IF E = {} THEN dir * (close - entry)
            ELSE IF gain(Min(E)) <= -stop THEN -stop ELSE target
    BY DEF Rested, EndsAt
<1>10. worse <= -stop \/ better >= target
    BY <1>2 DEF FirstIs, Touches
<1> HIDE DEF prices, n, gain, worse, better, E, end
<1>11. E \in SUBSET Int
    BY <1>5, <1>8
<1>12. n - 1 \in E \/ n \in E
    BY <1>3, <1>4, <1>7, <1>10
<1>13. CASE n - 1 \in E
  <2>1. Min(E) = n - 1
    <3> DEFINE m == n - 1
    <3>1. m \in E /\ \A x \in E : m <= x
        BY <1>5, <1>6, <1>11, <1>13
    <3> HIDE DEF m
    <3>2. Min(E) = m
        BY <1>11, <3>1, LeastIs
    <3> QED BY <3>2 DEF m
  <2>2. end = IF gain(n - 1) <= -stop THEN -stop ELSE target
      BY <1>9, <1>13, <2>1
  <2>3. gain(n - 1) <= -stop \/ gain(n - 1) >= target
      BY <1>4, <1>7, <1>13
  <2>4. CASE gain(n - 1) = worse
    <3>1. end = IF worse <= -stop THEN -stop ELSE target
        BY <2>2, <2>4
    <3> QED BY <1>2, <3>1 DEF Decides, end, prices
  <2>5. CASE (highFirst[i] <=> dir = 1) /\ gain(n - 1) = better
    <3>1. end = IF better <= -stop THEN -stop ELSE target
        BY <2>2, <2>5
    <3>2. ~(worse <= -stop) => end = target
        BY <1>2, <3>1
    <3>3. ~(highFirst[i] <=> dir # 1)
        BY <2>5
    <3> QED BY <1>2, <3>1, <3>2, <3>3 DEF Decides, end, prices
  <2> QED BY <1>3, <2>4, <2>5
<1>14. CASE n - 1 \notin E
  <2>1. n \in E /\ Min(E) = n
    <3>1. n \in E
        BY <1>12, <1>14
    <3>2. \A x \in E : n <= x
        BY <1>5, <1>6, <1>11, <1>14
    <3> QED BY <1>11, <3>1, <3>2, LeastIs
  <2>2. end = IF gain(n) <= -stop THEN -stop ELSE target
      BY <1>9, <2>1
  <2>3. ~(gain(n - 1) <= -stop)
      BY <1>4, <1>7, <1>14
  <2>4. CASE (highFirst[i] <=> dir # 1) /\ gain(n - 1) = worse /\ gain(n) = better
    <3>1. ~(worse <= -stop)
        BY <2>3, <2>4
    <3>2. ~(better <= -stop) /\ end = target
        BY <1>2, <2>2, <2>4, <3>1
    <3> QED BY <1>2, <3>1, <3>2 DEF Decides, end, prices
  <2>5. CASE (highFirst[i] <=> dir = 1) /\ gain(n) = worse
    <3>1. end = IF worse <= -stop THEN -stop ELSE target
        BY <2>2, <2>5
    <3>2. ~(highFirst[i] <=> dir # 1)
        BY <2>5
    <3> QED BY <1>2, <3>1, <3>2 DEF Decides, end, prices
  <2> QED BY <1>3, <2>4, <2>5
<1> QED BY <1>13, <1>14

LEMMA GapType ==
    ASSUME NEW kind \in {"INTRADAY", "SCALP"}, NEW atr \in Nat
    PROVE  Gap(Stop[kind], atr) \in Nat /\ Gap(Target[kind], atr) \in Nat
<1>1. CASE kind = "INTRADAY"
    BY <1>1 DEF Gap, Stop, Target
<1>2. CASE kind = "SCALP"
    BY <1>2 DEF Gap, Stop, Target
<1> QED BY <1>1, <1>2

\* The worst that orders resting from a bar to another might have brought.
WorstOf(kind, day, at, last, dir) ==
    Min({Rested(PricesSeen(day, at, last, highFirst), dir, day[at].close,
                Gap(Stop[kind], day[at].atr), Gap(Target[kind], day[at].atr), day[last].close) :
            highFirst \in [at + 1 .. last -> BOOLEAN]})

\* The day's walk is the worst that resting orders would have made of it.
LEMMA WalkIsWorst ==
    ASSUME NEW day \in Seq(Bar), NEW at \in 1 .. Len(day), NEW last \in at + 1 .. Len(day),
           NEW dir \in {1, -1}, NEW kind \in {"INTRADAY", "SCALP"}
    PROVE  Walked(kind, day, at, last, dir).pnl = WorstOf(kind, day, at, last, dir)
<1> DEFINE entry == day[at].close
           stop == Gap(Stop[kind], day[at].atr)
           target == Gap(Target[kind], day[at].atr)
           close == day[last].close
           R == at + 1 .. last
           O == [R -> BOOLEAN]
           V(h) == Rested(PricesSeen(day, at, last, h), dir, entry, stop, target, close)
           All == {V(h) : h \in O}
           pnl == Walked(kind, day, at, last, dir).pnl
           touching == {k \in R : Touches(day[k], dir, entry, stop, target)}
<1>1. at \in Nat /\ last \in Nat /\ \A k \in R : k \in Nat /\ day[k] \in Bar
    BY Ranges
<1>2. entry \in Int /\ close \in Int /\ day[at].atr \in Nat
    BY Ranges DEF Bar
<1>3. stop \in Nat /\ target \in Nat
    BY <1>2, GapType
<1>4. pnl = IF touching = {} THEN dir * (close - entry)
            ELSE IF Against(day[Min(touching)], dir, entry, stop) THEN -stop ELSE target
  <2> DEFINE t == {k \in R : \/ Against(day[k], dir, entry, stop) \/ For(day[k], dir, entry, target)}
  <2>1. t = touching
      BY DEF Touches
  <2>2. Walked(kind, day, at, last, dir) =
            IF t = {} THEN [reason |-> "TIME_EXIT", pnl |-> dir * (close - entry)]
            ELSE IF Against(day[Min(t)], dir, entry, stop) THEN [reason |-> "STOP_LOSS", pnl |-> -stop]
            ELSE [reason |-> "TARGET", pnl |-> target]
      BY DEF Walked
  <2> HIDE DEF t, touching, entry, stop, target, close
  <2> QED BY <2>1, <2>2
<1>5. [k \in R |-> dir # 1] \in O
    OBVIOUS
<1>6. \A h \in O : V(h) \in All
    OBVIOUS
<1>7. CASE touching = {}
  <2>1. ASSUME NEW h \in O PROVE V(h) = dir * (close - entry)
    <3> DEFINE prices == PricesSeen(day, at, last, h)
    <3>1. EndsAt(prices, dir, entry, stop, target) = {}
      <4> SUFFICES ASSUME NEW n \in EndsAt(prices, dir, entry, stop, target) PROVE FALSE
          OBVIOUS
      <4> HIDE DEF entry, stop, target, close
      <4>1. PICK k \in R : Touches(day[k], dir, entry, stop, target)
          BY <1>2, <1>3, FilledOnBar
      <4> QED BY <1>7, <4>1
    <3> HIDE DEF prices, entry, stop, target, close
    <3> QED BY <3>1 DEF Rested, EndsAt, prices
  <2>2. pnl = dir * (close - entry)
      BY <1>4, <1>7
  <2>3. pnl \in Int
      BY <1>2, <2>2
  <2> HIDE DEF pnl, V, O, entry, close, stop, target
  <2>4. All = {pnl}
      BY <1>5, <2>1, <2>2
  <2> HIDE DEF All
  <2>5. All \in SUBSET Int /\ pnl \in All /\ \A x \in All : pnl <= x
      BY <2>3, <2>4
  <2>6. Min(All) = pnl
      BY <2>5, LeastIs
  <2> QED BY <2>6 DEF WorstOf, All, pnl, V, O, entry, close, stop, target
<1>8. CASE touching # {}
  <2> DEFINE i == Min(touching)
  <2>1. i \in touching /\ \A k \in touching : i <= k
    <3>1. touching \in SUBSET Int
        BY <1>1
    <3>2. IsFiniteSet(R)
      <4> DEFINE x == at + 1
      <4>1. x \in Int /\ last \in Int
          BY <1>1
      <4> HIDE DEF x
      <4>2. IsFiniteSet(x .. last)
          BY <4>1, FS_Interval
      <4> QED BY <4>2 DEF x
    <3>3. touching \in SUBSET R
        OBVIOUS
    <3> HIDE DEF touching, R
    <3>4. IsFiniteSet(touching)
        BY <3>2, <3>3, FS_Subset
    <3> QED BY <1>8, <3>1, <3>4, LeastOf
  <2> HIDE DEF i
  <2>2. i \in R /\ FirstIs(i, day, at, last, dir, entry, stop, target)
    <3>1. \A k \in R : k < i => k \notin touching
        BY <1>1, <2>1
    <3> QED BY <2>1, <3>1 DEF FirstIs
  <2>3. \A h \in O : /\ V(h) \in {-stop, target}
                     /\ ~Against(day[i], dir, entry, stop) => V(h) = target
                     /\ Against(day[i], dir, entry, stop) /\ (h[i] <=> dir # 1) => V(h) = -stop
    <3> SUFFICES ASSUME NEW h \in O
                 PROVE  /\ V(h) \in {-stop, target}
                        /\ ~Against(day[i], dir, entry, stop) => V(h) = target
                        /\ Against(day[i], dir, entry, stop) /\ (h[i] <=> dir # 1) => V(h) = -stop
        OBVIOUS
    <3> HIDE DEF entry, stop, target, close, touching
    <3>1. Decides(day[i], h[i], dir, entry, stop, target, V(h))
        BY <1>2, <1>3, <2>2, FirstTouch
    <3> HIDE DEF V
    <3> QED BY <3>1 DEF Decides
  <2>4. pnl = IF Against(day[i], dir, entry, stop) THEN -stop ELSE target
      BY <1>4, <1>8 DEF i
  <2> DEFINE worst == [k \in R |-> dir # 1]
  <2>5. worst \in O /\ (worst[i] <=> dir # 1)
      BY <2>2
  <2> HIDE DEF pnl, V, O, entry, close, stop, target, worst
  <2>6. All \in SUBSET Int
      BY <1>3, <2>3
  <2>7. pnl \in All
      BY <1>6, <2>3, <2>4, <2>5
  <2>8. \A x \in All : pnl <= x
    <3>1. CASE Against(day[i], dir, entry, stop)
        BY <1>3, <2>3, <2>4, <3>1
    <3>2. CASE ~Against(day[i], dir, entry, stop)
        BY <1>3, <2>3, <2>4, <3>2
    <3> QED BY <3>1, <3>2
  <2> HIDE DEF All
  <2>9. Min(All) = pnl
      BY <2>6, <2>7, <2>8, LeastIs
  <2> QED BY <2>9 DEF WorstOf, All, pnl, V, O, entry, close, stop, target
<1> QED BY <1>7, <1>8

LEMMA NotLucky == LearningTypes => Pessimistic
<1> SUFFICES ASSUME LearningTypes, NEW n \in DOMAIN todo, todo[n].type # "BTST"
             PROVE  LET t == todo[n]
                        day == course.day
                        last == IF t.type = "SCALP" THEN t.at + Hold ELSE Len(day)
                    IN t.pnl = Min({Rested(PricesSeen(day, t.at, last, highFirst), t.dir, day[t.at].close,
                                           Gap(Stop[t.type], day[t.at].atr), Gap(Target[t.type], day[t.at].atr),
                                           day[last].close) :
                                       highFirst \in [t.at + 1 .. last -> BOOLEAN]})
    BY DEF Pessimistic
<1> DEFINE t == todo[n]
           day == course.day
           last == IF t.type = "SCALP" THEN t.at + Hold ELSE Len(day)
<1>1. course \in Courses /\ t \in TradesIn(course)
  <2>1. todo # <<>>
      OBVIOUS
  <2>2. course \in Courses /\ todo \in Seq(TradesIn(course))
      BY <2>1 DEF LearningTypes
  <2> DEFINE T == TradesIn(course)
  <2> HIDE DEF T
  <2>3. todo \in Seq(T)
      BY <2>2 DEF T
  <2>4. todo[n] \in T
      BY <2>3
  <2> QED BY <2>2, <2>4 DEF T
<1>2. PICK kind \in DOMAIN Gate : t \in Tries(course, kind)
    BY <1>1 DEF TradesIn
<1>3. PICK i \in Bars(kind, Len(DayOf(course, kind))) : t = TradeAt(kind, DayOf(course, kind), i, course.vix)
    BY <1>2 DEF Tries
<1>4. kind = t.type /\ i = t.at
    BY <1>3 DEF TradeAt
<1>5. kind \in {"INTRADAY", "SCALP"} /\ DayOf(course, kind) = day
    BY <1>4 DEF Gate, DayOf
<1>6. day \in Seq(Bar) /\ Len(day) \in Nat
    BY <1>1, <1>5, DayLength
<1>7. Hold \in Nat \ {0}
    BY BacktestAssumption DEF BacktestAssumption
<1>8. i \in 1 .. Len(day) /\ last \in i + 1 .. Len(day)
  <2>1. CASE kind = "INTRADAY"
    <3>1. i \in 1 .. Len(day) - 1 /\ last = Len(day)
        BY <1>3, <1>4, <1>5, <2>1 DEF Bars
    <3> QED BY <1>6, <3>1
  <2>2. CASE kind = "SCALP"
    <3>1. i \in 1 .. Len(day) - Hold /\ last = i + Hold
        BY <1>3, <1>4, <1>5, <2>2 DEF Bars
    <3> QED BY <1>6, <1>7, <3>1
  <2> QED BY <1>5, <2>1, <2>2
<1>9. t.dir \in {1, -1}
    BY <1>1, TradeFacts DEF AllTrades
<1>10. t.pnl = Walked(kind, day, i, last, t.dir).pnl
  <2>1. t.pnl = Result(kind, day, i, t.dir).pnl
      BY <1>3, <1>5 DEF TradeAt
  <2>2. CASE kind = "INTRADAY"
      BY <1>4, <2>1, <2>2 DEF Result
  <2>3. CASE kind = "SCALP"
      BY <1>4, <2>1, <2>3 DEF Result
  <2> QED BY <1>5, <2>2, <2>3
<1> HIDE DEF t, day, last
<1> DEFINE dir == t.dir
<1> HIDE DEF dir
<1>11. Walked(kind, day, i, last, dir).pnl = WorstOf(kind, day, i, last, dir)
    BY <1>5, <1>6, <1>8, <1>9, WalkIsWorst DEF dir
<1>12. t.pnl = WorstOf(kind, day, i, last, t.dir)
    BY <1>10, <1>11 DEF dir
<1> QED BY <1>4, <1>12 DEF WorstOf, t, day, last

\* The day's simulated trades are what the worst order of highs and lows would
\* have brought (historical_backtester.py:468-497, 589-617).
THEOREM NeverLuckier == LearningSpec => []Pessimistic
<1>1. LearningInv => Pessimistic
    BY NotLucky DEF LearningInv
<1> QED BY <1>1, LearningInvariant, PTL

-----------------------------------------------------------------------------
(* The expiry calendar: what it answers on a trading day is what the exchange  *)
(* does, for any weekdays, month ends and holidays.  Days six or more apart    *)
(* keep their order when they are moved before holidays, so the expiries of    *)
(* the weeks and of the months rise, and the first of rising numbers from a    *)
(* day on is the least of them.                                                *)

LEMMA CalendarTypes ==
    /\ MonthEnds \in Seq(Int) /\ Len(MonthEnds) \in Nat /\ Len(MonthEnds) >= 2 /\ DOMAIN MonthEnds = 1 .. Len(MonthEnds)
    /\ MaxShifts \in 5 .. 9 /\ MaxHolidays \in 0 .. 3 /\ HolidayDays \subseteq Int /\ Weeks \in Nat
    /\ FirstDay \in Int /\ FirstDay >= 7 /\ LastDay \in Int /\ FirstDay <= LastDay
    BY ExpiryAssumption

LEMMA WeeklyType ==
    ASSUME NEW u \in DOMAIN WeeklyDay
    PROVE  WeeklyDay[u] \in 0 .. 4
    BY ExpiryAssumption

\* Four weekdays of six days in a row are not all holidays.
CalendarOK == holidays \in SUBSET Int /\ IsFiniteSet(holidays) /\ AllowedHolidays(holidays)

LEMMA FourAreMany ==
    ASSUME NEW a \in Int, NEW b \in Int, NEW c \in Int, NEW e \in Int, a < b, b < c, c < e
    PROVE  IsFiniteSet({a, b, c, e}) /\ Cardinality({a, b, c, e}) = 4
<1>1. IsFiniteSet({a}) /\ Cardinality({a}) = 1
    BY FS_Singleton
<1>2. IsFiniteSet({a} \cup {b}) /\ Cardinality({a} \cup {b}) = 2
  <2>1. b \notin {a}
      OBVIOUS
  <2> QED BY <1>1, <2>1, FS_AddElement
<1>3. IsFiniteSet(({a} \cup {b}) \cup {c}) /\ Cardinality(({a} \cup {b}) \cup {c}) = 3
  <2>1. c \notin {a} \cup {b}
      OBVIOUS
  <2> QED BY <1>2, <2>1, FS_AddElement
<1>4. IsFiniteSet((({a} \cup {b}) \cup {c}) \cup {e}) /\ Cardinality((({a} \cup {b}) \cup {c}) \cup {e}) = 4
  <2>1. e \notin ({a} \cup {b}) \cup {c}
      OBVIOUS
  <2> QED BY <1>3, <2>1, FS_AddElement
<1>5. (({a} \cup {b}) \cup {c}) \cup {e} = {a, b, c, e}
    OBVIOUS
<1> QED BY <1>4, <1>5

LEMMA NotAllShut ==
    ASSUME CalendarOK, NEW a \in Int, NEW b \in Int, NEW c \in Int, NEW e \in Int, a < b, b < c, c < e, e <= a + 5
    PROVE  ~({a, b, c, e} \subseteq holidays)
<1> SUFFICES ASSUME {a, b, c, e} \subseteq holidays PROVE FALSE
    OBVIOUS
<1> DEFINE F == {g \in holidays : a <= g /\ g <= a + 5}
           Q == {a, b, c, e}
<1>1. Cardinality(F) <= MaxHolidays
  <2>1. a \in holidays
      OBVIOUS
  <2> QED BY <2>1 DEF CalendarOK, AllowedHolidays
<1>2. Q \subseteq F
    OBVIOUS
<1>3. IsFiniteSet(F)
    BY FS_Subset DEF CalendarOK
<1>4. Cardinality(Q) = 4
    BY FourAreMany
<1> HIDE DEF F, Q
<1>5. Cardinality(Q) <= Cardinality(F) /\ Cardinality(F) \in Nat
    BY <1>2, <1>3, FS_Subset, FS_CardinalityType
<1> QED BY <1>1, <1>4, <1>5, CalendarTypes

\* The weekday and the week of a day.
LEMMA WeekOf ==
    ASSUME NEW n \in Int
    PROVE  n % 7 \in 0 .. 6 /\ n \div 7 \in Int /\ n = 7 * (n \div 7) + (n % 7)
OBVIOUS

LEMMA WeekIs ==
    ASSUME NEW n \in Int, NEW w \in Int, NEW r \in 0 .. 6, n = 7 * w + r
    PROVE  n % 7 = r /\ n \div 7 = w
<1>1. n % 7 \in 0 .. 6 /\ n \div 7 \in Int /\ n = 7 * (n \div 7) + (n % 7)
    BY WeekOf
<1> DEFINE v == n \div 7
           s == n % 7
<1> HIDE DEF v, s
<1>2. v \in Int /\ s \in 0 .. 6 /\ 7 * v + s = 7 * w + r
    BY <1>1 DEF v, s
<1> QED BY <1>2 DEF v, s

\* k days before a day of weekday r.
LEMMA DaysBefore ==
    ASSUME NEW d \in Int, NEW k \in 0 .. 6
    PROVE  (d - k) % 7 = IF k <= d % 7 THEN (d % 7) - k ELSE (d % 7) - k + 7
<1> DEFINE r == d % 7
           w == d \div 7
<1>1. r \in 0 .. 6 /\ w \in Int /\ d = 7 * w + r
    BY WeekOf
<1> HIDE DEF r, w
<1>2. CASE k <= r
  <2>1. d - k \in Int /\ r - k \in 0 .. 6 /\ d - k = 7 * w + (r - k)
      BY <1>1, <1>2
  <2>2. (d - k) % 7 = r - k
      BY <1>1, <2>1, WeekIs
  <2> QED BY <1>2, <2>2 DEF r
<1>3. CASE ~(k <= r)
  <2>1. d - k \in Int /\ r - k + 7 \in 0 .. 6 /\ w - 1 \in Int /\ d - k = 7 * (w - 1) + (r - k + 7)
      BY <1>1, <1>3
  <2>2. (d - k) % 7 = r - k + 7
      BY <2>1, WeekIs
  <2> QED BY <1>3, <2>2 DEF r
<1> QED BY <1>2, <1>3

\* Of six days four or more are weekdays.
LEMMA FourWeekdays ==
    ASSUME NEW d \in Int
    PROVE  \E a, b, c, e \in Int :
               /\ d - 5 <= a /\ a < b /\ b < c /\ c < e /\ e <= d
               /\ a % 7 < 5 /\ b % 7 < 5 /\ c % 7 < 5 /\ e % 7 < 5
<1> DEFINE r == d % 7
           Is(k) == (d - k) % 7 = IF k <= r THEN r - k ELSE r - k + 7
           Open(k) == (d - k) % 7 < 5
<1>1. r \in 0 .. 6
    BY WeekOf
<1>2. Is(0) /\ Is(1) /\ Is(2) /\ Is(3) /\ Is(4) /\ Is(5)
    BY DaysBefore
<1>3. ASSUME NEW j \in 0 .. 5, NEW k \in 0 .. 5, NEW l \in 0 .. 5, NEW m \in 0 .. 5,
             m < l, l < k, k < j, Open(j), Open(k), Open(l), Open(m)
      PROVE  \E a, b, c, e \in Int :
                 /\ d - 5 <= a /\ a < b /\ b < c /\ c < e /\ e <= d
                 /\ a % 7 < 5 /\ b % 7 < 5 /\ c % 7 < 5 /\ e % 7 < 5
  <2> WITNESS d - j \in Int, d - k \in Int, d - l \in Int, d - m \in Int
  <2> QED BY <1>3
<1> HIDE DEF r
<1>4. CASE r = 0
  <2>1. Open(0) /\ Open(3) /\ Open(4) /\ Open(5)
      BY <1>2, <1>4
  <2> QED BY <1>3, <2>1
<1>5. CASE r = 1
  <2>1. Open(0) /\ Open(1) /\ Open(4) /\ Open(5)
      BY <1>2, <1>5
  <2> QED BY <1>3, <2>1
<1>6. CASE r = 2
  <2>1. Open(0) /\ Open(1) /\ Open(2) /\ Open(5)
      BY <1>2, <1>6
  <2> QED BY <1>3, <2>1
<1>7. CASE r \in 3 .. 4
  <2>1. Open(0) /\ Open(1) /\ Open(2) /\ Open(3)
      BY <1>2, <1>7
  <2> QED BY <1>3, <2>1
<1>8. CASE r \in 5 .. 6
  <2>1. Open(2) /\ Open(3) /\ Open(4) /\ Open(5)
      BY <1>2, <1>8
  <2> QED BY <1>3, <2>1
<1> QED BY <1>1, <1>4, <1>5, <1>6, <1>7, <1>8

LEMMA TradingNear ==
    ASSUME CalendarOK, NEW d \in Int
    PROVE  \E t \in Int : d - 5 <= t /\ t <= d /\ IsTradingDay(t)
<1>1. PICK a, b, c, e \in Int :
               /\ d - 5 <= a /\ a < b /\ b < c /\ c < e /\ e <= d
               /\ a % 7 < 5 /\ b % 7 < 5 /\ c % 7 < 5 /\ e % 7 < 5
    BY FourWeekdays
<1>2. ~({a, b, c, e} \subseteq holidays)
  <2>1. e <= a + 5
      BY <1>1
  <2> QED BY <1>1, <2>1, NotAllShut
<1>3. PICK t \in {a, b, c, e} : t \notin holidays
    BY <1>2
<1>4. t \in Int /\ d - 5 <= t /\ t <= d /\ t % 7 < 5
    BY <1>1, <1>3
<1> QED BY <1>3, <1>4 DEF IsTradingDay, Weekday

\* The last trading day up to d, which the calendar finds by moving back.
IsLast(t, d) ==
    /\ t \in Int /\ d - 5 <= t /\ t <= d /\ IsTradingDay(t)
    /\ \A k \in Int : k <= d /\ IsTradingDay(k) => k <= t

LEMMA LastTradingIs ==
    ASSUME CalendarOK, NEW d \in Int
    PROVE  IsLast(LastTrading(d), d) /\ AdjustForHoliday(d) = LastTrading(d)
<1> DEFINE S == {t \in d - 9 .. d : IsTradingDay(t)}
           m == Max(S)
<1>1. PICK t \in Int : d - 5 <= t /\ t <= d /\ IsTradingDay(t)
    BY TradingNear
<1>2. t \in S /\ S \in SUBSET Int
    BY <1>1
<1>3. IsFiniteSet(S)
  <2>1. d - 9 \in Int
      OBVIOUS
  <2>2. IsFiniteSet(d - 9 .. d)
      BY <2>1, FS_Interval
  <2> QED BY <2>2, FS_Subset
<1>4. LastTrading(d) = m
    BY DEF LastTrading
<1>5. \A x \in S : x \in Int /\ x <= d /\ IsTradingDay(x)
    OBVIOUS
<1>6. \A k \in Int : k <= d /\ IsTradingDay(k) /\ d - 9 <= k => k \in S
    OBVIOUS
<1> HIDE DEF S
<1>7. m \in S /\ \A x \in S : x <= m
    BY <1>2, <1>3, LargestOf
<1> HIDE DEF m
<1>8. m \in Int /\ d - 5 <= m /\ m <= d /\ IsTradingDay(m)
    BY <1>1, <1>2, <1>5, <1>7
<1>9. \A k \in Int : k <= d /\ IsTradingDay(k) => k <= m
    BY <1>6, <1>7, <1>8
<1>10. IsLast(m, d)
    BY <1>8, <1>9 DEF IsLast
<1> DEFINE N == {n \in 0 .. MaxShifts : IsTradingDay(d - n) \/ n = MaxShifts}
           k == d - m
<1>11. N \in SUBSET Int
    BY CalendarTypes
<1>12. k \in N
  <2>1. k \in 0 .. MaxShifts /\ d - k = m
      BY <1>8, CalendarTypes
  <2> QED BY <1>8, <2>1
<1>13. \A x \in N : k <= x
  <2> TAKE x \in N
  <2>1. x \in Int /\ 0 <= x /\ d - x \in Int /\ d - x <= d
      BY CalendarTypes
  <2>2. CASE IsTradingDay(d - x)
    <3>1. d - x <= m
        BY <1>9, <2>1, <2>2
    <3> QED BY <1>8, <2>1, <3>1
  <2>3. CASE x = MaxShifts
      BY <1>8, <2>3, CalendarTypes
  <2> QED BY <2>2, <2>3
<1>14. AdjustForHoliday(d) = d - Min(N)
    BY DEF AdjustForHoliday
<1> HIDE DEF N
<1>15. Min(N) = k
    BY <1>11, <1>12, <1>13, LeastIs
<1>16. AdjustForHoliday(d) = m
    BY <1>8, <1>14, <1>15
<1> QED BY <1>4, <1>10, <1>16

\* The first of some rising numbers from d on.
Rises(f, I, w, d) ==
    /\ I \in SUBSET Int /\ f \in [I -> Int] /\ w \in I /\ d \in Int
    /\ f[w] >= d
    /\ \A v \in I : v < w => f[v] < d
    /\ \A v \in I : w < v => f[w] < f[v]

Values(f, I) == {f[v] : v \in I}

LEMMA FirstOf ==
    ASSUME NEW I, NEW f, NEW w, NEW d, Rises(f, I, w, d)
    PROVE  /\ f[w] \in From(Values(f, I), d)
           /\ Min(From(Values(f, I), d)) = f[w]
           /\ \A x \in From(Values(f, I), d) : f[w] <= x
<1> USE DEF Rises
<1> DEFINE S == From(Values(f, I), d)
<1>1. f[w] \in S /\ S \in SUBSET Int
    BY DEF From, Values
<1>2. \A x \in S : f[w] <= x
  <2> TAKE x \in S
  <2>1. PICK v \in I : x = f[v] /\ f[v] >= d
      BY DEF From, Values
  <2>2. v \in Int /\ w \in Int /\ f[v] \in Int /\ f[w] \in Int
      OBVIOUS
  <2>3. ~(v < w)
      BY <2>1, <2>2
  <2>4. CASE v = w
      BY <2>1, <2>2, <2>4
  <2>5. CASE w < v
      BY <2>1, <2>2, <2>5
  <2> QED BY <2>2, <2>3, <2>4, <2>5
<1> HIDE DEF S
<1>3. Min(S) = f[w]
    BY <1>1, <1>2, LeastIs
<1> QED BY <1>1, <1>2, <1>3 DEF S

\* Days six or more apart keep their order when they are moved before holidays.
LEMMA MovedApart ==
    ASSUME CalendarOK, NEW d \in Int, NEW e \in Int, d + 6 <= e
    PROVE  /\ LastTrading(d) \in Int /\ LastTrading(e) \in Int
           /\ LastTrading(d) <= d /\ LastTrading(d) < LastTrading(e)
<1>1. IsLast(LastTrading(d), d) /\ IsLast(LastTrading(e), e)
    BY LastTradingIs
<1> DEFINE s == LastTrading(d)
           t == LastTrading(e)
<1>2. s \in Int /\ s <= d /\ t \in Int /\ e - 5 <= t
    BY <1>1 DEF IsLast
<1> HIDE DEF s, t
<1>3. s < t
    BY <1>2
<1> QED BY <1>2, <1>3 DEF s, t

\* The weekday of an index in week w, its expiry, and the week that day d looks to.
ExpiryDay(u, w) == 7 * w + WeeklyDay[u]
Expires(u, w) == LastTrading(ExpiryDay(u, w))
WeekAhead(u, d) == (d - WeeklyDay[u] + 6) \div 7
InWeek(u, w, d) == w \in Int /\ ExpiryDay(u, w) - 6 <= d /\ d <= ExpiryDay(u, w)

LEMMA WeekAheadIs ==
    ASSUME NEW u \in DOMAIN WeeklyDay, NEW d \in Int
    PROVE  /\ InWeek(u, WeekAhead(u, d), d)
           /\ \A w : InWeek(u, w, d) => w = WeekAhead(u, d)
           /\ ~shut => d + DaysAhead(u, d) = ExpiryDay(u, WeekAhead(u, d))
<1> DEFINE c == WeeklyDay[u]
           r == d % 7
           q == d \div 7
           v == WeekAhead(u, d)
<1>1. c \in 0 .. 4
    BY WeeklyType
<1>2. r \in 0 .. 6 /\ q \in Int /\ d = 7 * q + r
    BY WeekOf
<1>3. v = (d - c + 6) \div 7
    BY DEF WeekAhead
<1>4. \A w : ExpiryDay(u, w) = 7 * w + c
    BY DEF ExpiryDay
<1>5. ~shut => DaysAhead(u, d) = (c - r) % 7
    BY DEF DaysAhead, Weekday
<1> HIDE DEF c, r, q, v
<1>6. v \in Int /\ 7 * v + c - 6 <= d /\ d <= 7 * v + c /\ (~shut => d + DaysAhead(u, d) = 7 * v + c)
  <2>1. CASE r <= c
    <3>1. c - r \in 0 .. 6 /\ c - r \in Int /\ c - r = 7 * 0 + (c - r)
        BY <1>1, <1>2, <2>1
    <3>2. (c - r) % 7 = c - r
        BY <3>1, WeekIs
    <3>3. d - c + 6 \in Int /\ r - c + 6 \in 0 .. 6 /\ d - c + 6 = 7 * q + (r - c + 6)
        BY <1>1, <1>2, <2>1
    <3>4. v = q
        BY <1>2, <1>3, <3>3, WeekIs
    <3>5. d + (c - r) = 7 * v + c /\ v \in Int /\ 7 * v + c - 6 <= d /\ d <= 7 * v + c
        BY <1>1, <1>2, <2>1, <3>4
    <3> QED BY <1>5, <3>2, <3>5
  <2>2. CASE ~(r <= c)
    <3>1. c - r + 7 \in 0 .. 6 /\ c - r \in Int /\ -1 \in Int /\ c - r = 7 * (-1) + (c - r + 7)
        BY <1>1, <1>2, <2>2
    <3>2. (c - r) % 7 = c - r + 7
        BY <3>1, WeekIs
    <3>3. d - c + 6 \in Int /\ r - c - 1 \in 0 .. 6 /\ q + 1 \in Int /\ d - c + 6 = 7 * (q + 1) + (r - c - 1)
        BY <1>1, <1>2, <2>2
    <3>4. v = q + 1
        BY <1>3, <3>3, WeekIs
    <3>5. d + (c - r + 7) = 7 * v + c /\ v \in Int /\ 7 * v + c - 6 <= d /\ d <= 7 * v + c
        BY <1>1, <1>2, <2>2, <3>4
    <3> QED BY <1>5, <3>2, <3>5
  <2> QED BY <2>1, <2>2
<1>7. InWeek(u, v, d)
    BY <1>1, <1>6 DEF InWeek, ExpiryDay, c
<1>8. ASSUME NEW w, InWeek(u, w, d) PROVE w = v
  <2>1. w \in Int /\ 7 * w + c - 6 <= d /\ d <= 7 * w + c
      BY <1>1, <1>8 DEF InWeek, ExpiryDay, c
  <2> QED BY <1>1, <1>6, <2>1
<1>9. ~shut => d + DaysAhead(u, d) = ExpiryDay(u, v)
    BY <1>4, <1>6
<1> QED BY <1>7, <1>8, <1>9 DEF v

\* Before the close the weekly expiry from a day on is that of the week it looks to.
LEMMA WeeklyExpiryIs ==
    ASSUME CalendarOK, ~shut, NEW u \in DOMAIN WeeklyDay, NEW d \in Int
    PROVE  WeeklyExpiry(u, d) = Expires(u, WeekAhead(u, d))
<1>1. d + DaysAhead(u, d) = ExpiryDay(u, WeekAhead(u, d))
    BY WeekAheadIs
<1>2. ExpiryDay(u, WeekAhead(u, d)) \in Int
  <2>1. WeekAhead(u, d) \in Int /\ WeeklyDay[u] \in Int
      BY WeekAheadIs, WeeklyType DEF InWeek
  <2> QED BY <2>1 DEF ExpiryDay
<1> QED BY <1>1, <1>2, LastTradingIs DEF WeeklyExpiry, Expires

\* The weeks whose expiries the exchange is asked for.
TheWeeks == 1 .. LastDay \div 7 + Weeks + 1

LEMMA ExpiresRise ==
    ASSUME CalendarOK, NEW u \in DOMAIN WeeklyDay, NEW v \in Int, NEW w \in Int, v < w
    PROVE  Expires(u, v) \in Int /\ Expires(u, w) \in Int /\ Expires(u, v) < Expires(u, w)
<1>1. WeeklyDay[u] \in Int
    BY WeeklyType
<1>2. ExpiryDay(u, v) \in Int /\ ExpiryDay(u, w) \in Int /\ ExpiryDay(u, v) + 6 <= ExpiryDay(u, w)
    BY <1>1 DEF ExpiryDay
<1> QED BY <1>2, MovedApart DEF Expires

LEMMA ExpiresNear ==
    ASSUME CalendarOK, NEW u \in DOMAIN WeeklyDay, NEW w \in Int
    PROVE  /\ ExpiryDay(u, w) \in Int /\ Expires(u, w) \in Int
           /\ ExpiryDay(u, w) - 5 <= Expires(u, w) /\ Expires(u, w) <= ExpiryDay(u, w)
           /\ \A k \in Int : k <= ExpiryDay(u, w) /\ IsTradingDay(k) => k <= Expires(u, w)
<1>1. WeeklyDay[u] \in Int
    BY WeeklyType
<1>2. ExpiryDay(u, w) \in Int
    BY <1>1 DEF ExpiryDay
<1>3. IsLast(Expires(u, w), ExpiryDay(u, w))
    BY <1>2, LastTradingIs DEF Expires
<1> QED BY <1>2, <1>3 DEF IsLast

\* A trading day of the days that pass.
Trades(d) == d \in FirstDay .. LastDay /\ IsTradingDay(d)

\* The expiries of the weeks from the one a trading day looks to on are the coming ones.
LEMMA WeeksAhead ==
    ASSUME CalendarOK, NEW u \in DOMAIN WeeklyDay, NEW d, Trades(d)
    PROVE  /\ WeekAhead(u, d) \in Int /\ 1 <= WeekAhead(u, d) /\ WeekAhead(u, d) <= LastDay \div 7 + 1
           /\ Expires(u, WeekAhead(u, d)) >= d
           /\ \A v \in Int : v < WeekAhead(u, d) => Expires(u, v) < d
           /\ LastDay \div 7 \in Int
<1> DEFINE w == WeekAhead(u, d)
           c == WeeklyDay[u]
           L == LastDay \div 7
<1>1. d \in Int /\ 7 <= d /\ d <= LastDay /\ IsTradingDay(d)
    BY CalendarTypes DEF Trades
<1>2. c \in 0 .. 4
    BY WeeklyType
<1>3. L \in Int /\ LastDay <= 7 * L + 6
  <2>1. LastDay % 7 \in 0 .. 6 /\ L \in Int /\ LastDay = 7 * L + (LastDay % 7)
      BY WeekOf, CalendarTypes
  <2> DEFINE r == LastDay % 7
  <2> HIDE DEF r, L
  <2>2. r \in 0 .. 6 /\ L \in Int /\ LastDay = 7 * L + r
      BY <2>1 DEF r
  <2> QED BY <2>2
<1>4. w \in Int /\ 7 * w + c - 6 <= d /\ d <= 7 * w + c
    BY <1>1, <1>2, WeekAheadIs DEF InWeek, ExpiryDay
<1>5. Expires(u, w) >= d
  <2>1. d <= ExpiryDay(u, w)
      BY <1>4 DEF ExpiryDay
  <2> HIDE DEF w
  <2> QED BY <1>1, <1>4, <2>1, ExpiresNear
<1>6. ASSUME NEW v \in Int, v < w PROVE Expires(u, v) < d
  <2> HIDE DEF w
  <2>1. Expires(u, v) \in Int /\ Expires(u, v) <= ExpiryDay(u, v)
      BY ExpiresNear
  <2>2. ExpiryDay(u, v) \in Int /\ ExpiryDay(u, v) < d
    <3>1. ExpiryDay(u, v) = 7 * v + c
        BY DEF ExpiryDay
    <3> HIDE DEF c
    <3>2. 7 * v + c < d
        BY <1>1, <1>2, <1>4, <1>6
    <3> QED BY <1>2, <3>1, <3>2
  <2> QED BY <1>1, <2>1, <2>2
<1> HIDE DEF w, c, L
<1>7. 1 <= w /\ w <= L + 1
    BY <1>1, <1>2, <1>3, <1>4, CalendarTypes
<1> QED BY <1>3, <1>4, <1>5, <1>6, <1>7 DEF w, L

\* What the weekly expiry is for a trading day before the close.
LEMMA NearestWeekly ==
    ASSUME CalendarOK, ~shut, NEW u \in DOMAIN WeeklyDay, NEW d, Trades(d)
    PROVE  /\ WeeklyExpiry(u, d) = Min(From(WeeklyDays(u), d))
           /\ IsExpiryDay(u, d) <=> d \in From(WeeklyDays(u), d)
<1> DEFINE f == [v \in TheWeeks |-> Expires(u, v)]
           w == WeekAhead(u, d)
           S == From(Values(f, TheWeeks), d)
<1>1. d \in Int
    BY CalendarTypes DEF Trades
<1>2. w \in TheWeeks /\ TheWeeks \in SUBSET Int
  <2>1. w \in Int /\ 1 <= w /\ w <= LastDay \div 7 + 1 /\ LastDay \div 7 \in Int
      BY WeeksAhead
  <2> DEFINE L == LastDay \div 7
  <2> HIDE DEF w, L
  <2>2. w \in 1 .. L + Weeks + 1
      BY <2>1, CalendarTypes DEF L
  <2> QED BY <2>2 DEF TheWeeks, L
<1>3. \A v \in TheWeeks : f[v] = Expires(u, v)
    OBVIOUS
<1>4. f \in [TheWeeks -> Int]
    BY <1>2, ExpiresNear
<1>5. f[w] >= d /\ \A v \in TheWeeks : v < w => f[v] < d
    BY <1>2, <1>3, WeeksAhead
<1>6. \A v \in TheWeeks : w < v => f[w] < f[v]
    BY <1>2, <1>3, ExpiresRise
<1>7. Rises(f, TheWeeks, w, d)
  <2> HIDE DEF f, w
  <2> QED BY <1>1, <1>2, <1>4, <1>5, <1>6 DEF Rises
<1>8. WeeklyExpiry(u, d) = f[w]
    BY <1>1, <1>2, <1>3, WeeklyExpiryIs
<1>9. WeeklyDays(u) = Values(f, TheWeeks)
    BY DEF Values, WeeklyDays, TheWeeks, Expires, ExpiryDay
<1> HIDE DEF f, w
<1>10. f[w] \in S /\ Min(S) = f[w] /\ \A x \in S : f[w] <= x
    BY <1>7, FirstOf
<1>11. f[w] \in Int /\ f[w] >= d
    BY <1>2, <1>4, <1>5
<1> HIDE DEF S
<1>12. d \in S <=> d = f[w]
    BY <1>1, <1>10, <1>11
<1> QED BY <1>8, <1>9, <1>10, <1>12 DEF IsExpiryDay, S

\* What the monthly expiry is.
LEMMA MonthsApart ==
    ASSUME NEW u \in DOMAIN WeeklyDay, NEW m \in DOMAIN MonthEnds
    PROVE  /\ MonthEnds[m] \in Int /\ LastWeekday(u, m) \in Int
           /\ MonthEnds[m] - 6 <= LastWeekday(u, m) /\ LastWeekday(u, m) <= MonthEnds[m]
           /\ \A k \in DOMAIN MonthEnds : m < k => MonthEnds[m] + 28 <= MonthEnds[k] /\ MonthEnds[k] \in Int
           /\ \E w \in Int : LastWeekday(u, m) = ExpiryDay(u, w)
<1> DEFINE e == MonthEnds[m]
           r == e % 7
           q == e \div 7
           c == WeeklyDay[u]
           b == (r - c) % 7
<1>1. e \in Int
    BY CalendarTypes
<1>2. r \in 0 .. 6 /\ q \in Int /\ e = 7 * q + r
    BY <1>1, WeekOf
<1>3. c \in 0 .. 4
    BY WeeklyType
<1>4. LastWeekday(u, m) = e - b
    BY DEF LastWeekday, Weekday
<1>5. \A k \in DOMAIN MonthEnds : m < k => e + 28 <= MonthEnds[k] /\ MonthEnds[k] \in Int
  <2> SUFFICES ASSUME NEW k \in DOMAIN MonthEnds, m < k PROVE e + 28 <= MonthEnds[k] /\ MonthEnds[k] \in Int
      OBVIOUS
  <2>1. MonthEnds[k] - e >= 28 /\ MonthEnds[k] \in Int
      BY ExpiryAssumption
  <2> QED BY <1>1, <2>1
<1> HIDE DEF r, q, c
<1>6. r - c \in Int
    BY <1>2, <1>3
<1>7. CASE c <= r
  <2>1. r - c \in 0 .. 6 /\ r - c = 7 * 0 + (r - c)
      BY <1>2, <1>3, <1>7
  <2>2. b = r - c
      BY <1>6, <2>1, WeekIs
  <2> HIDE DEF b, e
  <2>3. e - b \in Int /\ e - 6 <= e - b /\ e - b <= e /\ e - b = 7 * q + c
      BY <1>1, <1>2, <1>3, <1>7, <2>2
  <2>4. LastWeekday(u, m) = ExpiryDay(u, q)
      BY <1>4, <2>3 DEF ExpiryDay, c
  <2> QED BY <1>1, <1>2, <1>4, <1>5, <2>3, <2>4 DEF e
<1>8. CASE ~(c <= r)
  <2>1. r - c + 7 \in 0 .. 6 /\ -1 \in Int /\ r - c = 7 * (-1) + (r - c + 7)
      BY <1>2, <1>3, <1>8
  <2>2. b = r - c + 7
      BY <1>6, <2>1, WeekIs
  <2> HIDE DEF b, e
  <2>3. e - b \in Int /\ e - 6 <= e - b /\ e - b <= e /\ e - b = 7 * (q - 1) + c /\ q - 1 \in Int
      BY <1>1, <1>2, <1>3, <1>8, <2>2
  <2>4. LastWeekday(u, m) = ExpiryDay(u, q - 1)
      BY <1>4, <2>3 DEF ExpiryDay, c
  <2> QED BY <1>1, <1>4, <1>5, <2>3, <2>4 DEF e
<1> QED BY <1>7, <1>8

LEMMA MonthOfIs ==
    ASSUME NEW d \in FirstDay .. LastDay
    PROVE  /\ MonthOf(d) \in DOMAIN MonthEnds /\ MonthOf(d) + 1 \in DOMAIN MonthEnds
           /\ d <= MonthEnds[MonthOf(d)]
           /\ \A k \in DOMAIN MonthEnds : k < MonthOf(d) => MonthEnds[k] < d
<1> DEFINE S == {m \in DOMAIN MonthEnds : d <= MonthEnds[m]}
           n == Len(MonthEnds)
           w == MonthOf(d)
<1>1. n \in Nat /\ n >= 2 /\ DOMAIN MonthEnds = 1 .. n /\ \A m \in 1 .. n : MonthEnds[m] \in Int
    BY CalendarTypes
<1>2. d \in Int /\ d <= LastDay /\ LastDay \in Int
    BY CalendarTypes
<1>3. LastDay <= MonthEnds[n - 1]
    BY ExpiryAssumption
<1> HIDE DEF n
<1>4. n - 1 \in S
    BY <1>1, <1>2, <1>3
<1>5. S \in SUBSET Int /\ \A m \in S : m \in 1 .. n /\ d <= MonthEnds[m]
    BY <1>1
<1>6. IsFiniteSet(S)
  <2>1. 1 \in Int /\ n \in Int
      BY <1>1
  <2>2. IsFiniteSet(1 .. n)
      BY <2>1, FS_Interval
  <2> QED BY <1>1, <2>2, FS_Subset
<1>7. w = Min(S)
    BY DEF MonthOf
<1>8. \A k \in DOMAIN MonthEnds : k \notin S => MonthEnds[k] < d
    BY <1>1, <1>2
<1> HIDE DEF S, w
<1>9. w \in S /\ \A x \in S : w <= x
    BY <1>4, <1>5, <1>6, <1>7, LeastOf
<1>10. w \in 1 .. n /\ w <= n - 1 /\ d <= MonthEnds[w]
    BY <1>4, <1>5, <1>9
<1>11. w + 1 \in 1 .. n
    BY <1>1, <1>10
<1>12. \A k \in DOMAIN MonthEnds : k < w => MonthEnds[k] < d
    BY <1>1, <1>8, <1>9, <1>10
<1> QED BY <1>1, <1>10, <1>11, <1>12 DEF w

LEMMA NearestMonthly ==
    ASSUME CalendarOK, ~shut, NEW u \in DOMAIN WeeklyDay, NEW d, Trades(d)
    PROVE  /\ MonthlyExpiry(u, d) = Min(From(MonthlyDays(u), d))
           /\ d \in From(MonthlyDays(u), d) <=> d = MonthlyExpiry(u, d)
           /\ d \in From(MonthlyDays(u), d) => d = WeeklyExpiry(u, d)
<1> DEFINE M == DOMAIN MonthEnds
           f == [m \in M |-> LastTrading(LastWeekday(u, m))]
           y(m) == LastWeekday(u, m)
           m0 == MonthOf(d)
           w == IF y(m0) < d THEN m0 + 1 ELSE m0
           S == From(Values(f, M), d)
<1>1. d \in FirstDay .. LastDay /\ d \in Int /\ IsTradingDay(d)
    BY CalendarTypes DEF Trades
<1>2. /\ m0 \in M /\ m0 + 1 \in M
      /\ d <= MonthEnds[m0]
      /\ \A k \in M : k < m0 => MonthEnds[k] < d
    BY <1>1, MonthOfIs
<1>3. M \in SUBSET Int
    BY CalendarTypes
<1>4. \A m \in M : /\ y(m) \in Int /\ MonthEnds[m] \in Int
                   /\ MonthEnds[m] - 6 <= y(m) /\ y(m) <= MonthEnds[m]
                   /\ \A k \in M : m < k => MonthEnds[m] + 28 <= MonthEnds[k]
    BY MonthsApart
<1>5. \A m \in M : f[m] = LastTrading(y(m))
    OBVIOUS
<1>6. \A m \in M : /\ f[m] \in Int /\ y(m) - 5 <= f[m] /\ f[m] <= y(m)
                   /\ d <= y(m) => d <= f[m]
  <2> SUFFICES ASSUME NEW m \in M
               PROVE  f[m] \in Int /\ y(m) - 5 <= f[m] /\ f[m] <= y(m) /\ (d <= y(m) => d <= f[m])
      OBVIOUS
  <2>1. y(m) \in Int
      BY <1>4
  <2>2. IsLast(f[m], y(m))
      BY <1>5, <2>1, LastTradingIs
  <2> QED BY <1>1, <2>2 DEF IsLast
<1>7. f \in [M -> Int]
    BY <1>5, <1>6
<1>8. MonthlyExpiry(u, d) = f[w]
  <2>1. MonthlyExpiry(u, d) = AdjustForHoliday(IF y(m0) < d \/ (y(m0) = d /\ shut) THEN y(m0 + 1) ELSE y(m0))
      BY DEF MonthlyExpiry
  <2>2. (IF y(m0) < d \/ (y(m0) = d /\ shut) THEN y(m0 + 1) ELSE y(m0)) = y(w)
      OBVIOUS
  <2>3. w \in M /\ y(w) \in Int
      BY <1>2, <1>4
  <2>4. AdjustForHoliday(y(w)) = LastTrading(y(w))
      BY <2>3, LastTradingIs
  <2> QED BY <1>5, <2>1, <2>2, <2>3, <2>4
<1>9. MonthlyDays(u) = Values(f, M)
    BY DEF MonthlyDays, Values
<1> HIDE DEF f, y
<1>10. ASSUME NEW k \in M, NEW m \in M, k < m
       PROVE  f[k] < f[m] /\ MonthEnds[k] + 28 <= MonthEnds[m] /\ y(k) + 6 <= y(m)
  <2>1. MonthEnds[k] + 28 <= MonthEnds[m] /\ y(k) \in Int /\ y(m) \in Int
        /\ MonthEnds[k] \in Int /\ MonthEnds[m] \in Int
        /\ y(k) <= MonthEnds[k] /\ MonthEnds[m] - 6 <= y(m)
      BY <1>4, <1>10
  <2>2. y(k) + 6 <= y(m)
      BY <2>1
  <2>3. f[k] \in Int /\ f[m] \in Int /\ f[k] <= y(k) /\ y(m) - 5 <= f[m]
      BY <1>6
  <2> QED BY <2>1, <2>2, <2>3
<1>11. w \in M /\ f[w] >= d /\ \A v \in M : v < w => f[v] < d
  <2>1. CASE y(m0) < d
    <3>1. w = m0 + 1 /\ m0 \in Int
        BY <1>2, <1>3, <2>1
    <3>2. MonthEnds[m0] + 28 <= MonthEnds[w] /\ MonthEnds[m0] \in Int /\ MonthEnds[w] \in Int
          /\ y(w) \in Int /\ MonthEnds[w] - 6 <= y(w)
        BY <1>2, <1>4, <1>10, <3>1
    <3>3. d <= y(w)
        BY <1>1, <1>2, <3>2
    <3>4. d <= f[w] /\ f[w] \in Int
        BY <1>2, <1>6, <3>1, <3>3
    <3>5. f[m0] < d
        BY <1>1, <1>2, <1>4, <1>6, <2>1
    <3>6. ASSUME NEW v \in M, v < w PROVE f[v] < d
      <4>1. v \in Int /\ f[v] \in Int /\ f[m0] \in Int
          BY <1>3, <1>6, <1>2
      <4>2. v = m0 \/ v < m0
          BY <3>1, <3>6, <4>1
      <4> HIDE DEF m0, w
      <4>3. v < m0 => f[v] < f[m0]
          BY <1>2, <1>10
      <4> QED BY <1>1, <3>5, <4>1, <4>2, <4>3
    <3> QED BY <1>1, <1>2, <3>1, <3>4, <3>6
  <2>2. CASE ~(y(m0) < d)
    <3>1. w = m0
        BY <2>2
    <3>2. d <= y(m0) /\ y(m0) \in Int
        BY <1>1, <1>2, <1>4, <2>2
    <3>3. d <= f[w] /\ f[w] \in Int
        BY <1>2, <1>6, <3>1, <3>2
    <3>4. ASSUME NEW v \in M, v < w PROVE f[v] < d
      <4>1. MonthEnds[v] < d /\ f[v] \in Int /\ f[v] <= y(v) /\ y(v) \in Int /\ y(v) <= MonthEnds[v] /\ MonthEnds[v] \in Int
          BY <1>2, <1>4, <1>6, <3>1, <3>4
      <4> QED BY <1>1, <4>1
    <3> QED BY <1>1, <1>2, <3>1, <3>3, <3>4
  <2> QED BY <2>1, <2>2
<1> HIDE DEF w, m0
<1>12. Rises(f, M, w, d)
    BY <1>1, <1>3, <1>7, <1>10, <1>11 DEF Rises
<1>13. f[w] \in S /\ Min(S) = f[w] /\ \A x \in S : f[w] <= x
    BY <1>12, FirstOf
<1>14. f[w] \in Int
    BY <1>7, <1>11
<1> HIDE DEF S
<1>15. d \in S <=> d = f[w]
    BY <1>1, <1>11, <1>13, <1>14
<1>16. ASSUME d = f[w] PROVE d = WeeklyExpiry(u, d)
  <2>1. PICK v \in Int : y(w) = ExpiryDay(u, v)
      BY <1>11, MonthsApart DEF y
  <2>2. y(w) \in Int /\ y(w) - 6 <= d /\ d <= y(w)
      BY <1>1, <1>4, <1>6, <1>11, <1>16
  <2>3. InWeek(u, v, d)
      BY <2>1, <2>2 DEF InWeek
  <2>4. v = WeekAhead(u, d)
      BY <1>1, <2>3, WeekAheadIs
  <2>5. WeeklyExpiry(u, d) = Expires(u, v)
      BY <1>1, <2>4, WeeklyExpiryIs
  <2> QED BY <1>5, <1>11, <1>16, <2>1, <2>5 DEF Expires
<1>17. From(MonthlyDays(u), d) = S
    BY <1>9 DEF S
<1> QED BY <1>8, <1>13, <1>15, <1>16, <1>17

\* The coming expiry number i + 1 has i before it.
LEMMA ComingExpiries ==
    ASSUME CalendarOK, NEW u \in DOMAIN WeeklyDay, NEW d, Trades(d), NEW i \in Nat, i < Weeks
    PROVE  /\ Expires(u, WeekAhead(u, d) + i) \in From(WeeklyDays(u), d)
           /\ Cardinality({e \in From(WeeklyDays(u), d) : e < Expires(u, WeekAhead(u, d) + i)}) = i
<1> DEFINE w == WeekAhead(u, d)
           x == w + i
           S == From(WeeklyDays(u), d)
           E == {e \in S : e < Expires(u, x)}
           V == w .. x - 1
           b == [v \in V |-> Expires(u, v)]
<1>1. d \in Int
    BY CalendarTypes DEF Trades
<1>2. w \in Int /\ 1 <= w /\ x \in Int /\ TheWeeks \in SUBSET Int /\ w .. x \in SUBSET TheWeeks
  <2> DEFINE L == LastDay \div 7
  <2>1. w \in Int /\ 1 <= w /\ w <= L + 1 /\ L \in Int
      BY WeeksAhead
  <2> HIDE DEF w, L
  <2>2. x \in Int /\ x <= L + Weeks + 1 /\ w .. x \in SUBSET (1 .. L + Weeks + 1)
      BY <2>1, CalendarTypes
  <2>3. (1 .. L + Weeks + 1) = TheWeeks
      BY DEF TheWeeks, L
  <2>4. TheWeeks \in SUBSET Int
      BY <2>1, CalendarTypes DEF TheWeeks, L
  <2> QED BY <2>1, <2>2, <2>3, <2>4
<1>3. Expires(u, w) >= d /\ \A v \in Int : v < w => Expires(u, v) < d
    BY WeeksAhead
<1>4. \A v \in TheWeeks : Expires(u, v) \in WeeklyDays(u)
    BY DEF WeeklyDays, TheWeeks, Expires, ExpiryDay
<1>5. \A e \in WeeklyDays(u) : \E v \in TheWeeks : e = Expires(u, v)
    BY DEF WeeklyDays, TheWeeks, Expires, ExpiryDay
<1> HIDE DEF w
<1>6. \A v, k \in Int : v < k => /\ Expires(u, v) < Expires(u, k)
                                 /\ Expires(u, v) \in Int /\ Expires(u, k) \in Int
    BY ExpiresRise
<1>7. \A v \in Int : Expires(u, v) \in Int
    BY ExpiresNear
<1>8. ASSUME NEW v \in w .. x PROVE Expires(u, v) \in S
  <2>1. v \in TheWeeks /\ v \in Int /\ w <= v
      BY <1>2
  <2>2. v = w \/ w < v
      BY <1>2, <2>1
  <2>3. Expires(u, v) >= d
      BY <1>1, <1>2, <1>3, <1>6, <1>7, <2>1, <2>2
  <2> QED BY <1>4, <2>1, <2>3 DEF From
<1>9. Expires(u, x) \in S
    BY <1>2, <1>8
<1>10. \A v \in V : v \in Int /\ v \in w .. x /\ v < x
    BY <1>2
<1>11. \A v \in V : b[v] = Expires(u, v)
    OBVIOUS
<1>12. \A v \in V : b[v] \in E
    BY <1>2, <1>6, <1>8, <1>10, <1>11
<1>13. ASSUME NEW e \in E PROVE \E v \in V : e = b[v]
  <2>1. e \in WeeklyDays(u) /\ e >= d /\ e < Expires(u, x)
      BY DEF From
  <2>2. PICK v \in TheWeeks : e = Expires(u, v)
      BY <1>5, <2>1
  <2>3. v \in Int /\ e \in Int
      BY <1>2, <1>7, <2>2
  <2>4. ~(v < w)
      BY <1>1, <1>3, <2>1, <2>2, <2>3
  <2>5. ~(x < v) /\ v # x
      BY <1>2, <1>6, <1>7, <2>1, <2>2, <2>3
  <2>6. v \in V
      BY <1>2, <2>3, <2>4, <2>5
  <2> QED BY <1>11, <2>2, <2>6
<1>14. \A v, k \in V : b[v] = b[k] => v = k
  <2> SUFFICES ASSUME NEW v \in V, NEW k \in V, b[v] = b[k], v # k PROVE FALSE
      OBVIOUS
  <2>1. v \in Int /\ k \in Int /\ Expires(u, v) = Expires(u, k)
      BY <1>10, <1>11
  <2>2. v < k \/ k < v
      BY <2>1
  <2> QED BY <1>6, <2>1, <2>2
<1>15. b \in Bijection(V, E)
  <2>1. b \in [V -> E]
    <3> HIDE DEF E
    <3> QED BY <1>11, <1>12
  <2> HIDE DEF V, E, b
  <2>2. b \in Surjection(V, E)
      BY <1>13, <2>1 DEF Surjection
  <2>3. b \in Injection(V, E)
      BY <1>14, <2>1 DEF Injection, IsInjective
  <2> QED BY <2>2, <2>3 DEF Bijection
<1>16. IsFiniteSet(V) /\ Cardinality(V) = i
  <2>1. w \in Int /\ x - 1 \in Int
      BY <1>2
  <2>2. IsFiniteSet(V) /\ Cardinality(V) = IF w > x - 1 THEN 0 ELSE (x - 1) - w + 1
      BY <2>1, FS_Interval
  <2> QED BY <2>1, <2>2
<1> HIDE DEF V, E, b
<1>17. Cardinality(E) = i
  <2>1. ExistsBijection(V, E)
      BY <1>15 DEF ExistsBijection
  <2> QED BY <1>16, <2>1, FS_Bijection
<1> QED BY <1>9, <1>17 DEF E, w

\* A listing s from trading day d on, which goes on at c.
Lists(u, d, s, c) ==
    /\ s \in Seq(Int) /\ Len(s) <= Weeks
    /\ c = IF s = <<>> THEN d ELSE s[Len(s)] + 1
    /\ \A i \in 1 .. Len(s) : s[i] = Expires(u, WeekAhead(u, d) + (i - 1))

LEMMA ListsOn ==
    ASSUME CalendarOK, ~shut, NEW u \in DOMAIN WeeklyDay, NEW d, Trades(d),
           NEW s, NEW c, Lists(u, d, s, c), Len(s) < Weeks
    PROVE  LET expiry == WeeklyExpiry(u, c)
           IN  Lists(u, d, IF expiry \in ToSet(s) THEN s ELSE Append(s, expiry), expiry + 1)
<1> DEFINE e == WeeklyExpiry(u, c)
           w == WeekAhead(u, d)
           n == Len(s)
           t == IF e \in ToSet(s) THEN s ELSE Append(s, e)
<1>1. d \in Int
    BY CalendarTypes DEF Trades
<1>2. w \in Int
    BY WeeksAhead
<1>3. /\ s \in Seq(Int) /\ n \in Nat /\ n < Weeks
      /\ c = IF s = <<>> THEN d ELSE s[n] + 1
      /\ \A i \in 1 .. n : s[i] = Expires(u, w + (i - 1))
    BY DEF Lists
<1>4. \A v \in Int : Expires(u, v) \in Int
    BY ExpiresNear
<1>5. ToSet(s) = {s[i] : i \in 1 .. n}
    BY <1>3 DEF ToSet
<1>6. CASE s = <<>>
  <2>1. n = 0 /\ c = d
      BY <1>3, <1>6
  <2>2. e = Expires(u, w) /\ e \in Int
      BY <1>1, <1>2, <1>4, <2>1, WeeklyExpiryIs
  <2> HIDE DEF e, w, n
  <2>3. t = Append(s, e)
      BY <1>5, <2>1
  <2>4. t \in Seq(Int) /\ Len(t) = 1 /\ t[1] = e /\ t # <<>>
      BY <1>3, <1>6, <2>2, <2>3
  <2>5. w + (1 - 1) = w
      BY <1>2
  <2> HIDE DEF t
  <2>6. \A i \in 1 .. Len(t) : t[i] = Expires(u, w + (i - 1))
      BY <2>2, <2>4, <2>5
  <2>7. Len(t) <= Weeks /\ e + 1 = IF t = <<>> THEN d ELSE t[Len(t)] + 1
      BY <1>3, <2>1, <2>4, CalendarTypes
  <2>8. Lists(u, d, t, e + 1)
      BY <2>4, <2>6, <2>7 DEF Lists, w
  <2> QED BY <2>8 DEF t, e
<1>7. CASE s # <<>>
  <2> DEFINE v == w + (n - 1)
             x == ExpiryDay(u, v)
  <2>1. n \in 1 .. n /\ c = s[n] + 1 /\ v \in Int /\ s[n] = Expires(u, v)
      BY <1>2, <1>3, <1>7
  <2>2. x \in Int /\ s[n] \in Int /\ x - 5 <= s[n] /\ s[n] <= x
      BY <2>1, ExpiresNear
  <2>3. CASE s[n] = x
    <3>1. ExpiryDay(u, v + 1) - 6 <= c /\ c <= ExpiryDay(u, v + 1) /\ v + 1 \in Int
      <4>1. WeeklyDay[u] \in Int
          BY WeeklyType
      <4> DEFINE a == WeeklyDay[u]
      <4>2. x = 7 * v + a /\ ExpiryDay(u, v + 1) = 7 * (v + 1) + a
          BY DEF ExpiryDay
      <4> HIDE DEF a, v, x
      <4>3. a \in Int
          BY <4>1 DEF a
      <4> QED BY <2>1, <2>2, <2>3, <4>2, <4>3
    <3> HIDE DEF w, n, v, x
    <3>2. c \in Int
        BY <2>1, <2>2
    <3>3. v + 1 = WeekAhead(u, c)
        BY <3>1, <3>2, WeekAheadIs DEF InWeek
    <3>4. e = Expires(u, v + 1) /\ e \in Int
        BY <1>4, <3>1, <3>2, <3>3, WeeklyExpiryIs
    <3> HIDE DEF e
    <3>5. ASSUME NEW i \in 1 .. n PROVE s[i] < e
      <4>1. i \in Int /\ w + (i - 1) \in Int /\ w + (i - 1) < v + 1 /\ s[i] = Expires(u, w + (i - 1))
          BY <1>2, <1>3 DEF v
      <4> DEFINE k == w + (i - 1)
      <4> HIDE DEF k
      <4>2. k \in Int /\ k < v + 1 /\ s[i] = Expires(u, k)
          BY <4>1 DEF k
      <4> QED BY <3>1, <3>4, <4>2, ExpiresRise
    <3>6. e \notin ToSet(s)
      <4>1. \A i \in 1 .. n : s[i] \in Int /\ s[i] # e
          BY <1>3, <3>4, <3>5 DEF n
      <4> QED BY <1>5, <4>1
    <3>7. t = Append(s, e)
        BY <3>6
    <3>8. t \in Seq(Int) /\ Len(t) = n + 1 /\ t # <<>> /\ t[n + 1] = e /\ \A i \in 1 .. n : t[i] = s[i]
        BY <1>3, <3>4, <3>7 DEF n
    <3> HIDE DEF t
    <3>9. \A i \in 1 .. Len(t) : t[i] = Expires(u, w + (i - 1))
      <4> SUFFICES ASSUME NEW i \in 1 .. Len(t) PROVE t[i] = Expires(u, w + (i - 1))
          OBVIOUS
      <4>1. CASE i \in 1 .. n
          BY <1>3, <3>8, <4>1
      <4>2. CASE i = n + 1
        <5>1. w + (i - 1) = v + 1
            BY <1>2, <1>3, <4>2 DEF v
        <5> QED BY <3>4, <3>8, <4>2, <5>1
      <4>3. i \in 1 .. n \/ i = n + 1
          BY <1>3, <3>8
      <4> QED BY <4>1, <4>2, <4>3
    <3>10. Len(t) <= Weeks /\ e + 1 = IF t = <<>> THEN d ELSE t[Len(t)] + 1
        BY <1>3, <3>8, CalendarTypes
    <3>11. Lists(u, d, t, e + 1)
        BY <3>8, <3>9, <3>10 DEF Lists, w
    <3> QED BY <3>11 DEF t, e
  <2>4. CASE s[n] # x
    <3> HIDE DEF w, n, x
    <3>1. c \in Int /\ x - 6 <= c /\ c <= x
        BY <2>1, <2>2, <2>4
    <3> HIDE DEF v
    <3>2. v = WeekAhead(u, c)
        BY <2>1, <3>1, WeekAheadIs DEF InWeek, x
    <3>3. e = s[n]
        BY <2>1, <3>1, <3>2, WeeklyExpiryIs
    <3> HIDE DEF e
    <3>4. e \in ToSet(s)
        BY <1>5, <2>1, <3>3
    <3>5. t = s
        BY <3>4
    <3>6. Lists(u, d, s, e + 1)
        BY <1>3, <1>7, <3>3, CalendarTypes DEF Lists, w, n
    <3> QED BY <3>5, <3>6 DEF t, e
  <2> QED BY <2>3, <2>4
<1> QED BY <1>6, <1>7

\* A listing begun before the close of a trading day.
ListingOK ==
    (asked # NoIndex /\ ~shut /\ IsTradingDay(today)) =>
        asked \in DOMAIN WeeklyDay /\ Lists(asked, today, upcoming, current)

\* The inductive invariant.
ExpiryInv ==
    /\ today \in FirstDay .. LastDay /\ shut \in BOOLEAN
    /\ CalendarOK
    /\ asked = NoIndex => upcoming = <<>>
    /\ ListingOK

LEMMA ExpiryStarts == ExpiryInit => ExpiryInv
<1> SUFFICES ASSUME ExpiryInit PROVE ExpiryInv
    OBVIOUS
<1> USE DEF ExpiryInit
<1>1. today \in FirstDay .. LastDay
    BY CalendarTypes
<1>2. CalendarOK
    BY FS_EmptySet DEF CalendarOK, AllowedHolidays
<1> QED BY <1>1, <1>2 DEF ExpiryInv, ListingOK

LEMMA ExpiryStep == ExpiryInv /\ [ExpiryNext]_expiryVars => ExpiryInv'
<1> SUFFICES ASSUME ExpiryInv, [ExpiryNext]_expiryVars PROVE ExpiryInv'
    OBVIOUS
<1> USE DEF ExpiryInv
<1>1. CASE HalfPastThree
  <2>1. CalendarOK'
      BY <1>1 DEF HalfPastThree, CalendarOK, AllowedHolidays
  <2>2. ListingOK'
      BY <1>1 DEF HalfPastThree, ListingOK
  <2> QED BY <1>1, <2>1, <2>2 DEF HalfPastThree
<1>2. CASE NextMorning
  <2>1. CalendarOK'
      BY <1>2 DEF NextMorning, CalendarOK, AllowedHolidays
  <2>2. ListingOK'
      BY <1>2 DEF NextMorning, ListingOK
  <2>3. today' \in FirstDay .. LastDay
      BY <1>2, CalendarTypes DEF NextMorning
  <2> QED BY <1>2, <2>1, <2>2, <2>3 DEF NextMorning
<1>3. CASE \E d \in HolidayDays \ holidays : AddHoliday(d)
  <2>1. PICK d \in HolidayDays \ holidays : AddHoliday(d)
      BY <1>3
  <2>2. CalendarOK'
    <3>1. d \in Int /\ holidays \in SUBSET Int /\ IsFiniteSet(holidays)
        BY CalendarTypes DEF CalendarOK
    <3>2. IsFiniteSet(holidays \cup {d})
        BY <3>1, FS_AddElement
    <3> QED BY <2>1, <3>1, <3>2 DEF AddHoliday, CalendarOK, AllowedHolidays
  <2>3. ListingOK'
      BY <2>1 DEF AddHoliday, ListingOK
  <2> QED BY <2>1, <2>2, <2>3 DEF AddHoliday
<1>4. CASE \E u \in DOMAIN WeeklyDay : UpcomingExpiries(u)
  <2>1. PICK u \in DOMAIN WeeklyDay : UpcomingExpiries(u)
      BY <1>4
  <2>2. CalendarOK'
      BY <2>1 DEF UpcomingExpiries, CalendarOK, AllowedHolidays
  <2>3. <<>> \in Seq(Int) /\ Len(<<>>) = 0
      BY EmptySeq
  <2>4. ListingOK'
      BY <2>1, <2>3, CalendarTypes DEF UpcomingExpiries, ListingOK, Lists
  <2> QED BY <2>1, <2>2, <2>4 DEF UpcomingExpiries
<1>5. CASE ListNext
  <2>1. CalendarOK'
      BY <1>5 DEF ListNext, CalendarOK, AllowedHolidays
  <2>2. ASSUME ~shut, IsTradingDay(today) PROVE asked \in DOMAIN WeeklyDay /\ Lists(asked, today, upcoming', current')
    <3>1. asked \in DOMAIN WeeklyDay /\ Lists(asked, today, upcoming, current) /\ Trades(today) /\ Len(upcoming) < Weeks
        BY <1>5, <2>2 DEF ListNext, ListingOK, Trades
    <3> QED BY <1>5, <2>2, <3>1, ListsOn DEF ListNext
  <2>3. ListingOK'
    <3>1. shut' = shut /\ today' = today /\ asked' = asked /\ holidays' = holidays
        BY <1>5 DEF ListNext
    <3> QED BY <2>2, <3>1 DEF ListingOK, Lists, Expires, ExpiryDay, WeekAhead, LastTrading, IsTradingDay, Weekday
  <2> QED BY <1>5, <2>1, <2>3 DEF ListNext
<1>6. CASE Listed
  <2>1. CalendarOK'
      BY <1>6 DEF Listed, CalendarOK, AllowedHolidays
  <2>2. ListingOK'
      BY <1>6 DEF Listed, ListingOK
  <2> QED BY <1>6, <2>1, <2>2 DEF Listed
<1>7. CASE UNCHANGED expiryVars
  <2>1. CalendarOK'
      BY <1>7 DEF expiryVars, CalendarOK, AllowedHolidays
  <2>2. ListingOK'
      BY <1>7 DEF expiryVars, ListingOK, Lists, Expires, ExpiryDay, WeekAhead, LastTrading, IsTradingDay, Weekday
  <2> QED BY <1>7, <2>1, <2>2 DEF expiryVars
<1> QED BY <1>1, <1>2, <1>3, <1>4, <1>5, <1>6, <1>7 DEF ExpiryNext

LEMMA ExpirySuffices == ExpiryInv => NearestExpiry
<1> SUFFICES ASSUME ExpiryInv, IsTradingDay(today), ~shut, NEW u \in DOMAIN WeeklyDay
             PROVE  LET ofWeeks == From(WeeklyDays(u), today)
                        ofMonths == From(MonthlyDays(u), today)
                    IN  /\ WeeklyExpiry(u, today) = Min(ofWeeks)
                        /\ MonthlyExpiry(u, today) = Min(ofMonths)
                        /\ IsExpiryDay(u, today) <=> today \in ofWeeks
                        /\ IsMonthlyExpiryDay(u, today) <=> today \in ofMonths
                        /\ asked = u => \A i \in DOMAIN upcoming :
                               upcoming[i] \in ofWeeks /\ Cardinality({e \in ofWeeks : e < upcoming[i]}) = i - 1
    BY DEF NearestExpiry
<1> DEFINE ofWeeks == From(WeeklyDays(u), today)
           ofMonths == From(MonthlyDays(u), today)
<1>1. CalendarOK /\ Trades(today)
    BY DEF ExpiryInv, Trades
<1>2. WeeklyExpiry(u, today) = Min(ofWeeks) /\ (IsExpiryDay(u, today) <=> today \in ofWeeks)
    BY <1>1, NearestWeekly
<1>3. /\ MonthlyExpiry(u, today) = Min(ofMonths)
      /\ today \in ofMonths <=> today = MonthlyExpiry(u, today)
      /\ today \in ofMonths => today = WeeklyExpiry(u, today)
    BY <1>1, NearestMonthly
<1>4. IsMonthlyExpiryDay(u, today) <=> today \in ofMonths
    BY <1>3 DEF IsMonthlyExpiryDay, IsExpiryDay
<1>5. ASSUME asked = u, NEW i \in DOMAIN upcoming
      PROVE  upcoming[i] \in ofWeeks /\ Cardinality({e \in ofWeeks : e < upcoming[i]}) = i - 1
  <2>1. asked # NoIndex
    <3>1. DOMAIN <<>> = {}
        OBVIOUS
    <3> QED BY <1>5, <3>1 DEF ExpiryInv
  <2>2. Lists(u, today, upcoming, current)
      BY <1>5, <2>1 DEF ExpiryInv, ListingOK
  <2>3. i \in 1 .. Len(upcoming) /\ Len(upcoming) \in Nat /\ Len(upcoming) <= Weeks
        /\ upcoming[i] = Expires(u, WeekAhead(u, today) + (i - 1))
      BY <1>5, <2>2 DEF Lists
  <2>4. i - 1 \in Nat /\ i - 1 < Weeks
      BY <2>3, CalendarTypes
  <2> QED BY <1>1, <2>3, <2>4, ComingExpiries
<1> QED BY <1>2, <1>3, <1>4, <1>5

\* The days pass within their bounds, holidays leave a trading day in any six, and
\* a listing holds the expiries of the weeks from its first day on and goes on
\* after the last one.
THEOREM ExpiryInvariant == ExpirySpec => []ExpiryInv
  BY ExpiryStarts, ExpiryStep, PTL DEF ExpirySpec

\* On a trading day before the close the calendar is the exchange's, for any
\* weekdays, months and holidays (expiry_calculator.py:132-192, 240-251, 297-329).
THEOREM AlwaysNearestExpiry == ExpirySpec => []NearestExpiry
  BY ExpiryInvariant, ExpirySuffices, PTL

=============================================================================
