----------------------------- MODULE RateLimiter -----------------------------
(***************************************************************************)
(* The request limits of the API (api/rate_limiter.py): one window per key *)
(* and tier, and a cleanup of old windows made by a request from time to   *)
(* time.  The checks take a lock, so a request is one step.                *)
(***************************************************************************)
EXTENDS Integers, Sequences, FiniteSets, FiniteSetsExt

CONSTANTS
    Keys,               \* _get_client_key: users and addresses
    Limits,             \* RATE_LIMITS: of each tier its [requests, window]
    CleanupEvery,       \* _cleanup_interval (300 s)
    LastSecond          \* bound

\* Every tier allows something (rate_limiter.py:33-38).
ASSUME LimiterAssumption ==
    /\ IsFiniteSet(DOMAIN Limits)
    /\ \A tier \in DOMAIN Limits : Limits[tier] \in [requests : Nat \ {0}, window : Nat]
    /\ CleanupEvery \in Nat /\ LastSecond \in Nat

VARIABLES
    second,     \* time.time()
    windows,    \* _windows: [count, start] of each key and tier, or NoWindow
    cleaned,    \* _last_cleanup
    admitted    \* history: when requests of each key and tier were allowed

limiterVars == <<second, windows, cleaned, admitted>>

NoWindow == [count |-> 0, start |-> 0]
Slots == Keys \X DOMAIN Limits
LimitOf(slot) == Limits[slot[2]]
LongestWindow == Max({Limits[tier].window : tier \in DOMAIN Limits})

Expired(slot, w) == w = NoWindow \/ second - w.start > LimitOf(slot).window

\* _cleanup_expired: only windows older than twice the longest one.
SweptEarly(ws) == [slot \in Slots |-> IF second > ws[slot].start THEN NoWindow ELSE ws[slot]]  \* mutant
Swept(ws) == [slot \in Slots |->
                IF ws[slot] # NoWindow /\ second - ws[slot].start > 2 * LongestWindow
                THEN NoWindow ELSE ws[slot]]
CleanupDue == second - cleaned > CleanupEvery

LimiterInit ==
    /\ second = 0 /\ cleaned = 0
    /\ windows = [slot \in Slots |-> NoWindow]
    /\ admitted = [slot \in Slots |-> <<>>]

\* is_allowed
IsAllowed(slot, w) == Expired(slot, w) \/ w.count < LimitOf(slot).requests
Counted(slot, w) == IF Expired(slot, w) THEN [count |-> 1, start |-> second]
                    ELSE [w EXCEPT !.count = @ + 1]

Request(slot) ==
    LET ws == IF CleanupDue THEN Swept(windows) ELSE windows
        allowed == IsAllowed(slot, ws[slot])
    IN  /\ cleaned' = IF CleanupDue THEN second ELSE cleaned
        /\ windows' = IF allowed THEN [ws EXCEPT ![slot] = Counted(slot, @)] ELSE ws
        /\ admitted' = IF allowed THEN [admitted EXCEPT ![slot] = Append(@, second)] ELSE admitted
        /\ UNCHANGED second

\* clear_key: the windows of a key are forgotten, on purpose.
ClearKey(key) ==
    /\ windows' = [slot \in Slots |-> IF slot[1] = key THEN NoWindow ELSE windows[slot]]
    /\ admitted' = [slot \in Slots |-> IF slot[1] = key THEN <<>> ELSE admitted[slot]]
    /\ UNCHANGED <<second, cleaned>>

Second == /\ second < LastSecond /\ second' = second + 1
          /\ UNCHANGED <<windows, cleaned, admitted>>

LimiterNext == \/ \E slot \in Slots : Request(slot)
               \/ \E key \in Keys : ClearKey(key)
               \/ Second

(***************************************************************************)
(* Properties                                                              *)
(***************************************************************************)

\* The window does not slide: as many requests as the limit can come at the end
\* of one window and again at the start of the next.  But never more than twice
\* the limit within the length of a window, whenever windows start and are
\* cleaned up (rate_limiter.py:81-140).
TwiceTheLimit ==
    \A slot \in Slots : \A t \in 0 .. second :
        Cardinality({i \in DOMAIN admitted[slot] :
                        t <= admitted[slot][i] /\ admitted[slot][i] <= t + LimitOf(slot).window})
            <= 2 * LimitOf(slot).requests
=============================================================================
