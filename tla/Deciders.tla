------------------------------- MODULE Deciders -------------------------------
(***************************************************************************)
(* The decision agents: scalping, intraday and BTST (agents/*_agent.py).   *)
(* Each reads the analysts' signals one message at a time, drops those     *)
(* older than its limit, and decides when all its analysts are fresh: the  *)
(* scalper by a rule, the two others by asking a language model, during    *)
(* which they read nothing.                                                *)
(*                                                                         *)
(* Time passes in units of 30 seconds; a day has DayLength of them.  A     *)
(* signal is [dir, conf, avoid]: side, confidence in percent, and whether  *)
(* the news agent flags a window to stay out of the market.                *)
(***************************************************************************)
EXTENDS Strikes, FiniteSetsExt

CONSTANTS
    Desks,              \* the agents that run: subset of the domain of Voters
    Voters,             \* the analysts each of them needs
    Ttl,                \* how old their signals may be
    Period,             \* shortest time between two signals of an analyst
    Signals,            \* what analysts say
    Chain,              \* the option list of a snapshot
    ScalpCooldown, DecisionInterval,    \* _cooldown_seconds, _decision_interval
    Window,             \* the units of the day of the BTST window
    DayLength, LastDay, \* bound: the days modelled
    MaxRestarts         \* bound: restarts of the process

VARIABLES
    clock, day,         \* the time
    age,                \* time since the last signal of each analyst, up to Never
    said,               \* that signal
    unread,             \* the desks with signals in their queues
    known,              \* _latest_options of each desk
    seen,               \* a snapshot of the chain has been handled by all desks
    since,              \* time since the last proposal or decision, up to Never
    evaluated,          \* _last_eval_date with _btst_evaluated_today, 0 when not
    asking,             \* desks that wait for the language model
    asks,               \* decisions: of intraday since the last technical signal,
                        \* of BTST on this day
    proposed,           \* desks that have proposed a trade
    restarts

deciderVars == <<clock, day, age, said, unread, known, seen, since, evaluated,
                 asking, asks, proposed, restarts>>

AllVoters == UNION {Voters[d] : d \in Desks}

\* The intraday agent decides only with all analysts, the technical one included.
ASSUME DecidersAssumption ==
    /\ IsFiniteSet(Desks)
    /\ \A d \in Desks : IsFiniteSet(Voters[d]) /\ Ttl[d] \in Nat
    /\ \A a \in AllVoters : Period[a] \in Nat
    /\ ScalpCooldown \in Nat /\ DecisionInterval \in Nat \ {0}
    /\ "intraday" \in Desks => "technical" \in Voters["intraday"]

Never == Max({Ttl[d] : d \in Desks} \cup {ScalpCooldown, DecisionInterval}
             \cup {Period[a] : a \in AllVoters}) + 1
Silence == [dir |-> 0, conf |-> 0, avoid |-> FALSE]
ChainChannel == "niftymind:options_chain"   \* what the bus calls the key "options_chain"

DecidersInit ==
    /\ clock = 0 /\ day = 1
    /\ age = [a \in AllVoters |-> Never]
    /\ said = [a \in AllVoters |-> Silence]
    /\ unread = {} /\ seen = FALSE
    /\ known = [d \in Desks |-> <<>>]
    /\ since = [d \in Desks |-> Never]
    /\ evaluated = 0 /\ asking = {} /\ proposed = {}
    /\ asks = [d \in Desks |-> 0]
    /\ restarts = 0

Fresh(d) == \A a \in Voters[d] : age[a] <= Ttl[d]
InWindow == clock \in Window

\* The scalper's rule: one side, and confident enough on average.
Agreed == \E dir \in {1, -1} : \A a \in Voters["scalping"] : said[a].dir = dir
Sure == MapThenSumSet(LAMBDA a : said[a].conf, Voters["scalping"])
            >= 65 * Cardinality(Voters["scalping"])
Side == (CHOOSE s \in {said[a] : a \in Voters["scalping"]} : TRUE).dir
CanStrike(d, type, dir) == Select(known[d], type, dir, 80, "NIFTY") # NoOption

\* The time of the last decision.
Forgets(d) == since     \* mutant: it is not kept
Decided(d) == [since EXCEPT ![d] = 0]

(***************************************************************************)
(* Actions                                                                 *)
(***************************************************************************)

Speak(a, s) ==
    /\ age[a] >= Period[a]
    /\ age' = [age EXCEPT ![a] = 0]
    /\ said' = [said EXCEPT ![a] = s]
    /\ unread' = unread \cup {d \in Desks : a \in Voters[d]}
    /\ asks' = [d \in Desks |-> IF a = "technical" /\ d = "intraday" THEN 0 ELSE asks[d]]
    /\ UNCHANGED <<clock, day, known, seen, since, evaluated, asking, proposed, restarts>>

\* A chain snapshot is known by its channel, or else taken for a signal
\* without an agent and dropped.
ChainSnapshot ==
    /\ known' = [d \in Desks |-> IF ChainChannel = "options_chain" THEN Chain ELSE known[d]]
    /\ seen' = TRUE
    /\ UNCHANGED <<clock, day, age, said, unread, since, evaluated, asking, asks, proposed, restarts>>

Scalp ==
    /\ "scalping" \in unread
    /\ unread' = unread \ {"scalping"}
    /\ IF /\ Fresh("scalping") /\ since["scalping"] >= ScalpCooldown
          /\ Agreed /\ Sure /\ CanStrike("scalping", "SCALP", Side)
       THEN /\ since' = Decided("scalping")
            /\ proposed' = proposed \cup {"scalping"}
       ELSE UNCHANGED <<since, proposed>>
    /\ UNCHANGED <<clock, day, age, said, known, seen, evaluated, asking, asks, restarts>>

\* The time of the decision is kept before the news veto and the question.
Intraday ==
    /\ "intraday" \in unread \ asking
    /\ unread' = unread \ {"intraday"}
    /\ IF Fresh("intraday") /\ since["intraday"] >= DecisionInterval
       THEN /\ since' = Decided("intraday")
            /\ IF said["news"].avoid THEN UNCHANGED <<asking, asks>>
               ELSE /\ asking' = asking \cup {"intraday"}
                    /\ asks' = [asks EXCEPT !["intraday"] = @ + 1]
       ELSE UNCHANGED <<since, asking, asks>>
    /\ UNCHANGED <<clock, day, age, said, known, seen, evaluated, proposed, restarts>>

\* Once a day, in the window; the flag is set before the question.  The code
\* also drops what it reads before the window; here it may rest on it.
Btst ==
    /\ "btst" \in unread \ asking /\ InWindow
    /\ unread' = unread \ {"btst"}
    /\ IF evaluated # day /\ Fresh("btst")
       THEN /\ evaluated' = day
            /\ asking' = asking \cup {"btst"}
            /\ asks' = [asks EXCEPT !["btst"] = @ + 1]
       ELSE UNCHANGED <<evaluated, asking, asks>>
    /\ UNCHANGED <<clock, day, age, said, known, seen, since, proposed, restarts>>

\* The model answers, or all models fail, which reads as "no trade".
Answer(d, trade) ==
    /\ d \in asking
    /\ asking' = asking \ {d}
    /\ proposed' = IF /\ trade
                      /\ CanStrike(d, IF d = "btst" THEN "BTST" ELSE "INTRADAY", 1)
                   THEN proposed \cup {d} ELSE proposed
    /\ UNCHANGED <<clock, day, age, said, unread, known, seen, since, evaluated, asks, restarts>>

Older(n) == Min({n + 1, Never})
Later ==
    /\ clock < DayLength
    /\ clock' = clock + 1
    /\ age' = [a \in AllVoters |-> Older(age[a])]
    /\ since' = [d \in Desks |-> Older(since[d])]
    /\ UNCHANGED <<day, said, unread, known, seen, evaluated, asking, asks, proposed, restarts>>

\* Overnight everything said becomes old; the queues keep what was not read.
NextDay ==
    /\ clock = DayLength /\ day < LastDay
    /\ clock' = 0 /\ day' = day + 1
    /\ age' = [a \in AllVoters |-> Never]
    /\ since' = [d \in Desks |-> Never]
    /\ asks' = [d \in Desks |-> 0]
    /\ UNCHANGED <<said, unread, known, seen, evaluated, asking, proposed, restarts>>

\* A restart forgets signals, options, times and today's evaluation.
Restart ==
    /\ restarts < MaxRestarts
    /\ restarts' = restarts + 1
    /\ age' = [a \in AllVoters |-> Never]
    /\ unread' = {} /\ asking' = {} /\ evaluated' = 0 /\ seen' = FALSE
    /\ known' = [d \in Desks |-> <<>>]
    /\ since' = [d \in Desks |-> Never]
    /\ UNCHANGED <<clock, day, said, asks, proposed>>

DecidersNext ==
    \/ \E a \in AllVoters, s \in Signals : Speak(a, s)
    \/ ChainSnapshot
    \/ Scalp \/ Intraday \/ Btst
    \/ \E d \in asking, trade \in BOOLEAN : Answer(d, trade)
    \/ Later \/ NextDay \/ Restart

(***************************************************************************)
(* Properties                                                              *)
(***************************************************************************)

\* The language model is asked sparingly, however fast signals come: since the
\* last technical signal at most as often as the interval fits into its
\* lifetime, and for BTST once a day; a restart costs one more question
\* (intraday_agent.py:90-112, btst_agent.py:97-129).
AskedSparingly == \A d \in DOMAIN asks :
    asks[d] <= restarts + (CASE d = "intraday" -> Ttl["intraday"] \div DecisionInterval + 1
                             [] d = "btst" -> 1
                             [] OTHER -> 0)

\* A decision agent that has received the chain knows its options: the plan
\* tells "cache the latest options snapshot" in each of them
\* (docs/superpowers/plans/2026-04-01-trading-system-enhancement.md:2011).
OptionsKnown == seen => \A d \in DOMAIN known : known[d] # <<>>
=============================================================================
