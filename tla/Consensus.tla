------------------------------ MODULE Consensus ------------------------------
(***************************************************************************)
(* The consensus orchestrator (agents/consensus_orchestrator.py): it keeps *)
(* the latest signal of each analyst, weighs them for three kinds of trade *)
(* under the volatility regime, and proposes the best one that reaches the *)
(* threshold and is not cooling down.                                      *)
(*                                                                         *)
(* A signal is [dir, conf, underlying, age]: the side (1, 0, -1), the      *)
(* confidence in percent, and the time units since it was made, which      *)
(* waiting in queues and language models can make more than zero when it   *)
(* arrives.  Weights are in twentieths, the factors of a regime in tenths. *)
(***************************************************************************)
EXTENDS Strikes, FiniteSetsExt, Functions

CONSTANTS
    Analysts,           \* the analysts that report
    Voices,             \* the signals they send: side, confidence, underlying
    Chains,             \* the option lists that snapshots carry
    Regimes,            \* the volatility regimes of the day
    Multiplier,         \* accuracy multipliers of the learning system, in tenths
    Threshold,          \* consensus_threshold, in percent
    SignalTtl,          \* SIGNAL_TTL_SECONDS
    Cooldown,           \* _consensus_cooldown, per kind of trade
    MaxAge              \* bound: the age of a signal on arrival

\* A multiplier lies between 0.5 and 1.5, and is 1.0 until enough is learnt.
ASSUME ConsensusAssumption ==
    /\ Analysts \subseteq {"options", "flow", "profile", "technical", "sentiment", "news", "macro"}
    /\ \A a \in Analysts : Multiplier[a] \in 5 .. 15
    /\ \A v \in Voices : v.dir \in {-1, 0, 1} /\ v.conf \in 0 .. 100
    /\ Regimes \subseteq {"LOW", "NORMAL", "ELEVATED", "HIGH"}
    /\ Threshold \in Nat /\ SignalTtl \in Nat /\ MaxAge \in Nat

VARIABLES
    latest,     \* _latest_signals: a function on the analysts heard
    regime,     \* _get_vix_regime(), from _current_vix
    chain,      \* _latest_options
    spot,       \* underlyings whose spot price is known: _latest_spot
    cooling,    \* time left before a kind of trade may be proposed again
    proposal    \* the proposal of the last message, or NoProposal

consensusVars == <<latest, regime, chain, spot, cooling, proposal>>

NoProposal == [type |-> "none"]
NoVotes == [a \in {} |-> 0]
Underlyings == DOMAIN LotSize

(***************************************************************************)
(* Weights                                                                 *)
(***************************************************************************)

WEIGHT_PROFILES == [
    SCALP    |-> [options |-> 5, flow |-> 7, profile |-> 5, technical |-> 3,
                  sentiment |-> 0, news |-> 0, macro |-> 0],
    INTRADAY |-> [options |-> 4, flow |-> 3, profile |-> 2, technical |-> 4,
                  sentiment |-> 3, news |-> 2, macro |-> 2],
    BTST     |-> [options |-> 2, flow |-> 1, profile |-> 1, technical |-> 3,
                  sentiment |-> 5, news |-> 3, macro |-> 5]]

VIX_REGIME_ADJUSTMENTS == [
    LOW      |-> [options |-> 10, flow |-> 13, profile |-> 12, technical |-> 13,
                  sentiment |-> 8, news |-> 8, macro |-> 8],
    NORMAL   |-> [options |-> 10, flow |-> 10, profile |-> 10, technical |-> 10,
                  sentiment |-> 10, news |-> 10, macro |-> 10],
    ELEVATED |-> [options |-> 13, flow |-> 8, profile |-> 8, technical |-> 10,
                  sentiment |-> 13, news |-> 12, macro |-> 12],
    HIGH     |-> [options |-> 10, flow |-> 15, profile |-> 10, technical |-> 5,
                  sentiment |-> 5, news |-> 5, macro |-> 5]]

MinAgents == [SCALP |-> 2, INTRADAY |-> 4, BTST |-> 3]

Weight(type, r, a) == WEIGHT_PROFILES[type][a] * VIX_REGIME_ADJUSTMENTS[r][a] * Multiplier[a]
Active(type, r, votes) == {a \in DOMAIN votes : Weight(type, r, a) > 0}

\* Mutant: neutral reports do not count.
TallyOfSides(type, r, votes) ==
    LET active == {a \in Active(type, r, votes) : votes[a].dir # 0}
    IN  [num |-> SumFunction([a \in active |-> votes[a].dir * votes[a].conf * Weight(type, r, a)]),
         den |-> Max({1, SumFunction([a \in active |-> Weight(type, r, a)])})]

\* The weighted score as a fraction: num / (100 * den) lies between -1 and 1.
Tally(type, r, votes) ==
    LET active == Active(type, r, votes)
    IN  [num |-> SumFunction([a \in active |-> votes[a].dir * votes[a].conf * Weight(type, r, a)]),
         den |-> SumFunction([a \in active |-> Weight(type, r, a)])]

Evaluated(type, r, votes) == LET n == Cardinality(Active(type, r, votes))
                             IN  n > 0 /\ n >= MinAgents[type]
Reaches(type, r, votes) ==
    /\ Evaluated(type, r, votes)
    /\ Abs(Tally(type, r, votes).num) >= Threshold * Tally(type, r, votes).den

\* The kind of trade with the highest score; the first of SCALP, INTRADAY, BTST
\* among equals.
Rank == [SCALP |-> 1, INTRADAY |-> 2, BTST |-> 3]
Higher(a, b) == Abs(a.num) * b.den > Abs(b.num) * a.den
BestOf(tally) == CHOOSE t \in DOMAIN tally : \A u \in DOMAIN tally :
    Higher(tally[t], tally[u]) \/ (~Higher(tally[u], tally[t]) /\ Rank[t] <= Rank[u])
Passing(r, votes) == {t \in TradeTypes : Reaches(t, r, votes)}
Tallies(r, votes) == [t \in Passing(r, votes) |-> Tally(t, r, votes)]

\* The underlying with more confidence behind it, whatever the side; when the
\* two are close, the only one with an option chain.
DetermineUnderlying(votes, ch) ==
    LET Conf(u) == SumFunction([a \in {b \in DOMAIN votes : votes[b].underlying = u} |->
                                    votes[a].conf])
        n == Conf("NIFTY")
        b == Conf("BANKNIFTY")
        close == b > 0 /\ 5 * Abs(n - b) < Max({n, b})
        known == DOMAIN ch
    IN  IF close /\ Cardinality(known) = 1 THEN CHOOSE u \in known : TRUE
        ELSE IF b > n THEN "BANKNIFTY" ELSE "NIFTY"

(***************************************************************************)
(* The state machine                                                       *)
(***************************************************************************)

ConsensusInit ==
    /\ latest = NoVotes
    /\ regime = "NORMAL"
    /\ chain = NoVotes /\ spot = {}
    /\ cooling = [t \in TradeTypes |-> 0]
    /\ proposal = NoProposal

\* The proposal for the votes: the strike, or the fallback without a premium
\* when no option of the chain is eligible.
Proposed(type, votes, score, u) ==
    LET dir == IF score.num > 0 THEN 1 ELSE -1
        conf == Abs(score.num) \div score.den
    IN  [type |-> type, dir |-> dir, underlying |-> u, conf |-> conf, regime |-> regime,
         backers |-> {a \in Active(type, regime, votes) : votes[a].dir = dir},
         strike |-> IF u \in DOMAIN chain /\ u \in spot
                    THEN Select(chain[u], type, dir, conf, u) ELSE NoOption]

\* The best kind of trade is proposed unless it is cooling down.
Fire(votes, tally, type) ==
    IF cooling[type] > 0 THEN proposal' = NoProposal /\ UNCHANGED cooling
    ELSE /\ proposal' = Proposed(type, votes, tally[type], DetermineUnderlying(votes, chain))
         /\ cooling' = [cooling EXCEPT ![type] = Cooldown[type]]

Concluded(votes, tally) ==
    /\ latest' = votes
    /\ IF DOMAIN tally = {} THEN proposal' = NoProposal /\ UNCHANGED cooling
       ELSE Fire(votes, tally, BestOf(tally))

\* A signal replaces the last one of its analyst, old signals are dropped, and
\* the votes that are left are weighed.
Replaced(a, s) == [b \in DOMAIN latest \cup {a} |-> IF b = a THEN s ELSE latest[b]]
Unexpired(all) == [b \in {c \in DOMAIN all : all[c].age <= SignalTtl} |-> all[b]]
Heard(a, s) ==
    /\ LET votes == Unexpired(Replaced(a, s)) IN Concluded(votes, Tallies(regime, votes))
    /\ UNCHANGED <<regime, chain, spot>>

Breadth(r) ==
    /\ regime' = r /\ proposal' = NoProposal
    /\ UNCHANGED <<latest, chain, spot, cooling>>

\* A snapshot of the chain; a spot price of 0 does not replace the last one.
Snapshot(u, options, hasSpot) ==
    /\ chain' = [v \in DOMAIN chain \cup {u} |-> IF v = u THEN options ELSE chain[v]]
    /\ spot' = IF hasSpot THEN spot \cup {u} ELSE spot
    /\ proposal' = NoProposal
    /\ UNCHANGED <<latest, regime, cooling>>

\* Time passes; nothing is dropped until the next signal.
Pass ==
    /\ latest' = [a \in DOMAIN latest |-> [latest[a] EXCEPT !.age = Min({@ + 1, SignalTtl + 1})]]
    /\ cooling' = [t \in TradeTypes |-> Max({cooling[t] - 1, 0})]
    /\ proposal' = NoProposal
    /\ UNCHANGED <<regime, chain, spot>>

ConsensusNext ==
    \/ \E a \in Analysts, v \in Voices, age \in 0 .. MaxAge :
           Heard(a, [dir |-> v.dir, conf |-> v.conf, underlying |-> v.underlying, age |-> age])
    \/ \E r \in Regimes : Breadth(r)
    \/ \E u \in Underlyings, o \in Chains, hasSpot \in BOOLEAN : Snapshot(u, o, hasSpot)
    \/ Pass

(***************************************************************************)
(* Properties                                                              *)
(***************************************************************************)

\* An intraday trade is a consensus: no single analyst, however sure, carries
\* one, in any volatility regime.  Neutral reports count as active agents, so
\* this rests on the weights and not on the minimum of four agents
\* (consensus_orchestrator.py:366-413).  It needs the default threshold of 65 %
\* or a higher one, and a learning system that trusts no analyst more than 1.4
\* times as much as another: beyond that the order flow alone carries a trade.
Demanding == /\ Threshold >= 65
             /\ \A a, b \in Analysts : 5 * Multiplier[a] <= 7 * Multiplier[b]
IntradayNeedsTwo ==
    (Demanding /\ proposal.type = "INTRADAY") => Cardinality(proposal.backers) >= 2

=============================================================================
