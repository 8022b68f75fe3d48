------------------------------- MODULE MCAgents -------------------------------
(***************************************************************************)
(* The analysis and decision agents for TLC.  They share no state: each    *)
(* behaviour runs one of them, its part, on inputs of its own, and the     *)
(* others stay as they started.  The variables of the decision agents, of   *)
(* order flow, the volume profile, the technical specialist and the        *)
(* consensus are those of the modules it extends; Deciders' constants      *)
(* describe the two planners.                                              *)
(***************************************************************************)
EXTENDS Deciders, OrderFlow, VolumeProfile, Technical, Consensus

VARIABLES
    part,                                                   \* the agent that runs
    wall, mail, facts, asked, call, voice, failed, avoidUntil   \* Analysts

analysts == <<wall, mail, facts, asked, call, voice, failed, avoidUntil>>
vars == <<part, flowVars, profileVars, techVars, consensusVars, deciderVars, analysts>>

-----------------------------------------------------------------------------
\* Ticks at the bid and at the ask, with and without large sizes, and books of
\* either side.
TickOf(p, v, atAsk, bq, aq) ==
    [p |-> p, v |-> v, bid |-> IF atAsk THEN p - 1 ELSE p, ask |-> IF atAsk THEN p ELSE p + 1,
     bq |-> bq, aq |-> aq, quoted |-> TRUE]
MarketTicks == {TickOf(49, 20, FALSE, 1, 3), TickOf(50, 10, TRUE, 3, 1), TickOf(51, 10, TRUE, 1, 1),
                TickOf(50, 10, FALSE, 1, 1), TickOf(52, 30, TRUE, 1, 1)}
MarketBooks == {[p |-> 50, v |-> 25, bid |-> 60, ask |-> 40, near |-> 3],
                [p |-> 51, v |-> 25, bid |-> 30, ask |-> 60, near |-> 50]}

\* Ticks at the bid, at the ask, between them and without quotes, over two closes.
TickAt(p, v, bid, ask) == [p |-> p, v |-> v, bid |-> bid, ask |-> ask]
AroundTheClose == {TickAt(95, 2, 94, 95), TickAt(100, 1, 100, 101), TickAt(104, 3, 104, 105),
                   TickAt(110, 1, 0, 0), TickAt(90, 1, 89, 90)}

\* Bars of one, five and fifteen minutes.
Timeframes == [m1 |-> 1, m5 |-> 5, m15 |-> 15]
Slowest == <<"m1", "m5", "m15">>

\* Rising and falling markets with waves of two lengths; the future trades above
\* the index.
Wave(m, n) == LET r == m % (2 * n) IN IF r < n THEN r ELSE 2 * n - r
Course(slope, w) ==
    [s \in {"index", "future"} |-> [m \in 1 .. 150 |->
        1000 + (slope * m) \div 4 + 3 * Wave(m, w) - 2 * Wave(m, 37) + (IF s = "future" THEN 2 ELSE 0)]]

MarketCourses == {Course(slope, w) : slope \in {-3, 3}, w \in {9, 22}}

\* Four analysts; sure of a rise, or neutral on the other underlying.
Option(type, delta) == [type |-> type, delta |-> delta, oi |-> 300, bid |-> 1000, ask |-> 1010,
                        ltp |-> 100, monthly |-> FALSE, days |-> 0]
OptionList == <<Option("CE", 45), Option("PE", -45)>>

FourAnalysts == {"options", "flow", "technical", "sentiment"}
FourVoices == {[dir |-> 1, conf |-> 100, underlying |-> "NIFTY"],
               [dir |-> 0, conf |-> 50, underlying |-> "BANKNIFTY"]}
OneChain == {OptionList}
Trust == [a \in FourAnalysts |-> IF a = "flow" THEN 13 ELSE 10]
Pauses == [SCALP |-> 1, INTRADAY |-> 1, BTST |-> 1]

\* The scalper, with signals that agree or not.
Scalper == INSTANCE Deciders WITH
    Capital <- 100000, LotSize <- [NIFTY |-> 65],
    Desks <- {"scalping"}, Voters <- [scalping |-> {"flow", "profile"}],
    Ttl <- [scalping |-> 2], Period <- [flow |-> 1, profile |-> 1],
    Signals <- {[dir |-> d, conf |-> 80, avoid |-> FALSE] : d \in {1, -1}},
    Chain <- OptionList, ScalpCooldown <- 2, DecisionInterval <- 1, Window <- {},
    DayLength <- 4, LastDay <- 1, MaxRestarts <- 1

\* The two agents that ask a language model, with signals that may ask to avoid
\* the market.
IndexLots == [NIFTY |-> 65]
PlannersNeed == [intraday |-> {"technical", "news"}, btst |-> {"technical", "news"}]
SignalLife == [intraday |-> 4, btst |-> 5]
SignalPeriod == [technical |-> 2, news |-> 2]
Advice == {[dir |-> 1, conf |-> 80, avoid |-> a] : a \in BOOLEAN}

\* One analyst at a time, with two models behind it.
Readers == {"options", "sentiment", "news", "macro"}

Analyst(reader) == INSTANCE Analysts WITH
    Readers <- {reader}, now <- wall,
    Feeds <- [options |-> {"chain"}, sentiment |-> {"fii_dii", "vix", "breadth"},
              news |-> {"news", "calendar", "no_articles"}, macro |-> {"macro"}],
    Models <- <<"primary", "fallback">>, MaxAttempts <- 2,
    Interval <- [options |-> 0, sentiment |-> 2, news |-> 0, macro |-> 2],
    QueueSize <- 2, AvoidFor <- 1, Eod <- 2, LastMinute <- 3

-----------------------------------------------------------------------------
Parts == {"flow", "profile", "technical", "consensus", "scalping", "planners"} \cup Readers

Init ==
    /\ part \in Parts
    /\ FlowInit
    /\ ProfileInit
    /\ TechInit
    /\ part # "technical" => course = CHOOSE c \in Courses : TRUE
    /\ ConsensusInit
    /\ IF part = "scalping" THEN Scalper!DecidersInit ELSE DecidersInit
    /\ \E reader \in Readers : /\ part \in Readers => reader = part
                               /\ part \notin Readers => reader = "options"
                               /\ Analyst(reader)!AnalystsInit

FlowRuns == /\ part = "flow" /\ FlowNext
            /\ UNCHANGED <<part, profileVars, techVars, consensusVars, deciderVars, analysts>>
ProfileRuns == /\ part = "profile" /\ ProfileNext
               /\ UNCHANGED <<part, flowVars, techVars, consensusVars, deciderVars, analysts>>
TechnicalRuns == /\ part = "technical" /\ TechNext
                 /\ UNCHANGED <<part, flowVars, profileVars, consensusVars, deciderVars, analysts>>
ConsensusRuns == /\ part = "consensus" /\ ConsensusNext
                 /\ UNCHANGED <<part, flowVars, profileVars, techVars, deciderVars, analysts>>
ScalperRuns == /\ part = "scalping" /\ Scalper!DecidersNext
               /\ UNCHANGED <<part, flowVars, profileVars, techVars, consensusVars, analysts>>
PlannersRun == /\ part = "planners" /\ DecidersNext
               /\ UNCHANGED <<part, flowVars, profileVars, techVars, consensusVars, analysts>>
AnalystRuns(reader) == /\ part = reader /\ Analyst(reader)!AnalystsNext
                       /\ UNCHANGED <<part, flowVars, profileVars, techVars, consensusVars, deciderVars>>

Next == FlowRuns \/ ProfileRuns \/ TechnicalRuns \/ ConsensusRuns
        \/ ScalperRuns \/ PlannersRun \/ \E reader \in Readers : AnalystRuns(reader)

\* Requests to a model end: each has a timeout.
Attempts(reader) == part = reader /\ Analyst(reader)!Attempt
                    /\ UNCHANGED <<part, flowVars, profileVars, techVars, consensusVars, deciderVars>>
Spec == Init /\ [][Next]_vars /\ \A reader \in Readers : WF_vars(Attempts(reader))

-----------------------------------------------------------------------------
\* Every question to the models ends, however they fail, with a signal or with the
\* error of an answer that cannot be used (llm_utils.py:77-170, base_agent.py:84-90).
AlwaysAnswers == \A reader \in Readers :
    (part = reader /\ call[reader] # Analyst(reader)!NoCall)
        ~> (part = reader /\ Analyst(reader)!Answered(reader))

=============================================================================
