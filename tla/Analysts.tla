------------------------------- MODULE Analysts -------------------------------
(***************************************************************************)
(* The analysts that ask a language model: options chain, sentiment, news  *)
(* and macro (agents/*_agent.py), the loop all agents share                *)
(* (agents/base_agent.py) and the chain of models behind a question        *)
(* (agents/llm_utils.py).                                                  *)
(*                                                                         *)
(* What a model says is its side, and for news a window to avoid; time     *)
(* passes in minutes.  A reader takes one message at a time and reads      *)
(* nothing while it waits for an answer.                                   *)
(***************************************************************************)
EXTENDS Integers, Sequences, FiniteSets, FiniteSetsExt

CONSTANTS
    Readers,            \* the analysts that run
    Feeds,              \* what each of them reads: a set of kinds of message
    Models,             \* _resolve_models: the models in the order they are tried
    MaxAttempts,        \* _MAX_ATTEMPTS per model (2)
    Interval,           \* _analysis_interval of each reader, 0 for none
    QueueSize,          \* messages kept for a reader (256)
    AvoidFor,           \* minutes of the window a model may ask to avoid
    Eod,                \* the minute from which macro looks overnight (15:00)
    LastMinute          \* bound: minutes modelled

VARIABLES
    now,
    mail,       \* the queue of each reader
    facts,      \* the kinds of message each reader has kept
    asked,      \* when each last asked, or -1: _last_analysis_time
    call,       \* the question under way: [model, attempt], or NoCall
    voice,      \* the last signal of each reader, or Mute
    failed,     \* state["error"]: handling the last message raised
    avoidUntil  \* _avoid_trading_until of the news analyst

analystVars == <<now, mail, facts, asked, call, voice, failed, avoidUntil>>

NoCall == [model |-> 0, attempt |-> 0]
Mute == [dir |-> "none", frame |-> "none", at |-> -1]

AnalystsInit ==
    /\ now = 0
    /\ mail = [r \in Readers |-> <<>>]
    /\ facts = [r \in Readers |-> {}]
    /\ asked = [r \in Readers |-> -1]
    /\ call = [r \in Readers |-> NoCall]
    /\ voice = [r \in Readers |-> Mute]
    /\ failed = [r \in Readers |-> FALSE]
    /\ avoidUntil = 0

\* The bus keeps a message for the reader, or drops it when the queue is full.
Arrives(r, kind) ==
    /\ mail' = [mail EXCEPT ![r] = IF Len(@) < QueueSize THEN Append(@, kind) ELSE @]
    /\ UNCHANGED <<now, facts, asked, call, voice, failed, avoidUntil>>

Due(r) == asked[r] = -1 \/ now - asked[r] >= Interval[r]

\* A reader that is not asking takes its next message and keeps it with what it
\* knows; if it has a question, the time is kept before the first model is asked.
Takes(r, keeps, asks) ==
    /\ r \in Readers /\ mail[r] # <<>> /\ call[r] = NoCall
    /\ mail' = [mail EXCEPT ![r] = Tail(@)]
    /\ facts' = IF keeps THEN [facts EXCEPT ![r] = @ \cup {Head(mail[r])}] ELSE facts
    /\ call' = IF asks THEN [call EXCEPT ![r] = [model |-> 1, attempt |-> 1]] ELSE call
    /\ asked' = IF asks THEN [asked EXCEPT ![r] = now] ELSE asked
    /\ failed' = [failed EXCEPT ![r] = FALSE]
    /\ UNCHANGED <<now, voice, avoidUntil>>

\* Every snapshot is a question; news without articles are not even kept, and
\* the calendar only is; sentiment waits for its interval and for something
\* else than the volatility index; macro waits for its interval.
ReadOptions == Takes("options", TRUE, TRUE)
ReadNews ==
    /\ "news" \in Readers /\ mail["news"] # <<>>
    /\ LET kind == Head(mail["news"])
       IN  Takes("news", kind # "no_articles", kind = "news")
ReadSentiment ==
    /\ "sentiment" \in Readers /\ mail["sentiment"] # <<>>
    /\ LET known == facts["sentiment"] \cup {Head(mail["sentiment"])}
       IN  Takes("sentiment", TRUE, Due("sentiment") /\ known \cap {"fii_dii", "breadth"} # {})
ReadMacro == Takes("macro", TRUE, Due("macro"))

Frame(r) == IF r = "macro" /\ asked[r] >= Eod THEN "BTST" ELSE "INTRADAY"
Says(r, dir) == voice' = [voice EXCEPT ![r] = [dir |-> dir, frame |-> Frame(r), at |-> now]]

\* The model gives an object: the signal is made of it.
Parsed(r, dir) ==
    /\ r \in Readers /\ call[r] # NoCall
    /\ Says(r, dir)
    /\ call' = [call EXCEPT ![r] = NoCall]
    /\ UNCHANGED <<now, mail, facts, asked, failed>>

\* The object holds a confidence that is no number, or another value of a wrong
\* type: making the signal raises, the loop keeps the error and nothing is said.
\* The news analyst may have set its window by then.
Unusable(r) ==
    /\ call[r] # NoCall
    /\ call' = [call EXCEPT ![r] = NoCall]
    /\ failed' = [failed EXCEPT ![r] = TRUE]
    /\ avoidUntil' \in IF r = "news" THEN {avoidUntil, now + AvoidFor} ELSE {avoidUntil}
    /\ UNCHANGED <<now, mail, facts, asked, voice>>

OptionsSignal(dir) == Parsed("options", dir) /\ UNCHANGED avoidUntil
SentimentSignal(dir) == Parsed("sentiment", dir) /\ UNCHANGED avoidUntil
MacroSignal(dir) == Parsed("macro", dir) /\ UNCHANGED avoidUntil
NewsSignal(dir, avoid) == /\ Parsed("news", dir)
                          /\ avoidUntil' = IF avoid THEN now + AvoidFor ELSE avoidUntil

\* Mutant: after the last model the first one is asked again.
FromTheStart(r) == /\ call' = [call EXCEPT ![r] = [model |-> (@.model % Len(Models)) + 1, attempt |-> 1]]
                   /\ UNCHANGED voice

\* Give up on a model: the next one is asked, and after the last one the answer
\* is neutral.
GiveUp(r) ==
    IF call[r].model < Len(Models)
    THEN call' = [call EXCEPT ![r] = [model |-> @.model + 1, attempt |-> 1]] /\ UNCHANGED voice
    ELSE call' = [call EXCEPT ![r] = NoCall] /\ Says(r, "NEUTRAL")

Unparseable(r) ==
    /\ call[r] # NoCall
    /\ GiveUp(r)
    /\ UNCHANGED <<now, mail, facts, asked, failed, avoidUntil>>

\* A limit, an error of the server, a refused request or a timeout.
RequestFails(r) ==
    /\ call[r] # NoCall
    /\ IF call[r].attempt < MaxAttempts
       THEN call' = [call EXCEPT ![r].attempt = @ + 1] /\ UNCHANGED voice
       ELSE GiveUp(r)
    /\ UNCHANGED <<now, mail, facts, asked, failed, avoidUntil>>

Minute == /\ now < LastMinute /\ now' = now + 1
          /\ UNCHANGED <<mail, facts, asked, call, voice, failed, avoidUntil>>

\* What a request comes to.
Attempt ==
    \/ \E dir \in {"BULLISH", "NEUTRAL"} :
           \/ OptionsSignal(dir) \/ SentimentSignal(dir) \/ MacroSignal(dir)
           \/ \E avoid \in BOOLEAN : NewsSignal(dir, avoid)
    \/ \E r \in Readers : Unparseable(r) \/ RequestFails(r) \/ Unusable(r)

AnalystsNext ==
    \/ \E r \in Readers : \E kind \in Feeds[r] : Arrives(r, kind)
    \/ ReadOptions \/ ReadNews \/ ReadSentiment \/ ReadMacro
    \/ Attempt
    \/ Minute

(***************************************************************************)
(* Properties                                                              *)
(***************************************************************************)

\* However models fail, every question ends: with a signal given since it was
\* asked, or with an error because the answer could not be used; the reader goes
\* back to its queue (llm_utils.py:77-170, base_agent.py:84-90).  Every request
\* ends: it has a timeout of 45 seconds.
Answered(r) == call[r] = NoCall /\ (voice[r].at >= asked[r] \/ failed[r])
AlwaysAnswers == \A r \in Readers : (call[r] # NoCall) ~> Answered(r)
=============================================================================
