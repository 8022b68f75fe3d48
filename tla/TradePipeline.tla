--------------------------- MODULE TradePipeline ---------------------------
(***************************************************************************)
(* The paper-trading pipeline of the NiftyMind backend over one trading    *)
(* session: the consensus orchestrator proposes trades, the risk manager   *)
(* approves or vetoes them, the paper executor fills and exits them, the   *)
(* position tracker watches them, and all four talk only through the       *)
(* publish/subscribe bus (Redis behind one dispatcher and one bounded      *)
(* queue per subscriber).                                                  *)
(*                                                                         *)
(* Every coroutine runs on one event loop and awaits only inside the bus,  *)
(* so the handling of one message is one action.  A publication appends    *)
(* to the queues of the subscribers whose handlers react to the event; a   *)
(* copy delivered to anybody else would be consumed without effect and is  *)
(* left out.                                                               *)
(***************************************************************************)
EXTENDS Integers, Sequences, FiniteSets, FiniteSetsExt, Functions

CONSTANTS
  Trades,          \* trade ids; each proposal draws a fresh UUID
  Info,            \* per trade: underlying, direction, type, option (or index fallback)
  Qty,             \* units approved for a trade
  MaxOpen,         \* RiskConfig.max_open_positions
  DailyLossLimit,  \* RiskConfig.max_daily_loss
  PnL,             \* the net P&L one (partial) exit may realise
  MaxManual,       \* bound on the exits asked for through the API
  MaxCrashes,      \* bound on process restarts
  MaxDbFails,      \* bound on the writes of a trade's row that fail
  BusDrops,        \* may the bus lose messages? (full queue or Redis error)
  CustomReasons    \* may the API name an exit reason nobody lists?

Subscribers == {"risk", "exec", "track"}

Watchers == {"risk", "track"}

ExitEvents == {"PARTIAL_EXIT", "EXIT", "CUSTOM_EXIT"}

\* The exits announced under a name the code itself uses.
ListedExits == {"PARTIAL_EXIT", "EXIT"}

\* Mutant: the prefix test is forgotten.
NamedOnly(s) == {"EXIT"}

\* The exit events the risk manager and the tracker look for: the same list
\* written twice, and every name that starts with PARTIAL_EXIT.
Listed(s) == {"PARTIAL_EXIT", "EXIT"}

OrderEvents == {"EXIT_ORDER", "CUSTOM_EXIT_ORDER"}

Events == {"PROPOSAL", "RISK_APPROVED", "ENTRY"} \cup ExitEvents \cup OrderEvents

Message == [event: Events, trade: Trades, pnl: Int]

Statuses == {"NONE", "PENDING", "APPROVED", "CANCELLED", "OPEN", "CLOSED"}

TradeInfo == [underlying: {"NIFTY", "BANKNIFTY"}, direction: {"LONG", "SHORT"},
              type: {"SCALP", "INTRADAY", "BTST"}, option: BOOLEAN]

ASSUME ConstantsAssumption ==
  /\ Info \in [Trades -> TradeInfo]
  /\ Qty \in Nat /\ Qty >= 4
  /\ MaxOpen \in Nat
  /\ DailyLossLimit \in Nat
  /\ PnL \subseteq Int
  /\ MaxManual \in Nat
  /\ MaxCrashes \in Nat
  /\ MaxDbFails \in Nat
  /\ BusDrops \in BOOLEAN
  /\ CustomReasons \in BOOLEAN

\* A session proposes finitely many trades.
ASSUME TradesAssumption == IsFiniteSet(Trades)

VARIABLES
  eod,         \* is it 15:15 or later?
  queue,       \* the asyncio queue of each subscriber handle
  riskOpen,    \* RiskManager._open_positions
  riskPnl,     \* RiskManager._daily_pnl
  pos,         \* PaperExecutor._positions: quantity held, 0 when absent
  trailed,     \* keys of PaperExecutor._trade_positions
  hits,        \* targets already hit by the trailing stop (T1, then T2)
  gapped,      \* the trade whose T2 the current tick has still to sell, if any
  partialPnl,  \* PaperExecutor._partial_pnl
  execPnl,     \* PaperExecutor._daily_pnl
  tracked,     \* keys of PositionTracker._positions
  pending,     \* tracked positions flagged exit_pending
  db,          \* trades.status
  dbPnl,       \* trades.pnl
  wal,         \* _WAL_FILE: the writes that failed, <<trade, status, pnl>>
  booked,      \* history: units sold so far, by trade
  life,        \* history: the status of a trade in the process, whatever its row says
  lost,        \* history: trades with a write in neither the table nor the log,
               \* or with an OPEN row that a failed recovery left unread
  missed,      \* history: <<subscriber, trade>> whose exit message never counted
  manual,      \* exits asked for through the API so far
  crashes,     \* restarts so far
  dbFails      \* failed writes so far

riskVars == <<riskOpen, riskPnl>>
execVars == <<pos, trailed, hits, gapped, partialPnl, execPnl, booked>>
trackVars == <<tracked, pending>>
dbVars == <<db, dbPnl, wal, lost, dbFails, life>>
busVars == <<queue, missed>>
bounds == <<manual, crashes>>
vars == <<eod, busVars, riskVars, execVars, trackVars, dbVars, bounds>>

-----------------------------------------------------------------------------
(* The bus. *)

Msg(e, t, p) == [event |-> e, trade |-> t, pnl |-> p]

\* Mutant: the executor does not hear of the orders to exit.
DeafExecutor(e) ==
  CASE e = "PROPOSAL" -> {"risk"}
    [] e = "RISK_APPROVED" -> {"exec"}
    [] e \in OrderEvents -> {}
    [] OTHER -> Watchers
\* The subscribers whose handler reacts to an event.
Receivers(e) ==
  CASE e = "PROPOSAL" -> {"risk"}
    [] e \in OrderEvents \cup {"RISK_APPROVED"} -> {"exec"}
    [] OTHER -> Watchers

\* Publishing m when the queues hold q: every receiver gets a copy, unless its
\* queue is full (ticks share it) or Redis fails, when the copy is lost silently.
Publish(q, m) ==
  \E S \in IF BusDrops THEN SUBSET Receivers(m.event) ELSE {Receivers(m.event)} :
    /\ queue' = [s \in Subscribers |-> IF s \in S THEN Append(q[s], m) ELSE q[s]]
    /\ missed' = missed \cup
         {<<s, m.trade>> : s \in IF m.event \in ListedExits \cup OrderEvents
                                 THEN Receivers(m.event) \ S
                                 ELSE IF m.event = "CUSTOM_EXIT" THEN Watchers ELSE {}}

\* The queues once s has taken its first message.
Taken(s) == [queue EXCEPT ![s] = Tail(@)]

NextIs(s, e) == queue[s] # <<>> /\ Head(queue[s]).event = e

-----------------------------------------------------------------------------
(* The rows of the trades. *)

\* The row of t is written (a closing one with its P&L); or every attempt fails
\* and the write goes to the log; or the log cannot be written either.
WriteRow(t, status, pnl) ==
  /\ life' = [life EXCEPT ![t] = status]
  /\ \/ /\ db' = [db EXCEPT ![t] = status]
        /\ dbPnl' = IF status = "CLOSED" THEN [dbPnl EXCEPT ![t] = pnl] ELSE dbPnl
        /\ UNCHANGED <<wal, lost, dbFails>>
     \/ /\ dbFails < MaxDbFails
        /\ dbFails' = dbFails + 1
        /\ \/ wal' = wal \cup {<<t, status, pnl>>} /\ UNCHANGED lost
           \/ lost' = lost \cup {t} /\ UNCHANGED wal
        /\ UNCHANGED <<db, dbPnl>>

\* What a replay may make of the row of t: each write in the log succeeds or
\* fails again, in the order of the log, where a closing write is always the
\* last of its trade; an insert leaves a row alone, and a write without a P&L
\* leaves the P&L alone.
Replayed(t) ==
  {<<db[t], dbPnl[t]>>} \cup
  {<<w[2], IF w[2] = "CLOSED" THEN w[3] ELSE dbPnl[t]>> :
     w \in {x \in wal : x[1] = t /\ (x[2] = "PENDING" => db[t] = "NONE")}}

\* replay_wal: afterwards the log is empty, whatever failed again.
ReplayWal ==
  /\ \E rows \in [Trades -> UNION {Replayed(t) : t \in Trades}] :
       /\ \A t \in Trades : rows[t] \in Replayed(t)
       /\ db' = [t \in Trades |-> rows[t][1]]
       /\ dbPnl' = [t \in Trades |-> rows[t][2]]
  /\ wal' = {}

-----------------------------------------------------------------------------
(* Consensus orchestrator: propose a fresh trade. *)

Propose(t) ==
  /\ life[t] = "NONE"
  /\ WriteRow(t, "PENDING", 0)
  /\ Publish(queue, Msg("PROPOSAL", t, 0))
  /\ UNCHANGED <<eod, riskVars, execVars, trackVars, bounds>>

-----------------------------------------------------------------------------
(* Risk manager. *)

WithinDailyLoss == riskPnl > -DailyLossLimit

WithinOpenLimit == Cardinality(riskOpen) < MaxOpen

SameDirection(t) == {u \in riskOpen : Info[u].direction = Info[t].direction}

Uncorrelated(t) ==
  /\ \A u \in SameDirection(t) : Info[u].underlying = Info[t].underlying
  /\ Cardinality(SameDirection(t)) < 2

\* The checks on VIX, drawdown, sizing and capital risk are `otherChecks`.
RiskDecide(otherChecks) ==
  /\ NextIs("risk", "PROPOSAL")
  /\ LET t == Head(queue["risk"]).trade
         approved == WithinDailyLoss /\ WithinOpenLimit /\ Uncorrelated(t) /\ otherChecks
     IN  IF approved
         THEN /\ WriteRow(t, "APPROVED", 0)
              /\ Publish(Taken("risk"), Msg("RISK_APPROVED", t, 0))
         ELSE /\ WriteRow(t, "CANCELLED", 0)
              /\ queue' = Taken("risk")
              /\ UNCHANGED missed
  /\ UNCHANGED <<eod, riskVars, execVars, trackVars, bounds>>

RiskOnEntry ==
  /\ NextIs("risk", "ENTRY")
  /\ riskOpen' = riskOpen \cup {Head(queue["risk"]).trade}
  /\ queue' = Taken("risk")
  /\ UNCHANGED <<eod, missed, riskPnl, execVars, trackVars, dbVars, bounds>>

\* A partial exit releases the slot of the whole position.
RiskOnExit ==
  /\ \E e \in Listed("risk") : NextIs("risk", e)
  /\ riskPnl' = riskPnl + Head(queue["risk"]).pnl
  /\ riskOpen' = riskOpen \ {Head(queue["risk"]).trade}
  /\ queue' = Taken("risk")
  /\ UNCHANGED <<eod, missed, execVars, trackVars, dbVars, bounds>>

RiskOnUnlisted ==
  /\ \E e \in ExitEvents \ Listed("risk") : NextIs("risk", e)
  /\ queue' = Taken("risk")
  /\ UNCHANGED <<eod, missed, riskVars, execVars, trackVars, dbVars, bounds>>

RiskStep == (\E ok \in BOOLEAN : RiskDecide(ok)) \/ RiskOnEntry \/ RiskOnExit \/ RiskOnUnlisted

-----------------------------------------------------------------------------
(* Paper executor. *)

\* int(quantity * 0.60) and int(quantity * 0.30).
TargetQty(k) == IF k = 1 THEN (Qty * 6) \div 10 ELSE (Qty * 3) \div 10

Intraday(t) == Info[t].type \in {"SCALP", "INTRADAY"}

\* Mutants: no lookup; only positions still whole are found.
AnyTrade(t) == TRUE
StillWhole(t) == pos[t] = Qty

\* The executor finds t in its positions.
Held(t) == pos[t] > 0

\* The executor handles one message at a time; it is in the middle of a tick
\* while a second target has still to be sold.
Idle == gapped = {}

ExecEnter ==
  /\ Idle
  /\ NextIs("exec", "RISK_APPROVED")
  /\ LET t == Head(queue["exec"]).trade
     IN  /\ pos' = [pos EXCEPT ![t] = Qty]
         /\ trailed' = trailed \cup {t}
         /\ hits' = [hits EXCEPT ![t] = 0]
         /\ WriteRow(t, "OPEN", 0)
         /\ Publish(Taken("exec"), Msg("ENTRY", t, 0))
  /\ UNCHANGED <<eod, riskVars, gapped, partialPnl, execPnl, booked, trackVars, bounds>>

\* With no strike, no premium and no price yet, the entry is dropped.
ExecNoPrice ==
  /\ Idle
  /\ NextIs("exec", "RISK_APPROVED")
  /\ ~Info[Head(queue["exec"]).trade].option
  /\ queue' = Taken("exec")
  /\ UNCHANGED <<eod, missed, riskVars, execVars, trackVars, dbVars, bounds>>

\* Mutant: the P&L of the partial exits is forgotten.
LastPnl(t, p) == p

\* The P&L of the whole trade when the last part brings p.
TotalPnl(t, p) == p + partialPnl[t]

\* _execute_exit: everything that is left of t is sold and the trade closed.
CloseOut(q, t, e) ==
  \E p \in PnL :
    /\ pos' = [pos EXCEPT ![t] = 0]
    /\ booked' = [booked EXCEPT ![t] = @ + pos[t]]
    /\ trailed' = trailed \ {t}
    /\ execPnl' = execPnl + p
    /\ WriteRow(t, "CLOSED", TotalPnl(t, p))
    /\ partialPnl' = [partialPnl EXCEPT ![t] = 0]
    /\ UNCHANGED <<hits, gapped>>
    /\ Publish(q, Msg(e, t, p))

ExecOnOrder(custom) ==
  /\ Idle
  /\ NextIs("exec", IF custom THEN "CUSTOM_EXIT_ORDER" ELSE "EXIT_ORDER")
  /\ LET t == Head(queue["exec"]).trade
     IN  IF Held(t)
         THEN CloseOut(Taken("exec"), t, IF custom THEN "CUSTOM_EXIT" ELSE "EXIT")
         ELSE queue' = Taken("exec") /\ UNCHANGED <<missed, execVars, dbVars>>
  /\ UNCHANGED <<eod, riskVars, trackVars, bounds>>

ExecStep == ExecEnter \/ ExecNoPrice \/ \E c \in BOOLEAN : ExecOnOrder(c)

\* Sell target k of t and tell everybody; g is what is left of the tick.
SellTarget(t, k, g) ==
  /\ pos' = [pos EXCEPT ![t] = @ - TargetQty(k)]
  /\ booked' = [booked EXCEPT ![t] = @ + TargetQty(k)]
  /\ hits' = [hits EXCEPT ![t] = k]
  /\ gapped' = g
  /\ \E p \in PnL :
       /\ execPnl' = execPnl + p
       /\ partialPnl' = [partialPnl EXCEPT ![t] = @ + p]
       /\ Publish(queue, Msg("PARTIAL_EXIT", t, p))
  /\ UNCHANGED <<eod, riskVars, trailed, trackVars, dbVars, bounds>>

\* A tick at T1.  The stop moves to the entry price, which leaves no risk per
\* unit to measure T2 by: T2 is sold only by a tick that gaps over both.
TrailFirst(t) ==
  /\ Idle
  /\ t \in trailed
  /\ Held(t)
  /\ hits[t] = 0
  /\ \E g \in {{}, {t}} : SellTarget(t, 1, g)

\* The same tick, once its first publication has been awaited.
TrailSecond(t) ==
  /\ t \in gapped
  /\ SellTarget(t, 2, {})

\* A tick closes the rest: the stop or the illiquidity rule (never reached for
\* an index position, whose direction LONG or SHORT the stop does not know),
\* ten minutes of a scalp, or the end of the session.
TrailClose(t) ==
  /\ Idle
  /\ t \in trailed
  /\ Held(t)
  /\ Info[t].option \/ Info[t].type = "SCALP" \/ (eod /\ Intraday(t))
  /\ CloseOut(queue, t, "EXIT")
  /\ UNCHANGED <<eod, riskVars, trackVars, bounds>>

-----------------------------------------------------------------------------
(* Position tracker. *)

TrackOnEntry ==
  /\ NextIs("track", "ENTRY")
  /\ tracked' = tracked \cup {Head(queue["track"]).trade}
  /\ pending' = pending \ {Head(queue["track"]).trade}
  /\ queue' = Taken("track")
  /\ UNCHANGED <<eod, missed, riskVars, execVars, dbVars, bounds>>

\* A partial exit, too, ends the tracking of the position.
TrackOnExit ==
  /\ \E e \in Listed("track") : NextIs("track", e)
  /\ tracked' = tracked \ {Head(queue["track"]).trade}
  /\ pending' = pending \ {Head(queue["track"]).trade}
  /\ queue' = Taken("track")
  /\ UNCHANGED <<eod, missed, riskVars, execVars, dbVars, bounds>>

TrackOnUnlisted ==
  /\ \E e \in ExitEvents \ Listed("track") : NextIs("track", e)
  /\ queue' = Taken("track")
  /\ UNCHANGED <<eod, missed, riskVars, execVars, trackVars, dbVars, bounds>>

TrackStep == TrackOnEntry \/ TrackOnExit \/ TrackOnUnlisted

\* The two-second monitor: the end of the session for intraday trades, stop
\* and target for index positions (options are left to the trailing stop).
TriggerExit(t) ==
  /\ t \in tracked
  /\ t \notin pending
  /\ (eod /\ Intraday(t)) \/ ~Info[t].option
  /\ pending' = pending \cup {t}
  /\ Publish(queue, Msg("EXIT_ORDER", t, 0))
  /\ UNCHANGED <<eod, riskVars, execVars, tracked, dbVars, bounds>>

-----------------------------------------------------------------------------
(* HTTP API, clock and process. *)

\* POST /trades/{id}/close looks the position up first.
ApiCloseTrade(t) ==
  /\ manual < MaxManual
  /\ Held(t)
  /\ manual' = manual + 1
  /\ Publish(queue, Msg("EXIT_ORDER", t, 0))
  /\ UNCHANGED <<eod, riskVars, execVars, trackVars, dbVars, crashes>>

\* POST /paper/exit/{id} does not, and passes the caller's reason on.
ApiExitMock(t, e) ==
  /\ manual < MaxManual
  /\ e = "CUSTOM_EXIT_ORDER" => CustomReasons
  /\ manual' = manual + 1
  /\ Publish(queue, Msg(e, t, 0))
  /\ UNCHANGED <<eod, riskVars, execVars, trackVars, dbVars, crashes>>

EndOfDay ==
  /\ ~eod
  /\ eod' = TRUE
  /\ UNCHANGED <<busVars, riskVars, execVars, trackVars, dbVars, bounds>>

\* Mutant: approved trades are recovered as if they had been filled.
RecoveredEarly(t) == IF db'[t] \in {"APPROVED", "OPEN"} THEN Qty ELSE 0

\* The quantity of an OPEN row, never updated by the partial exits.
Recovered(t) == IF db'[t] = "OPEN" THEN Qty ELSE 0

\* _recover_open_positions: the log is replayed and the OPEN rows become
\* positions, or the query fails and there are none.
RecoverOpenPositions ==
  /\ ReplayWal
  /\ \/ pos' = [t \in Trades |-> Recovered(t)] /\ lost' = {}
     \/ /\ MaxDbFails > 0
        /\ pos' = [t \in Trades |-> 0]
        /\ lost' = {t \in Trades : db'[t] = "OPEN"}

\* The process dies and starts again: every queue and every object in memory
\* is lost; the executor alone rebuilds its positions, and a trade it does not
\* recover is over.
Restart ==
  /\ crashes < MaxCrashes
  /\ crashes' = crashes + 1
  /\ queue' = [s \in Subscribers |-> <<>>]
  /\ riskOpen' = {} /\ riskPnl' = 0
  /\ RecoverOpenPositions
  /\ life' = [t \in Trades |-> IF pos'[t] > 0 THEN "OPEN"
                                ELSE IF life[t] = "NONE" THEN "NONE" ELSE "CLOSED"]
  /\ trailed' = {}
  /\ hits' = [t \in Trades |-> 0]
  /\ gapped' = {}
  /\ partialPnl' = [t \in Trades |-> 0]
  /\ execPnl' = 0
  /\ tracked' = {} /\ pending' = {}
  /\ UNCHANGED <<eod, missed, booked, manual, dbFails>>

-----------------------------------------------------------------------------
Init ==
  /\ eod = FALSE
  /\ queue = [s \in Subscribers |-> <<>>]
  /\ riskOpen = {} /\ riskPnl = 0
  /\ pos = [t \in Trades |-> 0]
  /\ trailed = {}
  /\ hits = [t \in Trades |-> 0]
  /\ gapped = {}
  /\ partialPnl = [t \in Trades |-> 0]
  /\ execPnl = 0
  /\ tracked = {} /\ pending = {}
  /\ db = [t \in Trades |-> "NONE"]
  /\ dbPnl = [t \in Trades |-> 0]
  /\ wal = {} /\ lost = {}
  /\ dbFails = 0
  /\ life = [t \in Trades |-> "NONE"]
  /\ booked = [t \in Trades |-> 0]
  /\ missed = {}
  /\ manual = 0
  /\ crashes = 0

Next ==
  \/ \E t \in Trades : Propose(t)
  \/ RiskStep
  \/ ExecStep
  \/ TrackStep
  \/ \E t \in Trades : TrailFirst(t) \/ TrailSecond(t) \/ TrailClose(t) \/ TriggerExit(t)
  \/ \E t \in Trades : ApiCloseTrade(t) \/ \E e \in OrderEvents : ApiExitMock(t, e)
  \/ EndOfDay
  \/ Restart

Spec == Init /\ [][Next]_vars

\* Each coroutine keeps taking messages and, after 15:15, ticks keep coming
\* and the monitor keeps looping.  Nothing else is promised.
Fairness ==
  /\ WF_vars(RiskStep)
  /\ WF_vars(ExecStep)
  /\ WF_vars(TrackStep)
  /\ \A t \in Trades :
       /\ WF_vars(TrailSecond(t))
       /\ WF_vars(eod /\ Intraday(t) /\ TrailClose(t))
       /\ WF_vars(eod /\ Intraday(t) /\ TriggerExit(t))

FairSpec == Spec /\ Fairness

-----------------------------------------------------------------------------
(* Properties. *)

\* The type of the rows, of their log and of what is known of them.
RowsTypeOK ==
  /\ db \in [Trades -> Statuses]
  /\ dbPnl \in [Trades -> Int]
  /\ wal \subseteq Trades \X Statuses \X Int
  /\ lost \subseteq Trades
  /\ life \in [Trades -> Statuses]
  /\ dbFails \in Nat

\* The type of the state.
TypeOK ==
  /\ eod \in BOOLEAN
  /\ queue \in [Subscribers -> Seq(Message)]
  /\ riskOpen \subseteq Trades /\ riskPnl \in Int
  /\ pos \in [Trades -> 0 .. Qty]
  /\ trailed \subseteq Trades
  /\ hits \in [Trades -> 0 .. 2]
  /\ gapped \subseteq Trades
  /\ partialPnl \in [Trades -> Int]
  /\ execPnl \in Int
  /\ tracked \subseteq Trades /\ pending \subseteq Trades
  /\ RowsTypeOK
  /\ booked \in [Trades -> Nat]
  /\ missed \subseteq Subscribers \X Trades
  /\ manual \in Nat /\ crashes \in Nat

View(s) == IF s = "risk" THEN riskOpen ELSE tracked

\* Beyond place i of the queue q there is a listed exit of t.
ExitBeyond(q, i, t) ==
  \E j \in i + 1 .. Len(q) : q[j].event \in ListedExits /\ q[j].trade = t

\* Every entry of t in q has a listed exit of t behind it.
EntriesCovered(q, t) ==
  \A i \in 1 .. Len(q) :
    q[i].event = "ENTRY" /\ q[i].trade = t => ExitBeyond(q, i, t)

\* The risk manager and the tracker never hold a ghost: a position they list
\* is whole in the executor, or the exit that will remove it is on its way to
\* them, or that exit was lost by the bus or carried a name they do not list.
NoGhost ==
  \A s \in Watchers : \A t \in View(s) :
    pos[t] = Qty \/ ExitBeyond(queue[s], 0, t) \/ <<s, t>> \in missed

\* What the trailing stop has sold, T1 and T2, is what is gone from a position.
Remaining(k) ==
  CASE k = 0 -> Qty [] k = 1 -> Qty - TargetQty(1) [] OTHER -> Qty - TargetQty(1) - TargetQty(2)

StockInv ==
  /\ \A t \in trailed : pos[t] = Remaining(hits[t])
  /\ \A t \in gapped : t \in trailed /\ hits[t] = 1

\* NoGhost, strengthened by what makes it last: an entry still in the mail of
\* a watcher cannot bring back a position that is no longer whole.
GhostInv ==
  \A s \in Watchers, t \in Trades :
    \/ pos[t] = Qty
    \/ <<s, t>> \in missed
    \/ /\ t \in View(s) => ExitBeyond(queue[s], 0, t)
       /\ EntriesCovered(queue[s], t)

IInv == TypeOK /\ StockInv /\ GhostInv

\* What the trades carry when part and all of them has been sold for so much, and
\* what a mail box holds that has still to be counted.
Carried(part, all) == SumFunction([t \in Trades |-> part[t] + all[t]])
Unread(q) == SumFunction([i \in DOMAIN q |-> q[i].pnl])

\* The two books of the day's P&L agree: what the executor has realised is what
\* its trades carry (closed or partly closed), and what the risk manager will
\* have counted once it has read its mail, so the daily loss limit is checked
\* against the truth and late by no more than the unread messages.  The first
\* holds until a write of a row fails.
BooksAgree ==
  crashes = 0 =>
    /\ dbFails = 0 => execPnl = Carried(partialPnl, dbPnl)
    /\ (\A t \in Trades : <<"risk", t>> \notin missed) => execPnl = riskPnl + Unread(queue["risk"])

\* A position the tracker no longer looks at because its exit is pending has
\* an exit order on its way to the executor, unless the bus lost the order.
PendingHasOrder ==
  \A t \in pending :
    \/ pos[t] = 0
    \/ \E i \in DOMAIN queue["exec"] : queue["exec"][i] = Msg("EXIT_ORDER", t, 0)
    \/ <<"exec", t>> \in missed

\* What the log holds for t says where the executor's position stands.
LogTells(t) ==
  \E w \in wal : w[1] = t /\ w[2] = (IF pos[t] > 0 THEN "OPEN" ELSE "CLOSED")

\* The OPEN rows are the executor's positions, through failing writes, replays
\* of the log and restarts: where they are not, the write that would say so
\* waits in the log, or is among those that no table and no log took, or the
\* recovery that should have read the row failed.
RowsMatchPositions ==
  \A t \in Trades : (db[t] = "OPEN" <=> pos[t] > 0) \/ LogTells(t) \/ t \in lost

\* After 15:15 every intraday position is closed in the end.
IntradaySquaredOff ==
  \A t \in Trades : (eod /\ Intraday(t) /\ pos[t] > 0) ~> pos[t] = 0

\* An exit the tracker asked for is answered: it never waits forever with a
\* position flagged exit_pending, which its monitor skips.
ExitOrderSettles ==
  \A t \in Trades : t \in pending ~> t \notin pending

-----------------------------------------------------------------------------
(* Refinement: trade by trade, whatever the interleaving, the pipeline walks   *)
(* the life of a trade.                                                        *)

stage ==
  [t \in Trades |->
    CASE db[t] = "NONE" -> "idle"
      [] db[t] = "PENDING" -> "proposed"
      [] db[t] = "CANCELLED" -> "vetoed"
      [] db[t] = "APPROVED" -> "approved"
      [] db[t] = "OPEN" -> IF pos[t] = Qty THEN "open" ELSE "reduced"
      [] OTHER -> "closed"]

Lifecycle == INSTANCE TradeLifecycle WITH held <- pos

\* A trade is decided once, opened only when approved, sold only while open and
\* closed once for good.
ImplementsLifecycle == Lifecycle!Spec

=============================================================================
