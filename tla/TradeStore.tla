------------------------------ MODULE TradeStore ------------------------------
(***************************************************************************)
(* The rows of trades and their write-ahead log (agents/db_logger.py): a   *)
(* write is tried a few times, a write that failed goes to the log, and    *)
(* the log is replayed when the executor starts                            *)
(* (execution/paper_executor.py, _recover_open_positions).                 *)
(*                                                                         *)
(* A trade is inserted as PENDING, then upserted as APPROVED or CANCELLED, *)
(* as OPEN and, with an exit price, as CLOSED.  Writes block the event     *)
(* loop, so no two of them overlap in one process.                         *)
(***************************************************************************)
EXTENDS Integers, Sequences, SequencesExt

CONSTANTS
    Trades,
    MaxLog,             \* bound: entries of the log
    MaxStarts           \* bound: restarts of the process

VARIABLES
    rows,       \* table trades: [status, exit] of each trade, or NoRow
    held,       \* the status of each trade in memory, "" before it is proposed
    wal,        \* _WAL_FILE: the entries in order
    reading,    \* the entries a replay has still to apply
    replaying,  \* a replay is under way
    starts

storeVars == <<rows, held, wal, reading, replaying, starts>>

NoRow == [status |-> "", exit |-> FALSE]
Entry(op, t, status, exit) == [op |-> op, trade |-> t, status |-> status, exit |-> exit]

\* What the program writes next for a trade of some status.
NextStatus(status) == CASE status = "" -> {"PENDING"}
                        [] status = "PENDING" -> {"APPROVED", "CANCELLED"}
                        [] status = "APPROVED" -> {"OPEN"}
                        [] status = "OPEN" -> {"CLOSED"}
                        [] OTHER -> {}

\* INSERT ... ON CONFLICT DO NOTHING.
Inserted(row, e) == IF row = NoRow THEN [status |-> e.status, exit |-> e.exit] ELSE row

\* ON CONFLICT DO UPDATE: the status is replaced, a price is kept if the new
\* row has none.
Upserted(row, e) == [status |-> e.status, exit |-> e.exit \/ row.exit]

Applied(e) == [rows EXCEPT ![e.trade] = IF e.op = "insert" THEN Inserted(@, e) ELSE Upserted(@, e)]

\* One of the attempts succeeds, or all fail and the entry goes to the log.
\* That the log itself cannot be written is left out; TradePipeline has it.
Stored(e) == rows' = Applied(e) /\ UNCHANGED wal
Logged(e) == Len(wal) < MaxLog /\ wal' = Append(wal, e) /\ UNCHANGED rows
Execute(e) == Stored(e) \/ Logged(e)

StoreInit ==
    /\ rows = [t \in Trades |-> NoRow]
    /\ held = [t \in Trades |-> ""]
    /\ wal = <<>> /\ reading = <<>>
    /\ replaying = FALSE
    /\ starts = 0

WriteTrade(t, status) ==
    /\ ~replaying
    /\ status \in NextStatus(held[t])
    /\ Execute(Entry(IF status = "PENDING" THEN "insert" ELSE "upsert", t, status, status = "CLOSED"))
    /\ held' = [held EXCEPT ![t] = status]
    /\ UNCHANGED <<reading, replaying, starts>>

\* After the replay the executor takes up the trades whose row is OPEN.
TakenUp == [t \in Trades |-> IF held[t] = "gone" /\ rows[t].status = "OPEN" THEN "OPEN" ELSE held[t]]

\* The process starts with nothing in memory, also while a replay was under way.
StartProcess ==
    /\ starts < MaxStarts
    /\ starts' = starts + 1
    /\ replaying' = TRUE
    /\ reading' = wal
    /\ held' = [t \in Trades |-> IF held[t] = "" THEN "" ELSE "gone"]
    /\ UNCHANGED <<rows, wal>>

\* A write that fails again does not raise: it appends itself to the log.
ReplayEntry ==
    /\ replaying /\ reading # <<>>
    /\ Execute(Head(reading))
    /\ reading' = Tail(reading)
    /\ UNCHANGED <<held, replaying, starts>>

\* The log is rewritten with the entries that raised: none.
RewriteLog ==
    /\ replaying /\ reading = <<>>
    /\ wal' = <<>>
    /\ replaying' = FALSE
    /\ held' = TakenUp
    /\ UNCHANGED <<rows, reading, starts>>

StoreNext ==
    \/ \E t \in Trades : \E status \in NextStatus(held[t]) : WriteTrade(t, status)
    \/ StartProcess
    \/ ReplayEntry
    \/ RewriteLog

(***************************************************************************)
(* Properties                                                              *)
(***************************************************************************)

\* A trade that failed to be stored is in the log until it is stored
\* (db_logger.py:47, 145).
FailedWritesKept ==
    ~replaying => \A t \in Trades : held[t] # "" =>
        \/ rows[t] # NoRow
        \/ \E i \in DOMAIN wal : wal[i].trade = t
=============================================================================
