----------------------- MODULE TradePipeline_proofs -------------------------
(***************************************************************************)
(* Proofs about the trading pipeline, for any trades, quantities, limits,  *)
(* number of API calls and restarts, with or without a lossy bus.          *)
(***************************************************************************)
EXTENDS TradePipeline, TLAPS

Mail == [Subscribers -> Seq(Message)]

Misses == SUBSET (Subscribers \X Trades)

(* Arithmetic of the targets: T1 and T2 together leave a part of the position. *)
LEMMA TargetsLeaveRunner ==
  /\ TargetQty(1) \in Nat /\ TargetQty(2) \in Nat
  /\ TargetQty(1) > 0 /\ TargetQty(2) > 0
  /\ TargetQty(1) + TargetQty(2) < Qty
BY ConstantsAssumption DEF TargetQty

LEMMA RemainingType ==
  ASSUME NEW k \in 0 .. 2
  PROVE  Remaining(k) \in 1 .. Qty
BY TargetsLeaveRunner, ConstantsAssumption DEF Remaining

-----------------------------------------------------------------------------
(* Queues: what appending to one and taking from one does to the exits and     *)
(* entries in it.                                                              *)

LEMMA AppendKeepsExit ==
  ASSUME NEW q \in Seq(Message), NEW m \in Message, NEW i \in Nat, NEW t \in Trades,
         ExitBeyond(q, i, t)
  PROVE  ExitBeyond(Append(q, m), i, t)
<1>1. PICK j \in i + 1 .. Len(q) : q[j].event \in ListedExits /\ q[j].trade = t
  BY DEF ExitBeyond
<1>2. j \in i + 1 .. Len(Append(q, m)) /\ Append(q, m)[j] = q[j]
  BY <1>1
<1> QED BY <1>1, <1>2 DEF ExitBeyond

LEMMA AppendAddsExit ==
  ASSUME NEW q \in Seq(Message), NEW m \in Message, NEW i \in 0 .. Len(q),
         m.event \in ListedExits
  PROVE  ExitBeyond(Append(q, m), i, m.trade)
<1> DEFINE n == Len(q) + 1
<1>1. n \in i + 1 .. Len(Append(q, m)) /\ Append(q, m)[n] = m
  OBVIOUS
<1> QED BY <1>1 DEF ExitBeyond

LEMMA AppendKeepsCover ==
  ASSUME NEW q \in Seq(Message), NEW m \in Message, NEW t \in Trades,
         EntriesCovered(q, t), ~(m.event = "ENTRY" /\ m.trade = t)
  PROVE  EntriesCovered(Append(q, m), t)
<1> SUFFICES ASSUME NEW i \in 1 .. Len(Append(q, m)),
                    Append(q, m)[i].event = "ENTRY", Append(q, m)[i].trade = t
             PROVE  ExitBeyond(Append(q, m), i, t)
  BY DEF EntriesCovered
<1>1. i \in 1 .. Len(q) /\ Append(q, m)[i] = q[i]
  OBVIOUS
<1>2. ExitBeyond(q, i, t)
  BY <1>1 DEF EntriesCovered
<1> QED BY <1>1, <1>2, AppendKeepsExit

LEMMA AppendCovers ==
  ASSUME NEW q \in Seq(Message), NEW m \in Message, m.event \in ListedExits
  PROVE  EntriesCovered(Append(q, m), m.trade)
<1> SUFFICES ASSUME NEW i \in 1 .. Len(Append(q, m)), Append(q, m)[i].event = "ENTRY"
             PROVE  ExitBeyond(Append(q, m), i, m.trade)
  BY DEF EntriesCovered
<1>1. i # Len(q) + 1
  BY DEF ListedExits
<1>2. i \in 0 .. Len(q)
  BY <1>1
<1> QED BY <1>2, AppendAddsExit

LEMMA TailKeepsExit ==
  ASSUME NEW q \in Seq(Message), q # <<>>, NEW i \in Nat, NEW t \in Trades,
         ExitBeyond(q, i + 1, t)
  PROVE  ExitBeyond(Tail(q), i, t)
<1>1. PICK j \in i + 2 .. Len(q) : q[j].event \in ListedExits /\ q[j].trade = t
  BY DEF ExitBeyond
<1>2. j - 1 \in i + 1 .. Len(Tail(q)) /\ Tail(q)[j - 1] = q[j]
  BY <1>1
<1> QED BY <1>1, <1>2 DEF ExitBeyond

LEMMA TailKeepsOtherExit ==
  ASSUME NEW q \in Seq(Message), q # <<>>, NEW t \in Trades, ExitBeyond(q, 0, t),
         ~(Head(q).event \in ListedExits /\ Head(q).trade = t)
  PROVE  ExitBeyond(Tail(q), 0, t)
<1>1. PICK j \in 1 .. Len(q) : q[j].event \in ListedExits /\ q[j].trade = t
  BY DEF ExitBeyond
<1>2. j # 1
  BY <1>1
<1>3. j \in 0 + 1 + 1 .. Len(q)
  BY <1>2
<1>4. ExitBeyond(q, 0 + 1, t)
  BY <1>1, <1>3 DEF ExitBeyond
<1> QED BY <1>4, TailKeepsExit

LEMMA TailKeepsCover ==
  ASSUME NEW q \in Seq(Message), q # <<>>, NEW t \in Trades, EntriesCovered(q, t)
  PROVE  EntriesCovered(Tail(q), t)
<1> SUFFICES ASSUME NEW i \in 1 .. Len(Tail(q)),
                    Tail(q)[i].event = "ENTRY", Tail(q)[i].trade = t
             PROVE  ExitBeyond(Tail(q), i, t)
  BY DEF EntriesCovered
<1>1. i + 1 \in 1 .. Len(q) /\ Tail(q)[i] = q[i + 1]
  OBVIOUS
<1>2. ExitBeyond(q, i + 1, t)
  BY <1>1 DEF EntriesCovered
<1> QED BY <1>2, TailKeepsExit

LEMMA HeadEntryCovered ==
  ASSUME NEW q \in Seq(Message), q # <<>>, Head(q).event = "ENTRY",
         EntriesCovered(q, Head(q).trade), Head(q).trade \in Trades
  PROVE  ExitBeyond(Tail(q), 0, Head(q).trade)
<1>1. 1 \in 1 .. Len(q) /\ q[1] = Head(q)
  OBVIOUS
<1>2. ExitBeyond(q, 0 + 1, Head(q).trade)
  BY <1>1 DEF EntriesCovered
<1> QED BY <1>2, TailKeepsExit

-----------------------------------------------------------------------------
(* The bus. *)

\* What a step that publishes m on the queues q does to them: nothing is lost
\* without a trace that the watchers should have counted.
Delivered(q, m) ==
  /\ queue' \in Mail
  /\ missed' \in Misses
  /\ missed \subseteq missed'
  /\ \A s \in Subscribers : queue'[s] = q[s] \/ queue'[s] = Append(q[s], m)
  /\ m.event \in ListedExits =>
       \A s \in Watchers : queue'[s] = Append(q[s], m) \/ <<s, m.trade>> \in missed'
  /\ m.event = "CUSTOM_EXIT" => \A s \in Watchers : <<s, m.trade>> \in missed'

LEMMA Publishing ==
  ASSUME NEW q \in Mail, NEW m \in Message, missed \in Misses, Publish(q, m)
  PROVE  Delivered(q, m)
<1>1. PICK S \in IF BusDrops THEN SUBSET Receivers(m.event) ELSE {Receivers(m.event)} :
        /\ queue' = [s \in Subscribers |-> IF s \in S THEN Append(q[s], m) ELSE q[s]]
        /\ missed' = missed \cup
             {<<s, m.trade>> : s \in IF m.event \in ListedExits \cup OrderEvents
                                     THEN Receivers(m.event) \ S
                                     ELSE IF m.event = "CUSTOM_EXIT" THEN Watchers ELSE {}}
  BY DEF Publish
<1>2. Receivers(m.event) \subseteq Subscribers
  BY DEF Receivers, Subscribers, Watchers
<1>3. Watchers \subseteq Subscribers /\ m.trade \in Trades
  BY DEF Watchers, Subscribers, Message
<1>4. missed' \in Misses /\ missed \subseteq missed'
  BY <1>1, <1>2, <1>3 DEF Misses
<1>5. \A s \in Subscribers : q[s] \in Seq(Message) /\ Append(q[s], m) \in Seq(Message)
  BY DEF Mail
<1>6. queue' \in Mail
  BY <1>1, <1>5 DEF Mail
<1>7. \A s \in Subscribers : queue'[s] = q[s] \/ queue'[s] = Append(q[s], m)
  BY <1>1
<1>8. ASSUME m.event \in ListedExits, NEW s \in Watchers
      PROVE  queue'[s] = Append(q[s], m) \/ <<s, m.trade>> \in missed'
  <2>1. Receivers(m.event) = Watchers
    BY <1>8 DEF Receivers, ListedExits, OrderEvents
  <2>2. CASE s \in S
    BY <2>2, <1>1, <1>3
  <2>3. CASE s \notin S
    BY <2>1, <2>3, <1>1, <1>8
  <2> QED BY <2>2, <2>3
<1>9. ASSUME m.event = "CUSTOM_EXIT", NEW s \in Watchers
      PROVE  <<s, m.trade>> \in missed'
  BY <1>1, <1>9 DEF ListedExits, OrderEvents
<1> QED BY <1>4, <1>6, <1>7, <1>8, <1>9 DEF Delivered

\* The queues left when a subscriber takes a message.
LEMMA Taking ==
  ASSUME NEW s \in Subscribers, queue \in Mail, queue[s] # <<>>
  PROVE  /\ Taken(s) \in Mail
         /\ Taken(s)[s] = Tail(queue[s])
         /\ \A u \in Subscribers : u # s => Taken(s)[u] = queue[u]
         /\ Head(queue[s]) \in Message
<1>1. Tail(queue[s]) \in Seq(Message) /\ Head(queue[s]) \in Message
  BY DEF Mail
<1> QED BY <1>1 DEF Taken, Mail

LEMMA MsgType ==
  ASSUME NEW e \in Events, NEW t \in Trades, NEW p \in Int
  PROVE  /\ Msg(e, t, p) \in Message
         /\ Msg(e, t, p).event = e
         /\ Msg(e, t, p).trade = t
BY DEF Msg, Message

-----------------------------------------------------------------------------
(* The watchers' mail, one watcher s and one trade t at a time.                *)

\* Either s can know of t no more, or an exit of t is behind all it will hear.
Quiet(q, inView, t) == (inView => ExitBeyond(q, 0, t)) /\ EntriesCovered(q, t)

LEMMA QuietAppend ==
  ASSUME NEW q \in Seq(Message), NEW m \in Message, NEW t \in Trades, NEW b \in BOOLEAN,
         Quiet(q, b, t), ~(m.event = "ENTRY" /\ m.trade = t)
  PROVE  Quiet(Append(q, m), b, t)
BY AppendKeepsExit, AppendKeepsCover DEF Quiet

LEMMA QuietExit ==
  ASSUME NEW q \in Seq(Message), NEW m \in Message, NEW b \in BOOLEAN,
         m.event \in ListedExits
  PROVE  Quiet(Append(q, m), b, m.trade)
<1>1. 0 \in 0 .. Len(q)
  OBVIOUS
<1> QED BY <1>1, AppendAddsExit, AppendCovers DEF Quiet

\* Taking a message that leaves the view of t alone.
LEMMA QuietTake ==
  ASSUME NEW q \in Seq(Message), q # <<>>, NEW t \in Trades, NEW b \in BOOLEAN,
         Quiet(q, b, t), ~(Head(q).event \in ListedExits /\ Head(q).trade = t)
  PROVE  Quiet(Tail(q), b, t)
BY TailKeepsOtherExit, TailKeepsCover DEF Quiet

\* Taking the entry of t, which puts it in view.
LEMMA QuietTakeEntry ==
  ASSUME NEW q \in Seq(Message), q # <<>>, NEW b \in BOOLEAN, Head(q).event = "ENTRY",
         Head(q).trade \in Trades, Quiet(q, b, Head(q).trade)
  PROVE  Quiet(Tail(q), TRUE, Head(q).trade)
BY HeadEntryCovered, TailKeepsCover DEF Quiet

\* Taking an exit of t, which takes it out of view.
LEMMA QuietTakeExit ==
  ASSUME NEW q \in Seq(Message), q # <<>>, NEW t \in Trades, NEW b \in BOOLEAN, Quiet(q, b, t)
  PROVE  Quiet(Tail(q), FALSE, t)
BY TailKeepsCover DEF Quiet

\* A publication that is no entry of t leaves t quiet.
LEMMA PublishKeepsQuiet ==
  ASSUME NEW q \in Mail, NEW m \in Message, Delivered(q, m), NEW s \in Watchers,
         NEW t \in Trades, NEW b \in BOOLEAN, Quiet(q[s], b, t),
         ~(m.event = "ENTRY" /\ m.trade = t)
  PROVE  Quiet(queue'[s], b, t)
<1>1. s \in Subscribers /\ q[s] \in Seq(Message)
  BY DEF Watchers, Subscribers, Mail
<1>2. queue'[s] = q[s] \/ queue'[s] = Append(q[s], m)
  BY <1>1 DEF Delivered
<1> QED BY <1>1, <1>2, QuietAppend

\* An exit of t makes t quiet, or is missed.
LEMMA ExitMakesQuiet ==
  ASSUME NEW q \in Mail, NEW m \in Message, Delivered(q, m), NEW s \in Watchers,
         NEW b \in BOOLEAN, m.event \in ExitEvents
  PROVE  Quiet(queue'[s], b, m.trade) \/ <<s, m.trade>> \in missed'
<1>1. s \in Subscribers /\ q[s] \in Seq(Message)
  BY DEF Watchers, Subscribers, Mail
<1>2. CASE m.event \in ListedExits
  <2>1. queue'[s] = Append(q[s], m) \/ <<s, m.trade>> \in missed'
    BY <1>2 DEF Delivered
  <2> QED BY <1>1, <1>2, <2>1, QuietExit
<1>3. CASE m.event = "CUSTOM_EXIT"
  BY <1>3 DEF Delivered
<1> QED BY <1>2, <1>3 DEF ExitEvents, ListedExits

-----------------------------------------------------------------------------
(* Types.                                                                      *)

LEMMA TypeParts == TypeOK => queue \in Mail /\ missed \in Misses
BY DEF TypeOK, Mail, Misses

LEMMA PublishTypes ==
  ASSUME TypeOK, NEW q \in Mail, NEW e \in Events, NEW t \in Trades, NEW p \in Int,
         Publish(q, Msg(e, t, p))
  PROVE  queue' \in [Subscribers -> Seq(Message)] /\ missed' \subseteq Subscribers \X Trades
<1>1. Delivered(q, Msg(e, t, p))
  BY TypeParts, MsgType, Publishing
<1> QED BY <1>1 DEF Delivered, Mail, Misses

LEMMA PublishNowTypes ==
  ASSUME TypeOK, NEW e \in Events, NEW t \in Trades, Publish(queue, Msg(e, t, 0))
  PROVE  queue' \in [Subscribers -> Seq(Message)] /\ missed' \subseteq Subscribers \X Trades
<1>1. queue \in Mail /\ 0 \in Int
  BY TypeParts
<1> QED BY <1>1, PublishTypes

LEMMA WriteTypes ==
  ASSUME TypeOK, NEW t \in Trades, NEW st \in Statuses, NEW p \in Int, WriteRow(t, st, p)
  PROVE  RowsTypeOK'
<1>1. RowsTypeOK /\ <<t, st, p>> \in Trades \X Statuses \X Int
  BY DEF TypeOK
<1>2. life' \in [Trades -> Statuses] /\ db' \in [Trades -> Statuses] /\ dbPnl' \in [Trades -> Int]
  BY <1>1 DEF WriteRow, RowsTypeOK
<1>3. wal' \subseteq Trades \X Statuses \X Int
  BY <1>1 DEF WriteRow, RowsTypeOK
<1>4. lost' \subseteq Trades /\ dbFails' \in Nat
  BY <1>1 DEF WriteRow, RowsTypeOK
<1> QED BY <1>2, <1>3, <1>4 DEF RowsTypeOK

\* A replay leaves rows of the right type, and nothing in the log.
LEMMA ReplayTypes ==
  ASSUME TypeOK, ReplayWal
  PROVE  /\ db' \in [Trades -> Statuses] /\ dbPnl' \in [Trades -> Int] /\ wal' = {}
<1>1. PICK rows \in [Trades -> UNION {Replayed(t) : t \in Trades}] :
        /\ \A t \in Trades : rows[t] \in Replayed(t)
        /\ db' = [t \in Trades |-> rows[t][1]]
        /\ dbPnl' = [t \in Trades |-> rows[t][2]]
  BY DEF ReplayWal
<1>2. ASSUME NEW t \in Trades, NEW x \in Replayed(t)
      PROVE  x[1] \in Statuses /\ x[2] \in Int
  <2>1. db[t] \in Statuses /\ dbPnl[t] \in Int /\ wal \subseteq Trades \X Statuses \X Int
    BY DEF TypeOK, RowsTypeOK
  <2>2. CASE x = <<db[t], dbPnl[t]>>
    BY <2>1, <2>2
  <2>3. ASSUME NEW w \in wal, x = <<w[2], IF w[2] = "CLOSED" THEN w[3] ELSE dbPnl[t]>>
        PROVE  x[1] \in Statuses /\ x[2] \in Int
    <3>1. w[2] \in Statuses /\ w[3] \in Int
      BY <2>1
    <3> QED BY <2>1, <2>3, <3>1
  <2> QED BY <2>2, <2>3 DEF Replayed
<1>3. wal' = {}
  BY DEF ReplayWal
<1> QED BY <1>1, <1>2, <1>3

LEMMA CloseOutTypes ==
  ASSUME TypeOK, NEW q \in Mail, NEW t \in Trades, NEW e \in Events, CloseOut(q, t, e)
  PROVE  /\ queue' \in [Subscribers -> Seq(Message)] /\ missed' \subseteq Subscribers \X Trades
         /\ pos' \in [Trades -> 0 .. Qty] /\ booked' \in [Trades -> Nat]
         /\ trailed' \subseteq Trades /\ hits' = hits /\ gapped' = gapped
         /\ execPnl' \in Int /\ partialPnl' \in [Trades -> Int]
         /\ RowsTypeOK'
<1>1. PICK p \in PnL :
        /\ pos' = [pos EXCEPT ![t] = 0]
        /\ booked' = [booked EXCEPT ![t] = @ + pos[t]]
        /\ trailed' = trailed \ {t}
        /\ execPnl' = execPnl + p
        /\ WriteRow(t, "CLOSED", p + partialPnl[t])
        /\ partialPnl' = [partialPnl EXCEPT ![t] = 0]
        /\ UNCHANGED <<hits, gapped>>
        /\ Publish(q, Msg(e, t, p))
  BY DEF CloseOut, TotalPnl
<1>2. p \in Int
  BY ConstantsAssumption
<1>3. queue' \in [Subscribers -> Seq(Message)] /\ missed' \subseteq Subscribers \X Trades
  BY <1>1, <1>2, PublishTypes
<1>4. pos' \in [Trades -> 0 .. Qty] /\ booked' \in [Trades -> Nat]
  BY <1>1, ConstantsAssumption DEF TypeOK
<1>5. execPnl' \in Int /\ partialPnl' \in [Trades -> Int]
  BY <1>1, <1>2 DEF TypeOK
<1>6. RowsTypeOK'
  <2>1. "CLOSED" \in Statuses /\ p + partialPnl[t] \in Int
    BY <1>2 DEF TypeOK, Statuses
  <2> QED BY <1>1, <2>1, WriteTypes
<1> QED BY <1>1, <1>3, <1>4, <1>5, <1>6 DEF TypeOK

LEMMA SellTargetTypes ==
  ASSUME TypeOK, NEW t \in Trades, NEW k \in 1 .. 2, NEW g \in SUBSET Trades,
         SellTarget(t, k, g), pos[t] - TargetQty(k) \in 0 .. Qty
  PROVE  TypeOK'
<1>1. PICK p \in PnL :
        /\ execPnl' = execPnl + p
        /\ partialPnl' = [partialPnl EXCEPT ![t] = @ + p]
        /\ Publish(queue, Msg("PARTIAL_EXIT", t, p))
  BY DEF SellTarget
<1>2. p \in Int /\ "PARTIAL_EXIT" \in Events
  BY ConstantsAssumption DEF Events, ExitEvents
<1>3. queue' \in [Subscribers -> Seq(Message)] /\ missed' \subseteq Subscribers \X Trades
  BY <1>1, <1>2, TypeParts, PublishTypes
<1>4. execPnl' \in Int /\ partialPnl' \in [Trades -> Int]
  BY <1>1, <1>2 DEF TypeOK
<1>5. pos' \in [Trades -> 0 .. Qty] /\ booked' \in [Trades -> Nat]
  BY TargetsLeaveRunner DEF SellTarget, TypeOK
<1>6. hits' \in [Trades -> 0 .. 2] /\ gapped' \subseteq Trades
  BY DEF SellTarget, TypeOK
<1> QED BY <1>3, <1>4, <1>5, <1>6
        DEF SellTarget, TypeOK, RowsTypeOK, riskVars, trackVars, dbVars, bounds

LEMMA TakenTypes ==
  ASSUME TypeOK, NEW s \in Subscribers, NEW e, NextIs(s, e)
  PROVE  /\ Taken(s) \in [Subscribers -> Seq(Message)]
         /\ Taken(s) \in Mail
         /\ Head(queue[s]) \in Message
         /\ Head(queue[s]).trade \in Trades /\ Head(queue[s]).pnl \in Int
<1>1. Taken(s) \in Mail /\ Head(queue[s]) \in Message
  BY TypeParts, Taking DEF NextIs
<1> QED BY <1>1 DEF Mail, Message

LEMMA NextTypes ==
  ASSUME TypeOK, StockInv, Next
  PROVE  TypeOK'
<1> USE DEF riskVars, execVars, trackVars, dbVars, busVars, bounds, RowsTypeOK
<1>0. /\ "PROPOSAL" \in Events /\ "RISK_APPROVED" \in Events /\ "ENTRY" \in Events
      /\ ExitEvents \subseteq Events /\ OrderEvents \subseteq Events
      /\ "risk" \in Subscribers /\ "exec" \in Subscribers /\ "track" \in Subscribers
  BY DEF Events, ExitEvents, OrderEvents, Subscribers
<1>1. ASSUME NEW t \in Trades, Propose(t) PROVE TypeOK'
  <2>1. queue' \in [Subscribers -> Seq(Message)] /\ missed' \subseteq Subscribers \X Trades
    BY <1>0, <1>1, PublishNowTypes DEF Propose
  <2>2. RowsTypeOK'
    BY <1>1, WriteTypes DEF Propose, Statuses
  <2> QED BY <1>1, <2>1, <2>2 DEF Propose, TypeOK
<1>2. ASSUME NEW ok \in BOOLEAN, RiskDecide(ok) PROVE TypeOK'
  <2> DEFINE t == Head(queue["risk"]).trade
  <2>1. Taken("risk") \in Mail /\ t \in Trades
    BY <1>0, <1>2, TakenTypes DEF RiskDecide
  <2>2. \/ Publish(Taken("risk"), Msg("RISK_APPROVED", t, 0))
        \/ queue' = Taken("risk") /\ UNCHANGED missed
    BY <1>2 DEF RiskDecide
  <2>3. queue' \in [Subscribers -> Seq(Message)] /\ missed' \subseteq Subscribers \X Trades
    <3>1. CASE Publish(Taken("risk"), Msg("RISK_APPROVED", t, 0))
      <4> HIDE DEF t
      <4> QED BY <1>0, <2>1, <3>1, PublishTypes
    <3>2. CASE queue' = Taken("risk") /\ UNCHANGED missed
      BY <2>1, <3>2 DEF Mail, TypeOK
    <3> QED BY <2>2, <3>1, <3>2
  <2>4. RowsTypeOK'
    BY <1>2, <2>1, WriteTypes DEF RiskDecide, Statuses
  <2> QED BY <1>2, <2>3, <2>4 DEF RiskDecide, TypeOK
<1>3. CASE RiskOnEntry
  BY <1>0, <1>3, TakenTypes DEF RiskOnEntry, TypeOK
<1>4. CASE RiskOnExit
  <2>1. PICK e \in Listed("risk") : NextIs("risk", e)
    BY <1>4 DEF RiskOnExit
  <2>2. /\ Taken("risk") \in [Subscribers -> Seq(Message)]
        /\ Head(queue["risk"]).pnl \in Int
    BY <1>0, <2>1, TakenTypes
  <2>3. riskPnl' \in Int /\ riskOpen' \subseteq Trades
    BY <1>4, <2>2 DEF RiskOnExit, TypeOK
  <2> QED BY <1>4, <2>2, <2>3 DEF RiskOnExit, TypeOK
<1>5. CASE RiskOnUnlisted
  BY <1>0, <1>5, TakenTypes DEF RiskOnUnlisted, TypeOK
<1>6. CASE ExecEnter
  <2> DEFINE t == Head(queue["exec"]).trade
  <2>1. Taken("exec") \in Mail /\ t \in Trades
    BY <1>0, <1>6, TakenTypes DEF ExecEnter
  <2>2. queue' \in [Subscribers -> Seq(Message)] /\ missed' \subseteq Subscribers \X Trades
    BY <1>0, <1>6, <2>1, PublishTypes DEF ExecEnter
  <2>3. RowsTypeOK'
    BY <1>6, <2>1, WriteTypes DEF ExecEnter, Statuses
  <2>4. pos' \in [Trades -> 0 .. Qty] /\ hits' \in [Trades -> 0 .. 2] /\ trailed' \subseteq Trades
    BY <1>6, <2>1, ConstantsAssumption DEF ExecEnter, TypeOK
  <2> QED BY <1>6, <2>2, <2>3, <2>4 DEF ExecEnter, TypeOK
<1>7. CASE ExecNoPrice
  BY <1>0, <1>7, TakenTypes DEF ExecNoPrice, TypeOK
<1>8. ASSUME NEW c \in BOOLEAN, ExecOnOrder(c) PROVE TypeOK'
  <2> DEFINE t == Head(queue["exec"]).trade
             e == IF c THEN "CUSTOM_EXIT" ELSE "EXIT"
  <2>1. Taken("exec") \in Mail /\ t \in Trades /\ e \in Events
    BY <1>0, <1>8, TakenTypes DEF ExecOnOrder, ExitEvents
  <2>2. CASE Held(t)
    <3>1. CloseOut(Taken("exec"), t, e)
      BY <1>8, <2>2 DEF ExecOnOrder
    <3> QED BY <1>8, <2>1, <3>1, CloseOutTypes DEF ExecOnOrder, TypeOK
  <2>3. CASE ~Held(t)
    BY <1>8, <2>1, <2>3 DEF ExecOnOrder, TypeOK, Mail
  <2> QED BY <2>2, <2>3
<1>9. ASSUME NEW t \in Trades, TrailFirst(t) PROVE TypeOK'
  <2>1. PICK g \in {{}, {t}} : SellTarget(t, 1, g)
    BY <1>9 DEF TrailFirst
  <2>2. pos[t] = Qty
    BY <1>9 DEF TrailFirst, StockInv, Remaining, Held
  <2>3. pos[t] - TargetQty(1) \in 0 .. Qty
    BY <2>2, TargetsLeaveRunner, ConstantsAssumption
  <2> QED BY <2>1, <2>3, SellTargetTypes
<1>10. ASSUME NEW t \in Trades, TrailSecond(t) PROVE TypeOK'
  <2>1. pos[t] = Qty - TargetQty(1)
    BY <1>10 DEF TrailSecond, StockInv, Remaining
  <2>2. pos[t] - TargetQty(2) \in 0 .. Qty
    BY <2>1, TargetsLeaveRunner, ConstantsAssumption
  <2> QED BY <1>10, <2>2, SellTargetTypes DEF TrailSecond
<1>11. ASSUME NEW t \in Trades, TrailClose(t) PROVE TypeOK'
  <2>1. "EXIT" \in Events /\ queue \in Mail
    BY <1>0, TypeParts DEF ExitEvents
  <2> QED BY <1>11, <2>1, CloseOutTypes DEF TrailClose, TypeOK
<1>12. CASE TrackOnEntry
  BY <1>0, <1>12, TakenTypes DEF TrackOnEntry, TypeOK
<1>13. CASE TrackOnExit
  BY <1>0, <1>13, TakenTypes DEF TrackOnExit, TypeOK
<1>14. CASE TrackOnUnlisted
  BY <1>0, <1>14, TakenTypes DEF TrackOnUnlisted, TypeOK
<1>15. ASSUME NEW t \in Trades, TriggerExit(t) PROVE TypeOK'
  <2>1. queue' \in [Subscribers -> Seq(Message)] /\ missed' \subseteq Subscribers \X Trades
    BY <1>0, <1>15, PublishNowTypes DEF TriggerExit, OrderEvents
  <2> QED BY <1>15, <2>1 DEF TriggerExit, TypeOK
<1>16. ASSUME NEW t \in Trades, ApiCloseTrade(t) PROVE TypeOK'
  <2>1. queue' \in [Subscribers -> Seq(Message)] /\ missed' \subseteq Subscribers \X Trades
    BY <1>0, <1>16, PublishNowTypes DEF ApiCloseTrade, OrderEvents
  <2> QED BY <1>16, <2>1 DEF ApiCloseTrade, TypeOK
<1>17. ASSUME NEW t \in Trades, NEW e \in OrderEvents, ApiExitMock(t, e) PROVE TypeOK'
  <2>1. queue' \in [Subscribers -> Seq(Message)] /\ missed' \subseteq Subscribers \X Trades
    BY <1>0, <1>17, PublishNowTypes DEF ApiExitMock
  <2> QED BY <1>17, <2>1 DEF ApiExitMock, TypeOK
<1>18. CASE EndOfDay
  BY <1>18 DEF EndOfDay, TypeOK
<1>19. CASE Restart
  <2>1. ReplayWal /\ UNCHANGED dbFails /\ crashes' = crashes + 1
    BY <1>19 DEF Restart, RecoverOpenPositions
  <2>2. lost' \subseteq Trades /\ pos' \in [Trades -> 0 .. Qty]
    BY <1>19, ConstantsAssumption DEF Restart, RecoverOpenPositions, Recovered
  <2>3. life' \in [Trades -> Statuses]
    BY <1>19 DEF Restart, Statuses
  <2>4. RowsTypeOK'
    BY <2>1, <2>2, <2>3, ReplayTypes DEF TypeOK
  <2> QED BY <1>19, <2>1, <2>2, <2>4 DEF Restart, TypeOK
<1> QED BY <1>1, <1>2, <1>3, <1>4, <1>5, <1>6, <1>7, <1>8, <1>9, <1>10, <1>11, <1>12,
           <1>13, <1>14, <1>15, <1>16, <1>17, <1>18, <1>19
        DEF Next, RiskStep, ExecStep, TrackStep

-----------------------------------------------------------------------------
(* What the trailing stop has sold.                                            *)

LEMMA NextStock ==
  ASSUME TypeOK, StockInv, Next
  PROVE  StockInv'
<1> USE DEF riskVars, execVars, trackVars, dbVars, busVars, bounds
<1>1. CASE UNCHANGED <<pos, trailed, hits, gapped>>
  BY <1>1 DEF StockInv, Remaining
<1>2. CASE ExecEnter
  <2> DEFINE t == Head(queue["exec"]).trade
  <2>1. t \in Trades
    BY <1>2, TakenTypes DEF ExecEnter, Subscribers
  <2>2. /\ pos' = [pos EXCEPT ![t] = Qty] /\ trailed' = trailed \cup {t}
        /\ hits' = [hits EXCEPT ![t] = 0] /\ gapped' = {}
    BY <1>2 DEF ExecEnter, Idle
  <2>3. Remaining(0) = Qty
    BY DEF Remaining
  <2>4. ASSUME NEW u \in trailed' PROVE pos'[u] = Remaining(hits'[u])
    <3>1. CASE u = t
      BY <2>1, <2>2, <2>3, <3>1 DEF TypeOK
    <3>2. CASE u # t
      BY <2>1, <2>2, <2>4, <3>2 DEF TypeOK, StockInv
    <3> QED BY <3>1, <3>2
  <2> HIDE DEF t
  <2> QED BY <2>2, <2>4 DEF StockInv
<1>3. ASSUME NEW t \in Trades, NEW e, NEW q, CloseOut(q, t, e), Idle PROVE StockInv'
  BY <1>3 DEF CloseOut, Idle, TypeOK, StockInv, Remaining, TargetQty
<1>4. ASSUME NEW t \in Trades, TrailFirst(t) PROVE StockInv'
  BY <1>4 DEF TrailFirst, SellTarget, TypeOK, StockInv, Remaining, TargetQty
<1>5. ASSUME NEW t \in Trades, TrailSecond(t) PROVE StockInv'
  BY <1>5 DEF TrailSecond, SellTarget, TypeOK, StockInv, Remaining, TargetQty
<1>6. CASE Restart
  BY <1>6 DEF Restart, StockInv
<1>7. ASSUME NEW c \in BOOLEAN, ExecOnOrder(c) PROVE StockInv'
  <2>1. Head(queue["exec"]).trade \in Trades
    BY <1>7, TakenTypes DEF ExecOnOrder, Subscribers
  <2>2. CASE Held(Head(queue["exec"]).trade)
    BY <1>7, <1>3, <2>1, <2>2 DEF ExecOnOrder
  <2>3. CASE ~Held(Head(queue["exec"]).trade)
    BY <1>7, <1>1, <2>3 DEF ExecOnOrder
  <2> QED BY <2>2, <2>3
<1>8. ASSUME NEW t \in Trades, TrailClose(t) PROVE StockInv'
  BY <1>8, <1>3 DEF TrailClose
<1>9. ASSUME NEW t \in Trades, Propose(t) \/ TriggerExit(t) \/ ApiCloseTrade(t)
                                 \/ \E e \in OrderEvents : ApiExitMock(t, e)
      PROVE  StockInv'
  BY <1>9, <1>1 DEF Propose, TriggerExit, ApiCloseTrade, ApiExitMock
<1>10. CASE RiskStep \/ TrackStep \/ ExecNoPrice \/ EndOfDay
  BY <1>10, <1>1 DEF RiskStep, RiskDecide, RiskOnEntry, RiskOnExit, RiskOnUnlisted,
     TrackStep, TrackOnEntry, TrackOnExit, TrackOnUnlisted, ExecNoPrice, EndOfDay
<1> QED BY <1>2, <1>4, <1>5, <1>6, <1>7, <1>8, <1>9, <1>10 DEF Next, ExecStep

-----------------------------------------------------------------------------
(* No ghosts.                                                                  *)

LEMMA NextGhost ==
  ASSUME TypeOK, GhostInv, TypeOK', StockInv, Next
  PROVE  GhostInv'
<1> USE DEF riskVars, execVars, trackVars, dbVars, busVars, bounds
<1> SUFFICES ASSUME NEW s \in Watchers, NEW t \in Trades,
                    pos'[t] # Qty, <<s, t>> \notin missed'
             PROVE  Quiet(queue'[s], (t \in View(s))', t)
  BY DEF GhostInv, Quiet
<1> DEFINE b == t \in View(s)
<1>a. /\ s \in Subscribers /\ b \in BOOLEAN /\ queue \in Mail /\ missed \in Misses
      /\ queue[s] \in Seq(Message) /\ "risk" \in Subscribers /\ "exec" \in Subscribers
      /\ "track" \in Subscribers /\ s # "exec" /\ s \in {"risk", "track"}
  BY TypeParts DEF Watchers, Subscribers, Mail
<1>b. ASSUME missed \subseteq missed', pos[t] # Qty
      PROVE  Quiet(queue[s], b, t)
  BY <1>b DEF GhostInv, Quiet
\* Publishing an event that is no entry and moves neither t nor the views.
<1>c. ASSUME NEW q \in Mail, NEW e \in Events, e # "ENTRY", NEW u \in Trades, NEW p \in Int,
             Publish(q, Msg(e, u, p)), pos[t] # Qty, Quiet(q[s], b, t)
      PROVE  Quiet(queue'[s], b, t)
  <2>1. Msg(e, u, p) \in Message /\ Msg(e, u, p).event # "ENTRY"
    BY <1>c, MsgType
  <2>2. Delivered(q, Msg(e, u, p))
    BY <1>a, <1>c, <2>1, Publishing
  <2> QED BY <1>a, <1>c, <2>1, <2>2, PublishKeepsQuiet
\* Publishing an exit of u together with a change of the position of u only.
<1>d. ASSUME NEW q \in Mail, q[s] = queue[s], NEW e \in ExitEvents, NEW u \in Trades,
             NEW p \in Int, Publish(q, Msg(e, u, p)), u # t => pos'[t] = pos[t],
             UNCHANGED <<riskOpen, tracked>>
      PROVE  Quiet(queue'[s], (t \in View(s))', t)
  <2>1. /\ e \in Events /\ Msg(e, u, p) \in Message
        /\ Msg(e, u, p).event = e /\ Msg(e, u, p).trade = u
    <3>1. e \in Events
      BY DEF Events
    <3> QED BY <3>1, MsgType
  <2>2. Delivered(q, Msg(e, u, p))
    BY <1>a, <1>d, <2>1, Publishing
  <2>3. (t \in View(s))' = b
    BY <1>d DEF View
  <2>4. CASE u = t
    BY <1>a, <1>d, <2>1, <2>2, <2>3, <2>4, ExitMakesQuiet
  <2>5. CASE u # t
    <3>1. Quiet(q[s], b, t)
      BY <1>b, <1>d, <2>2, <2>5 DEF Delivered
    <3>2. ~(Msg(e, u, p).event = "ENTRY" /\ Msg(e, u, p).trade = t)
      BY <2>1, <2>5
    <3> QED BY <1>a, <2>1, <2>2, <2>3, <3>1, <3>2, PublishKeepsQuiet
  <2> QED BY <2>4, <2>5
<1>1. ASSUME NEW u \in Trades, NEW e \in Events, e # "ENTRY", Publish(queue, Msg(e, u, 0)),
             UNCHANGED <<pos, riskOpen, tracked>>
      PROVE  Quiet(queue'[s], (t \in View(s))', t)
  <2>1. (t \in View(s))' = b
    BY <1>1 DEF View
  <2>2. missed \subseteq missed'
    BY <1>1 DEF Publish
  <2>3. Quiet(queue[s], b, t) /\ pos[t] # Qty
    BY <1>1, <1>b, <2>2
  <2>4. Quiet(queue'[s], b, t)
    BY <1>1, <1>a, <1>c, <2>3
  <2> QED BY <2>1, <2>4
\* Taking a message of queue x leaves the other watcher's mail and view alone.
<1>2. ASSUME NEW x \in Subscribers, x # s, queue' = Taken(x), queue[x] # <<>>, (t \in View(s))' = b,
             UNCHANGED <<pos, missed>>
      PROVE  Quiet(queue'[s], (t \in View(s))', t)
  <2>1. queue'[s] = queue[s]
    BY <1>2, <1>a, Taking
  <2> QED BY <1>2, <1>b, <2>1
<1>3. ASSUME NEW u \in Trades, Propose(u) PROVE Quiet(queue'[s], (t \in View(s))', t)
  BY <1>1, <1>3 DEF Propose, Events
<1>4. ASSUME NEW ok \in BOOLEAN, RiskDecide(ok) PROVE Quiet(queue'[s], (t \in View(s))', t)
  <2> DEFINE u == Head(queue["risk"]).trade
  <2>1. /\ queue["risk"] # <<>> /\ Head(queue["risk"]).event = "PROPOSAL"
        /\ UNCHANGED <<pos, riskOpen, tracked>>
        /\ \/ Publish(Taken("risk"), Msg("RISK_APPROVED", u, 0))
           \/ queue' = Taken("risk") /\ UNCHANGED missed
    BY <1>4 DEF RiskDecide, NextIs
  <2>2. Taken("risk") \in Mail /\ u \in Trades
    BY <1>a, <1>4, TakenTypes DEF RiskDecide
  <2>3. missed \subseteq missed' /\ (t \in View(s))' = b
    BY <2>1 DEF Publish, View
  <2>4. pos[t] # Qty /\ Quiet(queue[s], b, t)
    BY <1>b, <2>1, <2>3
  <2>5. Quiet(Taken("risk")[s], b, t)
    <3>1. CASE s = "risk"
      <4>1. Taken("risk")[s] = Tail(queue[s])
        BY <1>a, <2>1, <3>1, Taking
      <4> QED BY <1>a, <2>1, <2>4, <3>1, <4>1, QuietTake DEF ListedExits
    <3>2. CASE s # "risk"
      <4>1. Taken("risk")[s] = queue[s]
        BY <1>a, <2>1, <3>2, Taking
      <4> QED BY <2>4, <4>1
    <3> QED BY <3>1, <3>2
  <2>6. CASE Publish(Taken("risk"), Msg("RISK_APPROVED", u, 0))
    <3>1. "RISK_APPROVED" \in Events /\ 0 \in Int
      BY DEF Events
    <3> HIDE DEF u
    <3>2. Quiet(queue'[s], b, t)
      BY <1>c, <2>2, <2>4, <2>5, <2>6, <3>1
    <3> QED BY <2>3, <3>2
  <2>7. CASE queue' = Taken("risk") /\ UNCHANGED missed
    BY <2>3, <2>5, <2>7
  <2> QED BY <2>1, <2>6, <2>7
<1>5. ASSUME NEW x \in Watchers, NextIs(x, "ENTRY"), queue' = Taken(x),
             UNCHANGED <<pos, missed>>,
             View(x)' = View(x) \cup {Head(queue[x]).trade}, x # s => View(s)' = View(s)
      PROVE  Quiet(queue'[s], (t \in View(s))', t)
  <2>1. queue[x] # <<>> /\ Head(queue[x]).event = "ENTRY" /\ x \in Subscribers
    BY <1>5 DEF NextIs, Watchers, Subscribers
  <2>2. CASE x # s
    BY <1>2, <1>5, <2>1, <2>2
  <2>3. CASE x = s
    <3>1. queue'[s] = Tail(queue[s]) /\ Head(queue[s]).trade \in Trades
      BY <1>a, <1>5, <2>1, <2>3, Taking DEF Message
    <3>2. Quiet(queue[s], b, t)
      BY <1>b, <1>5
    <3>3. CASE Head(queue[s]).trade = t
      BY <1>a, <1>5, <2>1, <2>3, <3>1, <3>2, <3>3, QuietTakeEntry
    <3>4. CASE Head(queue[s]).trade # t
      <4>1. (t \in View(s))' = b
        BY <1>5, <2>3, <3>4
      <4> QED BY <1>a, <2>1, <2>3, <3>1, <3>2, <3>4, <4>1, QuietTake
    <3> QED BY <3>3, <3>4
  <2> QED BY <2>2, <2>3
<1>6. ASSUME NEW x \in Watchers, NEW e \in ListedExits, NextIs(x, e), queue' = Taken(x),
             UNCHANGED <<pos, missed>>,
             View(x)' = View(x) \ {Head(queue[x]).trade}, x # s => View(s)' = View(s)
      PROVE  Quiet(queue'[s], (t \in View(s))', t)
  <2>1. queue[x] # <<>> /\ x \in Subscribers
    BY <1>6 DEF NextIs, Watchers, Subscribers
  <2>2. CASE x # s
    BY <1>2, <1>6, <2>1, <2>2
  <2>3. CASE x = s
    <3>1. queue'[s] = Tail(queue[s])
      BY <1>a, <1>6, <2>1, <2>3, Taking
    <3>2. Quiet(queue[s], b, t)
      BY <1>b, <1>6
    <3>3. CASE Head(queue[s]).trade = t
      <4>1. (t \in View(s))' = FALSE
        BY <1>6, <2>3, <3>3
      <4> QED BY <1>a, <2>1, <2>3, <3>1, <3>2, <4>1, QuietTakeExit
    <3>4. CASE Head(queue[s]).trade # t
      <4>1. (t \in View(s))' = b
        BY <1>6, <2>3, <3>4
      <4> QED BY <1>a, <2>1, <2>3, <3>1, <3>2, <3>4, <4>1, QuietTake
    <3> QED BY <3>3, <3>4
  <2> QED BY <2>2, <2>3
<1>7. ASSUME NEW x \in Watchers, NextIs(x, "CUSTOM_EXIT"), queue' = Taken(x),
             UNCHANGED <<pos, missed, riskOpen, tracked>>
      PROVE  Quiet(queue'[s], (t \in View(s))', t)
  <2>1. queue[x] # <<>> /\ x \in Subscribers /\ Head(queue[x]).event = "CUSTOM_EXIT"
        /\ (t \in View(s))' = b
    BY <1>7 DEF NextIs, Watchers, Subscribers, View
  <2>2. CASE x # s
    BY <1>2, <1>7, <2>1, <2>2
  <2>3. CASE x = s
    <3>1. queue'[s] = Tail(queue[s])
      BY <1>a, <1>7, <2>1, <2>3, Taking
    <3>2. Quiet(queue[s], b, t)
      BY <1>b, <1>7
    <3> QED BY <1>a, <2>1, <2>3, <3>1, <3>2, QuietTake DEF ListedExits
  <2> QED BY <2>2, <2>3
<1>8. CASE RiskOnEntry
  BY <1>5, <1>8 DEF RiskOnEntry, View, Watchers
<1>9. CASE TrackOnEntry
  BY <1>5, <1>9 DEF TrackOnEntry, View, Watchers
<1>10. CASE RiskOnExit
  BY <1>6, <1>10 DEF RiskOnExit, Listed, ListedExits, View, Watchers
<1>11. CASE TrackOnExit
  BY <1>6, <1>11 DEF TrackOnExit, Listed, ListedExits, View, Watchers
<1>12. CASE RiskOnUnlisted \/ TrackOnUnlisted
  BY <1>7, <1>12 DEF RiskOnUnlisted, TrackOnUnlisted, Listed, ExitEvents, Watchers
<1>13. CASE ExecEnter
  <2> DEFINE u == Head(queue["exec"]).trade
  <2>1. /\ queue["exec"] # <<>> /\ pos' = [pos EXCEPT ![u] = Qty]
        /\ Publish(Taken("exec"), Msg("ENTRY", u, 0)) /\ UNCHANGED <<riskOpen, tracked>>
    BY <1>13 DEF ExecEnter, NextIs
  <2>2. Taken("exec") \in Mail /\ u \in Trades
    BY <1>a, <1>13, TakenTypes DEF ExecEnter
  <2>3. u # t /\ pos[t] = pos'[t]
    BY <2>1, <2>2 DEF TypeOK
  <2>4. missed \subseteq missed' /\ (t \in View(s))' = b
    BY <2>1 DEF Publish, View
  <2>5. Taken("exec")[s] = queue[s]
    BY <1>a, <2>1, Taking
  <2>6. Quiet(Taken("exec")[s], b, t)
    BY <1>b, <2>3, <2>4, <2>5
  <2> HIDE DEF u
  <2>7. /\ Msg("ENTRY", u, 0) \in Message /\ Msg("ENTRY", u, 0).trade = u
    BY <2>2, MsgType DEF Events
  <2>8. Delivered(Taken("exec"), Msg("ENTRY", u, 0))
    BY <1>a, <2>1, <2>2, <2>7, Publishing
  <2> QED BY <1>a, <2>2, <2>3, <2>4, <2>6, <2>7, <2>8, PublishKeepsQuiet
<1>14. ASSUME NEW q \in Mail, q[s] = queue[s], NEW u \in Trades, NEW e \in ExitEvents,
              CloseOut(q, u, e), UNCHANGED <<riskOpen, tracked>>
       PROVE  Quiet(queue'[s], (t \in View(s))', t)
  <2>1. PICK p \in PnL : pos' = [pos EXCEPT ![u] = 0] /\ Publish(q, Msg(e, u, p))
    BY <1>14 DEF CloseOut
  <2>2. p \in Int /\ (u # t => pos'[t] = pos[t])
    BY <2>1, ConstantsAssumption DEF TypeOK
  <2> QED BY <1>14, <1>d, <2>1, <2>2
<1>15. ASSUME NEW c \in BOOLEAN, ExecOnOrder(c)
       PROVE  Quiet(queue'[s], (t \in View(s))', t)
  <2> DEFINE u == Head(queue["exec"]).trade
             e == IF c THEN "CUSTOM_EXIT" ELSE "EXIT"
  <2>1. /\ queue["exec"] # <<>> /\ UNCHANGED <<riskOpen, tracked>>
        /\ \/ CloseOut(Taken("exec"), u, e)
           \/ queue' = Taken("exec") /\ UNCHANGED <<pos, missed>>
    BY <1>15 DEF ExecOnOrder, NextIs
  <2>2. Taken("exec") \in Mail /\ u \in Trades /\ e \in ExitEvents
    BY <1>a, <1>15, TakenTypes DEF ExecOnOrder, ExitEvents
  <2>3. Taken("exec")[s] = queue[s]
    BY <1>a, <2>1, Taking
  <2>4. CASE CloseOut(Taken("exec"), u, e)
    <3> HIDE DEF u, e
    <3> QED BY <1>14, <2>1, <2>2, <2>3, <2>4
  <2>5. CASE queue' = Taken("exec") /\ UNCHANGED <<pos, missed>>
    <3>1. (t \in View(s))' = b
      BY <2>1 DEF View
    <3> QED BY <1>a, <1>2, <2>1, <2>5, <3>1
  <2> QED BY <2>1, <2>4, <2>5
<1>16. ASSUME NEW u \in Trades, NEW k, NEW g, SellTarget(u, k, g)
       PROVE  Quiet(queue'[s], (t \in View(s))', t)
  <2>1. PICK p \in PnL : Publish(queue, Msg("PARTIAL_EXIT", u, p))
    BY <1>16 DEF SellTarget
  <2>2. p \in Int /\ (u # t => pos'[t] = pos[t]) /\ "PARTIAL_EXIT" \in ExitEvents
    BY <1>16, ConstantsAssumption DEF SellTarget, TypeOK, ExitEvents
  <2> QED BY <1>16, <1>a, <1>d, <2>1, <2>2 DEF SellTarget
<1>17. ASSUME NEW u \in Trades, TrailFirst(u) \/ TrailSecond(u)
       PROVE  Quiet(queue'[s], (t \in View(s))', t)
  BY <1>16, <1>17 DEF TrailFirst, TrailSecond
<1>18. ASSUME NEW u \in Trades, TrailClose(u)
       PROVE  Quiet(queue'[s], (t \in View(s))', t)
  BY <1>a, <1>14, <1>18 DEF TrailClose, ExitEvents
<1>19. ASSUME NEW u \in Trades, TriggerExit(u) \/ ApiCloseTrade(u)
       PROVE  Quiet(queue'[s], (t \in View(s))', t)
  BY <1>1, <1>19 DEF TriggerExit, ApiCloseTrade, Events, OrderEvents
<1>20. ASSUME NEW u \in Trades, NEW e \in OrderEvents, ApiExitMock(u, e)
       PROVE  Quiet(queue'[s], (t \in View(s))', t)
  BY <1>1, <1>20 DEF ApiExitMock, Events, OrderEvents
<1>21. CASE EndOfDay
  <2>1. (t \in View(s))' = b /\ queue' = queue /\ pos' = pos /\ missed' = missed
    BY <1>21 DEF EndOfDay, View
  <2> QED BY <1>b, <2>1
<1>22. CASE ExecNoPrice
  <2>1. (t \in View(s))' = b /\ queue["exec"] # <<>>
    BY <1>22 DEF ExecNoPrice, View, NextIs
  <2> QED BY <1>2, <1>a, <1>22, <2>1 DEF ExecNoPrice
<1>23. CASE Restart
  <2>1. queue'[s] = <<>> /\ (t \in View(s))' = FALSE
    BY <1>a, <1>23 DEF Restart, View
  <2> QED BY <2>1 DEF Quiet, EntriesCovered
<1> QED BY <1>3, <1>4, <1>8, <1>9, <1>10, <1>11, <1>12, <1>13, <1>15, <1>17, <1>18, <1>19,
           <1>20, <1>21, <1>22, <1>23
        DEF Next, RiskStep, ExecStep, TrackStep

-----------------------------------------------------------------------------
(* The theorems.                                                               *)

LEMMA InitIInv == Init => IInv
<1> SUFFICES ASSUME Init PROVE IInv
  OBVIOUS
<1>1. TypeOK
  <2>1. queue \in [Subscribers -> Seq(Message)]
    BY DEF Init
  <2>2. pos \in [Trades -> 0 .. Qty] /\ hits \in [Trades -> 0 .. 2]
    BY ConstantsAssumption DEF Init
  <2>3. RowsTypeOK
    BY DEF Init, RowsTypeOK, Statuses
  <2>4. /\ partialPnl \in [Trades -> Int]
        /\ booked \in [Trades -> Nat] /\ execPnl \in Int /\ riskPnl \in Int
        /\ manual \in Nat /\ crashes \in Nat
    BY DEF Init
  <2>5. /\ riskOpen \subseteq Trades /\ trailed \subseteq Trades /\ gapped \subseteq Trades
        /\ tracked \subseteq Trades /\ pending \subseteq Trades
        /\ missed \subseteq Subscribers \X Trades /\ eod \in BOOLEAN
    BY DEF Init
  <2> QED BY <2>1, <2>2, <2>3, <2>4, <2>5 DEF TypeOK
<1>2. StockInv
  BY DEF Init, StockInv
<1>3. GhostInv
  <2> SUFFICES ASSUME NEW s \in Watchers, NEW t \in Trades
               PROVE  t \notin View(s) /\ EntriesCovered(queue[s], t)
    BY DEF GhostInv
  <2>1. queue[s] = <<>> /\ t \notin View(s)
    BY DEF Init, View, Watchers, Subscribers
  <2> QED BY <2>1 DEF EntriesCovered
<1> QED BY <1>1, <1>2, <1>3 DEF IInv

LEMMA StutterIInv == IInv /\ UNCHANGED vars => IInv'
<1> SUFFICES ASSUME IInv, UNCHANGED vars PROVE IInv'
  OBVIOUS
<1> USE DEF vars, busVars, riskVars, execVars, trackVars, dbVars, bounds
<1>1. TypeOK'
  BY DEF IInv, TypeOK, RowsTypeOK
<1>2. StockInv'
  BY DEF IInv, StockInv, Remaining
<1>3. GhostInv'
  BY DEF IInv, GhostInv, View
<1> QED BY <1>1, <1>2, <1>3 DEF IInv

\* The strengthened invariant is inductive.
THEOREM InductiveInvariant == Spec => []IInv
<1>1. IInv /\ [Next]_vars => IInv'
  BY NextTypes, NextStock, NextGhost, StutterIInv DEF IInv
<1> QED BY InitIInv, <1>1, PTL DEF Spec

\* Every variable keeps its type; in particular no share of a target is ever
\* more than the position holds (_process_trailing_action subtracts unchecked).
THEOREM TypeCorrect == Spec => []TypeOK
<1>1. IInv => TypeOK
  BY DEF IInv
<1> QED BY <1>1, InductiveInvariant, PTL

\* However messages interleave, whatever the bus loses, the API asks for and the
\* process restarts, the risk manager and the tracker hold no ghost position
\* but those whose exit the bus lost or an unlisted reason hid from them.
THEOREM NoGhostEver == Spec => []NoGhost
<1>1. IInv => NoGhost
  <2> SUFFICES ASSUME IInv, NEW s \in Watchers, NEW t \in View(s)
               PROVE  pos[t] = Qty \/ ExitBeyond(queue[s], 0, t) \/ <<s, t>> \in missed
    BY DEF NoGhost
  <2>1. t \in Trades
    BY DEF IInv, TypeOK, View, Watchers
  <2> QED BY <2>1 DEF IInv, GhostInv
<1> QED BY <1>1, InductiveInvariant, PTL

=============================================================================
