----------------------- MODULE TradeLifecycle_proofs ------------------------
(***************************************************************************)
(* The pipeline's trades walk the life of a trade, and their rows and the  *)
(* log tell which are held: proofs for any trades, quantities, limits,     *)
(* lost messages, failing writes, restarts and exits through the API, on   *)
(* top of the pipeline's inductive invariant.                              *)
(***************************************************************************)
EXTENDS TradePipeline_proofs, Numbers_proofs

Waits(q, e, t) == \E i \in 1 .. Len(q) : q[i].event = e /\ q[i].trade = t

Once(q, e, t) ==
  \A i, j \in 1 .. Len(q) :
    q[i].event = e /\ q[i].trade = t /\ q[j].event = e /\ q[j].trade = t => i = j

\* A message e of a trade waits in q only while the row of the trade says s, and
\* only once: deciding or entering a trade twice is impossible.
MailOf(q, e, d, s) == \A t \in Trades : Waits(q, e, t) => d[t] = s /\ Once(q, e, t)

MailInv(q, d) ==
  /\ MailOf(q["risk"], "PROPOSAL", d, "PENDING")
  /\ MailOf(q["exec"], "RISK_APPROVED", d, "APPROVED")

\* What the process holds is what lives: this is about memory, no row is read.
HeldLives == \A t \in Trades : life[t] = "OPEN" <=> pos[t] > 0

LifeInv == MailInv(queue, life) /\ HeldLives

\* The stage of each trade by its status in the process instead of its row.
lived ==
  [t \in Trades |->
    CASE life[t] = "NONE" -> "idle"
      [] life[t] = "PENDING" -> "proposed"
      [] life[t] = "CANCELLED" -> "vetoed"
      [] life[t] = "APPROVED" -> "approved"
      [] life[t] = "OPEN" -> IF pos[t] = Qty THEN "open" ELSE "reduced"
      [] OTHER -> "closed"]

Lived == INSTANCE TradeLifecycle WITH stage <- lived, held <- pos

\* The abstract step of a step that is no restart.
Walks == [Lived!Next]_<<lived, pos>>

-----------------------------------------------------------------------------
(* Queues. *)

LEMMA AppendOther ==
  ASSUME NEW q \in Seq(Message), NEW m \in Message, NEW e, NEW t \in Trades,
         ~(m.event = e /\ m.trade = t)
  PROVE  /\ Waits(Append(q, m), e, t) => Waits(q, e, t)
         /\ Once(q, e, t) => Once(Append(q, m), e, t)
<1>1. \A i \in 1 .. Len(Append(q, m)) : Append(q, m)[i].event = e /\ Append(q, m)[i].trade = t
        => i \in 1 .. Len(q) /\ Append(q, m)[i] = q[i]
  OBVIOUS
<1> QED BY <1>1 DEF Waits, Once

LEMMA AppendOwn ==
  ASSUME NEW q \in Seq(Message), NEW m \in Message, NEW e, NEW t \in Trades, ~Waits(q, e, t)
  PROVE  Once(Append(q, m), e, t)
<1>1. \A i \in 1 .. Len(Append(q, m)) : Append(q, m)[i].event = e /\ Append(q, m)[i].trade = t
        => i = Len(q) + 1
  BY DEF Waits
<1> QED BY <1>1 DEF Once

LEMMA TailWaits ==
  ASSUME NEW q \in Seq(Message), q # <<>>, NEW e, NEW t \in Trades
  PROVE  /\ Waits(Tail(q), e, t) => Waits(q, e, t)
         /\ Once(q, e, t) => Once(Tail(q), e, t)
<1>1. \A i \in 1 .. Len(Tail(q)) : i + 1 \in 1 .. Len(q) /\ Tail(q)[i] = q[i + 1]
  OBVIOUS
<1>2. \A i, j \in 1 .. Len(Tail(q)) : i + 1 = j + 1 => i = j
  OBVIOUS
<1> QED BY <1>1, <1>2 DEF Waits, Once

LEMMA HeadGone ==
  ASSUME NEW q \in Seq(Message), q # <<>>, NEW e, NEW t \in Trades,
         Head(q).event = e, Head(q).trade = t, Once(q, e, t)
  PROVE  Waits(q, e, t) /\ ~Waits(Tail(q), e, t)
<1>1. 1 \in 1 .. Len(q) /\ q[1] = Head(q)
  OBVIOUS
<1>2. \A i \in 1 .. Len(Tail(q)) : i + 1 \in 1 .. Len(q) /\ i + 1 # 1 /\ Tail(q)[i] = q[i + 1]
  OBVIOUS
<1> QED BY <1>1, <1>2 DEF Waits, Once

LEMMA HeadWaits ==
  ASSUME NEW q \in Seq(Message), q # <<>>
  PROVE  Waits(q, Head(q).event, Head(q).trade)
<1>1. 1 \in 1 .. Len(q) /\ q[1] = Head(q)
  OBVIOUS
<1> QED BY <1>1 DEF Waits

LEMMA MailAppend ==
  ASSUME NEW q \in Seq(Message), NEW m \in Message, NEW e, NEW d, NEW s,
         MailOf(q, e, d, s),
         m.event = e => d[m.trade] = s /\ ~Waits(q, e, m.trade)
  PROVE  MailOf(Append(q, m), e, d, s)
<1> SUFFICES ASSUME NEW t \in Trades, Waits(Append(q, m), e, t)
             PROVE  d[t] = s /\ Once(Append(q, m), e, t)
  BY DEF MailOf
<1>1. CASE m.event = e /\ m.trade = t
  BY <1>1, AppendOwn
<1>2. CASE ~(m.event = e /\ m.trade = t)
  BY <1>2, AppendOther DEF MailOf
<1> QED BY <1>1, <1>2

LEMMA MailTail ==
  ASSUME NEW q \in Seq(Message), q # <<>>, NEW e, NEW d, NEW s, MailOf(q, e, d, s)
  PROVE  MailOf(Tail(q), e, d, s)
BY TailWaits DEF MailOf

LEMMA MailUpdate ==
  ASSUME NEW q, NEW e, NEW d \in [Trades -> Statuses], NEW s, NEW t \in Trades, NEW x,
         MailOf(q, e, d, s), ~Waits(q, e, t)
  PROVE  MailOf(q, e, [d EXCEPT ![t] = x], s)
BY DEF MailOf

-----------------------------------------------------------------------------
(* The bus. *)

LEMMA Names ==
  /\ "risk" \in Subscribers /\ "exec" \in Subscribers /\ "track" \in Subscribers
  /\ "PROPOSAL" \in Events /\ "RISK_APPROVED" \in Events /\ "ENTRY" \in Events
  /\ ExitEvents \subseteq Events /\ OrderEvents \subseteq Events
  /\ \A e \in ExitEvents \cup OrderEvents \cup {"ENTRY"} : e \notin {"PROPOSAL", "RISK_APPROVED"}
BY DEF Subscribers, Events, ExitEvents, OrderEvents

LEMMA MailTaken ==
  ASSUME queue \in Mail, NEW s \in Subscribers, queue[s] # <<>>, NEW d, MailInv(queue, d)
  PROVE  MailInv(Taken(s), d)
<1>1. /\ queue["risk"] \in Seq(Message) /\ queue["exec"] \in Seq(Message)
      /\ Taken(s)[s] = Tail(queue[s]) /\ \A u \in Subscribers : u # s => Taken(s)[u] = queue[u]
  BY Names, Taking DEF Mail
<1>2. \A u \in {"risk", "exec"} : Taken(s)[u] = queue[u] \/ (u = s /\ Taken(s)[u] = Tail(queue[u]))
  BY <1>1, Names
<1> QED BY <1>1, <1>2, MailTail DEF MailInv

LEMMA MailDelivered ==
  ASSUME NEW q \in Mail, NEW m \in Message, Delivered(q, m), NEW d, MailInv(q, d),
         m.event = "PROPOSAL" => d[m.trade] = "PENDING" /\ ~Waits(q["risk"], "PROPOSAL", m.trade),
         m.event = "RISK_APPROVED" => d[m.trade] = "APPROVED" /\ ~Waits(q["exec"], "RISK_APPROVED", m.trade)
  PROVE  MailInv(queue', d)
<1>1. q["risk"] \in Seq(Message) /\ q["exec"] \in Seq(Message)
  BY Names DEF Mail
<1>2. /\ queue'["risk"] = q["risk"] \/ queue'["risk"] = Append(q["risk"], m)
      /\ queue'["exec"] = q["exec"] \/ queue'["exec"] = Append(q["exec"], m)
  BY Names DEF Delivered
<1>3. MailOf(queue'["risk"], "PROPOSAL", d, "PENDING")
  BY <1>1, <1>2, MailAppend DEF MailInv
<1>4. MailOf(queue'["exec"], "RISK_APPROVED", d, "APPROVED")
  BY <1>1, <1>2, MailAppend DEF MailInv
<1> QED BY <1>3, <1>4 DEF MailInv

LEMMA MailPublished ==
  ASSUME TypeOK, NEW q \in Mail, NEW e \in Events, NEW t \in Trades, NEW p \in Int,
         Publish(q, Msg(e, t, p)), NEW d, MailInv(q, d), e \notin {"PROPOSAL", "RISK_APPROVED"}
  PROVE  MailInv(queue', d)
<1>1. Delivered(q, Msg(e, t, p)) /\ Msg(e, t, p) \in Message /\ Msg(e, t, p).event = e
  BY TypeParts, MsgType, Publishing
<1> QED BY <1>1, MailDelivered

\* The row of a trade that nobody will decide or enter may change.
LEMMA MailSettled ==
  ASSUME NEW q, NEW d \in [Trades -> Statuses], NEW t \in Trades, NEW x, MailInv(q, d),
         d[t] \notin {"PENDING", "APPROVED"}
  PROVE  MailInv(q, [d EXCEPT ![t] = x])
<1>1. ~Waits(q["risk"], "PROPOSAL", t) /\ ~Waits(q["exec"], "RISK_APPROVED", t)
  BY DEF MailInv, MailOf
<1> QED BY <1>1, MailUpdate DEF MailInv

-----------------------------------------------------------------------------
(* Rows. *)

LEMMA Writing ==
  ASSUME NEW t \in Trades, NEW st, NEW p, WriteRow(t, st, p)
  PROVE  life' = [life EXCEPT ![t] = st]
BY DEF WriteRow

\* The statuses of the trades that are decided and entered.
LEMMA HeadRow ==
  ASSUME TypeOK, LifeInv
  PROVE  /\ NextIs("risk", "PROPOSAL") => life[Head(queue["risk"]).trade] = "PENDING"
         /\ NextIs("exec", "RISK_APPROVED") => life[Head(queue["exec"]).trade] = "APPROVED"
<1>1. queue["risk"] \in Seq(Message) /\ queue["exec"] \in Seq(Message)
  BY Names, TypeParts DEF Mail
<1>2. ASSUME NextIs("risk", "PROPOSAL") PROVE life[Head(queue["risk"]).trade] = "PENDING"
  <2>1. Waits(queue["risk"], "PROPOSAL", Head(queue["risk"]).trade)
    BY <1>1, <1>2, HeadWaits DEF NextIs
  <2>2. Head(queue["risk"]).trade \in Trades
    BY <1>2, Names, TakenTypes
  <2> QED BY <2>1, <2>2 DEF LifeInv, MailInv, MailOf
<1>3. ASSUME NextIs("exec", "RISK_APPROVED") PROVE life[Head(queue["exec"]).trade] = "APPROVED"
  <2>1. Waits(queue["exec"], "RISK_APPROVED", Head(queue["exec"]).trade)
    BY <1>1, <1>3, HeadWaits DEF NextIs
  <2>2. Head(queue["exec"]).trade \in Trades
    BY <1>3, Names, TakenTypes
  <2> QED BY <2>1, <2>2 DEF LifeInv, MailInv, MailOf
<1> QED BY <1>2, <1>3

-----------------------------------------------------------------------------
(* Stages. *)

LEMMA StageMoves ==
  ASSUME NEW t \in Trades, NEW to, lived'[t] = to,
         \A u \in Trades \ {t} : life'[u] = life[u] /\ pos'[u] = pos[u]
  PROVE  lived' = [lived EXCEPT ![t] = to]
<1>1. \A u \in Trades \ {t} : lived'[u] = lived[u]
  BY DEF lived
<1>2. lived' = [u \in Trades |-> lived'[u]] /\ lived = [u \in Trades |-> lived[u]]
  BY DEF lived
<1> QED BY <1>1, <1>2

LEMMA StageStays ==
  ASSUME UNCHANGED <<life, pos>>
  PROVE  Walks
BY DEF Walks, lived

LEMMA StageValue ==
  ASSUME NEW t \in Trades
  PROVE  /\ lived[t] = (CASE life[t] = "NONE" -> "idle"
                         [] life[t] = "PENDING" -> "proposed"
                         [] life[t] = "CANCELLED" -> "vetoed"
                         [] life[t] = "APPROVED" -> "approved"
                         [] life[t] = "OPEN" -> IF pos[t] = Qty THEN "open" ELSE "reduced"
                         [] OTHER -> "closed")
         /\ lived'[t] = (CASE life'[t] = "NONE" -> "idle"
                          [] life'[t] = "PENDING" -> "proposed"
                          [] life'[t] = "CANCELLED" -> "vetoed"
                          [] life'[t] = "APPROVED" -> "approved"
                          [] life'[t] = "OPEN" -> IF pos'[t] = Qty THEN "open" ELSE "reduced"
                          [] OTHER -> "closed")
BY DEF lived

-----------------------------------------------------------------------------
(* Steps. *)

Keeps == LifeInv' /\ Walks

LEMMA ProposeKeeps ==
  ASSUME TypeOK, LifeInv, NEW t \in Trades, Propose(t)
  PROVE  Keeps
<1> DEFINE m == Msg("PROPOSAL", t, 0)
           d == [life EXCEPT ![t] = "PENDING"]
<1>1. /\ queue \in Mail /\ m \in Message /\ m.event = "PROPOSAL" /\ m.trade = t
      /\ Delivered(queue, m)
  BY TypeParts, Names, MsgType, Publishing DEF Propose
<1>2. life[t] = "NONE" /\ life' = d /\ pos' = pos /\ life \in [Trades -> Statuses]
  BY Writing DEF Propose, TypeOK, RowsTypeOK, execVars
<1>3. MailInv(queue, d)
  BY <1>2, MailSettled DEF LifeInv
<1>4. ~Waits(queue["risk"], "PROPOSAL", t) /\ d[t] = "PENDING"
  BY <1>2 DEF LifeInv, MailInv, MailOf
<1>5. MailInv(queue', life')
  <2> HIDE DEF m, d
  <2> QED BY <1>1, <1>2, <1>3, <1>4, MailDelivered
<1>6. HeldLives'
  BY <1>2 DEF LifeInv, HeldLives
<1>7. lived[t] = "idle" /\ lived'[t] = "proposed"
  BY <1>2, <1>4, StageValue
<1>8. lived' = [lived EXCEPT ![t] = "proposed"]
  BY <1>2, <1>7, StageMoves
<1>9. Lived!Next
  BY <1>2, <1>7, <1>8 DEF Lived!Next, Lived!Propose, Lived!Move
<1> QED BY <1>5, <1>6, <1>9 DEF Keeps, Walks, LifeInv

LEMMA DecideKeeps ==
  ASSUME TypeOK, LifeInv, NEW ok \in BOOLEAN, RiskDecide(ok)
  PROVE  Keeps
<1> DEFINE t == Head(queue["risk"]).trade
           m == Msg("RISK_APPROVED", t, 0)
<1>1. /\ queue \in Mail /\ queue["risk"] # <<>> /\ queue["risk"] \in Seq(Message)
      /\ Head(queue["risk"]).event = "PROPOSAL" /\ t \in Trades
      /\ Taken("risk") \in Mail /\ Taken("risk")["risk"] = Tail(queue["risk"])
      /\ Taken("risk")["exec"] = queue["exec"]
  BY TypeParts, Names, Taking, TakenTypes DEF RiskDecide, NextIs, Mail
<1>2. /\ Waits(queue["risk"], "PROPOSAL", t) /\ life[t] = "PENDING"
      /\ ~Waits(Tail(queue["risk"]), "PROPOSAL", t)
  <2>1. Waits(queue["risk"], "PROPOSAL", t)
    BY <1>1, HeadWaits
  <2>2. life[t] = "PENDING" /\ Once(queue["risk"], "PROPOSAL", t)
    BY <1>1, <2>1 DEF LifeInv, MailInv, MailOf
  <2> HIDE DEF t
  <2>3. Head(queue["risk"]).trade = t
    BY DEF t
  <2> QED BY <1>1, <2>1, <2>2, <2>3, HeadGone
<1>3. PICK s \in {"APPROVED", "CANCELLED"} :
        /\ life' = [life EXCEPT ![t] = s]
        /\ \/ s = "APPROVED" /\ Publish(Taken("risk"), m)
           \/ s = "CANCELLED" /\ queue' = Taken("risk")
  BY <1>1, Writing DEF RiskDecide
<1>4. pos' = pos /\ life \in [Trades -> Statuses]
  BY DEF RiskDecide, TypeOK, RowsTypeOK, execVars
<1>5. MailInv(Taken("risk"), [life EXCEPT ![t] = s])
  <2>1. MailInv(Taken("risk"), life)
    BY <1>1, Names, MailTaken DEF LifeInv
  <2>2. ~Waits(Taken("risk")["exec"], "RISK_APPROVED", t)
    BY <1>1, <1>2 DEF LifeInv, MailInv, MailOf
  <2>3. ~Waits(Taken("risk")["risk"], "PROPOSAL", t)
    BY <1>1, <1>2
  <2> HIDE DEF t
  <2> QED BY <1>1, <1>4, <2>1, <2>2, <2>3, MailUpdate DEF MailInv
<1>6. MailInv(queue', life')
  <2>1. CASE s = "CANCELLED"
    BY <1>3, <1>5, <2>1
  <2>2. CASE s = "APPROVED"
    <3>1. /\ m \in Message /\ m.event = "RISK_APPROVED" /\ m.trade = t
          /\ Delivered(Taken("risk"), m)
      BY <1>1, <1>3, <2>2, TypeParts, Names, MsgType, Publishing
    <3>2. ~Waits(Taken("risk")["exec"], "RISK_APPROVED", t)
      BY <1>1, <1>2 DEF LifeInv, MailInv, MailOf
    <3>3. life'[t] = "APPROVED"
      BY <1>1, <1>3, <1>4, <2>2
    <3> HIDE DEF t, m
    <3> QED BY <1>1, <1>3, <1>5, <3>1, <3>2, <3>3, MailDelivered
  <2> QED BY <2>1, <2>2
<1>7. HeldLives'
  BY <1>2, <1>3, <1>4 DEF LifeInv, HeldLives
<1>8. lived[t] = "proposed" /\ lived'[t] = (IF s = "APPROVED" THEN "approved" ELSE "vetoed")
  <2>1. life'[t] = s
    BY <1>1, <1>3, <1>4
  <2> HIDE DEF t
  <2> QED BY <1>1, <1>2, <2>1, StageValue
<1>9. lived' = [lived EXCEPT ![t] = IF s = "APPROVED" THEN "approved" ELSE "vetoed"]
  <2>1. \A u \in Trades \ {t} : life'[u] = life[u] /\ pos'[u] = pos[u]
    BY <1>3, <1>4
  <2> HIDE DEF t
  <2> QED BY <1>1, <1>8, <2>1, StageMoves
<1>10. Lived!Approve(t) \/ Lived!Veto(t)
  <2> HIDE DEF t
  <2> QED BY <1>4, <1>8, <1>9 DEF Lived!Approve, Lived!Veto, Lived!Move
<1>11. Lived!Next
  BY <1>1, <1>10 DEF Lived!Next
<1> QED BY <1>6, <1>7, <1>11 DEF Keeps, Walks, LifeInv

LEMMA EnterKeeps ==
  ASSUME TypeOK, LifeInv, ExecEnter
  PROVE  Keeps
<1> DEFINE t == Head(queue["exec"]).trade
           d == [life EXCEPT ![t] = "OPEN"]
<1>1. /\ queue \in Mail /\ queue["exec"] # <<>> /\ queue["exec"] \in Seq(Message)
      /\ Head(queue["exec"]).event = "RISK_APPROVED" /\ t \in Trades
      /\ Taken("exec") \in Mail /\ Taken("exec")["exec"] = Tail(queue["exec"])
      /\ Taken("exec")["risk"] = queue["risk"]
  BY TypeParts, Names, Taking, TakenTypes DEF ExecEnter, NextIs, Mail
<1>2. life[t] = "APPROVED" /\ ~Waits(Tail(queue["exec"]), "RISK_APPROVED", t)
  <2>1. Waits(queue["exec"], "RISK_APPROVED", t)
    BY <1>1, HeadWaits
  <2>2. life[t] = "APPROVED" /\ Once(queue["exec"], "RISK_APPROVED", t)
    BY <1>1, <2>1 DEF LifeInv, MailInv, MailOf
  <2> HIDE DEF t
  <2>3. Head(queue["exec"]).trade = t
    BY DEF t
  <2> QED BY <1>1, <2>1, <2>2, <2>3, HeadGone
<1>3. /\ life' = d /\ pos' = [pos EXCEPT ![t] = Qty] /\ Publish(Taken("exec"), Msg("ENTRY", t, 0))
      /\ life \in [Trades -> Statuses] /\ pos \in [Trades -> 0 .. Qty]
  BY <1>1, Writing DEF ExecEnter, TypeOK, RowsTypeOK
<1>4. MailInv(Taken("exec"), d)
  <2>1. MailInv(Taken("exec"), life)
    BY <1>1, Names, MailTaken DEF LifeInv
  <2>2. ~Waits(Taken("exec")["risk"], "PROPOSAL", t)
    BY <1>1, <1>2 DEF LifeInv, MailInv, MailOf
  <2>3. ~Waits(Taken("exec")["exec"], "RISK_APPROVED", t)
    BY <1>1, <1>2
  <2> HIDE DEF t
  <2> QED BY <1>1, <1>3, <2>1, <2>2, <2>3, MailUpdate DEF MailInv, d
<1>5. MailInv(queue', life')
  <2> HIDE DEF t, d
  <2> QED BY <1>1, <1>3, <1>4, Names, MailPublished
<1>6. pos[t] = 0 /\ life'[t] = "OPEN" /\ pos'[t] = Qty /\ Qty > 0
      /\ \A u \in Trades \ {t} : life'[u] = life[u] /\ pos'[u] = pos[u]
  BY <1>1, <1>2, <1>3, ConstantsAssumption DEF LifeInv, HeldLives
<1>7. HeldLives'
  <2> HIDE DEF t, d
  <2> QED BY <1>6 DEF LifeInv, HeldLives
<1>8. lived[t] = "approved" /\ lived' = [lived EXCEPT ![t] = "open"]
  <2> HIDE DEF t
  <2>1. lived[t] = "approved" /\ lived'[t] = "open"
    BY <1>1, <1>2, <1>6, StageValue
  <2> QED BY <1>1, <1>6, <2>1, StageMoves
<1>9. Lived!Open(t)
  <2> HIDE DEF t
  <2> QED BY <1>3, <1>8 DEF Lived!Open, Lived!Move
<1>10. Lived!Next
  BY <1>1, <1>9 DEF Lived!Next
<1> QED BY <1>5, <1>7, <1>10 DEF Keeps, Walks, LifeInv

\* A position that is sold, whoever asked for it.
LEMMA CloseKeeps ==
  ASSUME TypeOK, LifeInv, NEW q \in Mail, MailInv(q, life), NEW t \in Trades, Held(t),
         NEW e \in ExitEvents, CloseOut(q, t, e)
  PROVE  Keeps
<1> DEFINE d == [life EXCEPT ![t] = "CLOSED"]
<1>1. PICK p \in PnL : pos' = [pos EXCEPT ![t] = 0] /\ life' = d /\ Publish(q, Msg(e, t, p))
  BY Writing DEF CloseOut
<1>2. /\ life[t] = "OPEN" /\ pos[t] > 0 /\ p \in Int /\ pos \in [Trades -> 0 .. Qty]
      /\ life \in [Trades -> Statuses]
  BY ConstantsAssumption DEF LifeInv, HeldLives, Held, TypeOK, RowsTypeOK
<1>3. MailInv(q, d)
  BY <1>2, MailSettled
<1>4. MailInv(queue', life')
  <2> HIDE DEF d
  <2> QED BY <1>1, <1>2, <1>3, Names, MailPublished
<1>5. life'[t] = "CLOSED" /\ pos'[t] = 0
      /\ \A u \in Trades \ {t} : life'[u] = life[u] /\ pos'[u] = pos[u]
  BY <1>1, <1>2
<1>6. HeldLives'
  <2> HIDE DEF d
  <2> QED BY <1>5 DEF LifeInv, HeldLives
<1>7. lived[t] \in {"open", "reduced"} /\ lived'[t] = "closed"
  BY <1>2, <1>5, StageValue
<1>8. lived' = [lived EXCEPT ![t] = "closed"]
  BY <1>5, <1>7, StageMoves
<1>9. Lived!Next
  BY <1>1, <1>7, <1>8 DEF Lived!Next, Lived!Close, Lived!Move
<1> QED BY <1>4, <1>6, <1>9 DEF Keeps, Walks, LifeInv

\* A target that is sold leaves a part of the position.
LEMMA SellKeeps ==
  ASSUME TypeOK, LifeInv, NEW t \in Trades, NEW k \in 1 .. 2, NEW g, SellTarget(t, k, g),
         pos[t] > TargetQty(k)
  PROVE  Keeps
<1>1. PICK p \in PnL : pos' = [pos EXCEPT ![t] = pos[t] - TargetQty(k)] /\ life' = life
                        /\ Publish(queue, Msg("PARTIAL_EXIT", t, p))
  BY DEF SellTarget, dbVars
<1>2. /\ TargetQty(k) \in Nat /\ TargetQty(k) > 0 /\ p \in Int /\ pos \in [Trades -> 0 .. Qty]
      /\ queue \in Mail /\ "PARTIAL_EXIT" \in ExitEvents /\ Qty \in Nat
  <2>1. TargetQty(k) \in Nat /\ TargetQty(k) > 0
    <3>1. k = 1 \/ k = 2
      OBVIOUS
    <3> QED BY <3>1, TargetsLeaveRunner
  <2>2. p \in Int /\ Qty \in Nat
    BY ConstantsAssumption
  <2>3. pos \in [Trades -> 0 .. Qty] /\ queue \in Mail
    BY TypeParts DEF TypeOK
  <2>4. "PARTIAL_EXIT" \in ExitEvents
    BY DEF ExitEvents
  <2> QED BY <2>1, <2>2, <2>3, <2>4
<1>3. life[t] = "OPEN"
  BY <1>2 DEF LifeInv, HeldLives
<1>4. MailInv(queue', life')
  BY <1>1, <1>2, Names, MailPublished DEF LifeInv
<1>5. /\ pos'[t] \in 1 .. pos[t] - 1 /\ pos'[t] # Qty /\ life'[t] = "OPEN"
      /\ \A u \in Trades \ {t} : life'[u] = life[u] /\ pos'[u] = pos[u]
  BY <1>1, <1>2, <1>3
<1>6. HeldLives'
  BY <1>3, <1>5 DEF LifeInv, HeldLives
<1>7. lived[t] \in {"open", "reduced"} /\ lived'[t] = "reduced"
  BY <1>3, <1>5, StageValue
<1>8. lived' = [lived EXCEPT ![t] = "reduced"]
  BY <1>5, <1>7, StageMoves
<1>9. pos' = [pos EXCEPT ![t] = pos'[t]]
  BY <1>1, <1>2
<1>10. Lived!Reduce(t)
  BY <1>5, <1>7, <1>8, <1>9 DEF Lived!Reduce, Lived!Move
<1>11. Lived!Next
  BY <1>10 DEF Lived!Next
<1> QED BY <1>4, <1>6, <1>11 DEF Keeps, Walks, LifeInv

\* A step that neither decides, enters nor sells.
LEMMA OthersKeep ==
  ASSUME LifeInv, UNCHANGED <<life, pos>>, MailInv(queue', life)
  PROVE  Keeps
BY StageStays DEF Keeps, LifeInv, HeldLives

LEMMA OrderKeeps ==
  ASSUME TypeOK, LifeInv, NEW t \in Trades, NEW e \in OrderEvents, Publish(queue, Msg(e, t, 0)),
         UNCHANGED <<life, pos>>
  PROVE  Keeps
<1>1. queue \in Mail /\ 0 \in Int
  BY TypeParts
<1>2. MailInv(queue', life)
  BY <1>1, Names, MailPublished DEF LifeInv
<1> QED BY <1>2, OthersKeep

LEMMA TakeKeeps ==
  ASSUME TypeOK, LifeInv, NEW s \in Subscribers, queue[s] # <<>>, queue' = Taken(s),
         UNCHANGED <<life, pos>>
  PROVE  Keeps
BY TypeParts, MailTaken, OthersKeep DEF LifeInv

LEMMA RestartKeeps ==
  ASSUME TypeOK, Restart
  PROVE  LifeInv'
<1>1. queue'["risk"] = <<>> /\ queue'["exec"] = <<>>
  BY Names DEF Restart
<1>2. MailInv(queue', life')
  BY <1>1 DEF MailInv, MailOf, Waits
<1>3. HeldLives'
  BY DEF HeldLives, Restart
<1> QED BY <1>2, <1>3 DEF LifeInv

LEMMA NextKeeps ==
  ASSUME IInv, LifeInv, Next, ~Restart
  PROVE  Keeps
<1> USE DEF riskVars, execVars, trackVars, dbVars, busVars, bounds
<1>0. TypeOK /\ StockInv /\ queue \in Mail
  BY TypeParts DEF IInv
<1>1. ASSUME NEW t \in Trades, Propose(t) PROVE Keeps
  BY <1>0, <1>1, ProposeKeeps
<1>2. ASSUME NEW ok \in BOOLEAN, RiskDecide(ok) PROVE Keeps
  BY <1>0, <1>2, DecideKeeps
<1>3. CASE RiskOnEntry \/ RiskOnExit \/ RiskOnUnlisted
  BY <1>0, <1>3, Names, TakeKeeps DEF RiskOnEntry, RiskOnExit, RiskOnUnlisted, NextIs
<1>4. CASE ExecEnter
  BY <1>0, <1>4, EnterKeeps
<1>5. CASE ExecNoPrice
  BY <1>0, <1>5, Names, TakeKeeps DEF ExecNoPrice, NextIs
<1>6. ASSUME NEW c \in BOOLEAN, ExecOnOrder(c) PROVE Keeps
  <2> DEFINE t == Head(queue["exec"]).trade
             e == IF c THEN "CUSTOM_EXIT" ELSE "EXIT"
  <2>1. /\ queue["exec"] # <<>> /\ Taken("exec") \in Mail /\ t \in Trades /\ e \in ExitEvents
    BY <1>0, <1>6, Names, TakenTypes DEF ExecOnOrder, NextIs, ExitEvents
  <2>2. CASE Held(t)
    <3>1. CloseOut(Taken("exec"), t, e)
      BY <1>6, <2>2 DEF ExecOnOrder
    <3>2. MailInv(Taken("exec"), life)
      BY <1>0, <2>1, Names, MailTaken DEF LifeInv
    <3> HIDE DEF t, e
    <3> QED BY <1>0, <2>1, <2>2, <3>1, <3>2, CloseKeeps
  <2>3. CASE ~Held(t)
    BY <1>0, <1>6, <2>1, <2>3, Names, TakeKeeps DEF ExecOnOrder
  <2> QED BY <2>2, <2>3
<1>7. ASSUME NEW t \in Trades, TrailFirst(t) PROVE Keeps
  <2>1. PICK g \in {{}, {t}} : SellTarget(t, 1, g)
    BY <1>7 DEF TrailFirst
  <2>2. pos[t] = Qty /\ pos[t] > TargetQty(1)
    BY <1>0, <1>7, TargetsLeaveRunner, ConstantsAssumption DEF TrailFirst, StockInv, Remaining, Held
  <2> QED BY <1>0, <2>1, <2>2, SellKeeps
<1>8. ASSUME NEW t \in Trades, TrailSecond(t) PROVE Keeps
  <2>1. pos[t] = Qty - TargetQty(1) /\ pos[t] > TargetQty(2)
    BY <1>0, <1>8, TargetsLeaveRunner, ConstantsAssumption DEF TrailSecond, StockInv, Remaining
  <2> QED BY <1>0, <1>8, <2>1, SellKeeps DEF TrailSecond
<1>9. ASSUME NEW t \in Trades, TrailClose(t) PROVE Keeps
  BY <1>0, <1>9, CloseKeeps DEF TrailClose, ExitEvents, LifeInv
<1>10. CASE TrackOnEntry \/ TrackOnExit \/ TrackOnUnlisted
  BY <1>0, <1>10, Names, TakeKeeps DEF TrackOnEntry, TrackOnExit, TrackOnUnlisted, NextIs
<1>11. ASSUME NEW t \in Trades, TriggerExit(t) PROVE Keeps
  BY <1>0, <1>11, OrderKeeps DEF TriggerExit, OrderEvents
<1>12. ASSUME NEW t \in Trades, ApiCloseTrade(t) PROVE Keeps
  BY <1>0, <1>12, OrderKeeps DEF ApiCloseTrade, OrderEvents
<1>13. ASSUME NEW t \in Trades, NEW e \in OrderEvents, ApiExitMock(t, e) PROVE Keeps
  BY <1>0, <1>13, OrderKeeps DEF ApiExitMock
<1>14. CASE EndOfDay
  BY <1>14, OthersKeep DEF EndOfDay, LifeInv
<1> QED BY <1>1, <1>2, <1>3, <1>4, <1>5, <1>6, <1>7, <1>8, <1>9, <1>10, <1>11, <1>12, <1>13, <1>14
        DEF Next, RiskStep, ExecStep, TrackStep

-----------------------------------------------------------------------------
(* Theorems. *)

LEMMA LifeInvHolds == Spec => []LifeInv
<1>1. Init => LifeInv
  <2> SUFFICES ASSUME Init PROVE LifeInv
    OBVIOUS
  <2>1. MailInv(queue, life)
    BY Names DEF Init, MailInv, MailOf, Waits
  <2>2. HeldLives
    BY DEF Init, HeldLives
  <2> QED BY <2>1, <2>2 DEF LifeInv
<1>2. IInv /\ LifeInv /\ [Next]_vars => LifeInv'
  <2> SUFFICES ASSUME IInv, LifeInv, [Next]_vars PROVE LifeInv'
    OBVIOUS
  <2>1. CASE Restart
    BY <2>1, RestartKeeps DEF IInv
  <2>2. CASE Next /\ ~Restart
    BY <2>2, NextKeeps DEF Keeps
  <2>3. CASE UNCHANGED vars
    BY <2>3 DEF vars, busVars, execVars, dbVars, LifeInv, HeldLives
  <2> QED BY <2>1, <2>2, <2>3
<1> QED BY <1>1, <1>2, InductiveInvariant, PTL DEF Spec

\* A write that fails leaves a trace in the log, or the trade counts as lost.
LEMMA WriteTraced ==
  ASSUME NEW t \in Trades, NEW st, NEW p, WriteRow(t, st, p), TypeOK
  PROVE  /\ wal \subseteq wal' /\ lost \subseteq lost'
         /\ \A u \in Trades \ {t} : db'[u] = db[u]
         /\ \/ db'[t] = st
            \/ db' = db /\ <<t, st, p>> \in wal'
            \/ db' = db /\ t \in lost'
<1>1. db \in [Trades -> Statuses]
  BY DEF TypeOK, RowsTypeOK
<1>2. CASE db' = [db EXCEPT ![t] = st] /\ UNCHANGED <<wal, lost>>
  BY <1>1, <1>2
<1>3. CASE wal' = wal \cup {<<t, st, p>>} /\ UNCHANGED <<db, lost>>
  BY <1>3
<1>4. CASE lost' = lost \cup {t} /\ UNCHANGED <<db, wal>>
  BY <1>4
<1> QED BY <1>2, <1>3, <1>4 DEF WriteRow

\* A trade whose position and row a step leaves alone is told as before.
LEMMA ToldAsBefore ==
  ASSUME RowsMatchPositions, NEW t \in Trades, pos'[t] = pos[t], db'[t] = db[t],
         wal \subseteq wal', lost \subseteq lost'
  PROVE  (db'[t] = "OPEN" <=> pos'[t] > 0) \/ LogTells(t)' \/ t \in lost'
BY DEF RowsMatchPositions, LogTells

\* A trade that is decided is not held: its new status says so too.
LEMMA DecisionRow ==
  ASSUME TypeOK, LifeInv, RowsMatchPositions, NEW t \in Trades,
         NEW st \in {"PENDING", "APPROVED", "CANCELLED"}, WriteRow(t, st, 0),
         life[t] # "OPEN", pos' = pos
  PROVE  RowsMatchPositions'
<1>1. pos[t] = 0
  BY ConstantsAssumption DEF LifeInv, HeldLives, TypeOK
<1>2. wal \subseteq wal' /\ lost \subseteq lost' /\ \A u \in Trades \ {t} : db'[u] = db[u]
  BY WriteTraced
<1>3. db'[t] = st \/ db'[t] = db[t]
  BY WriteTraced
<1>4. (db'[t] = "OPEN" <=> pos'[t] > 0) \/ LogTells(t)' \/ t \in lost'
  <2>1. CASE db'[t] = st
    BY <1>1, <2>1
  <2>2. CASE db'[t] = db[t]
    BY <1>2, <2>2, ToldAsBefore
  <2> QED BY <1>3, <2>1, <2>2
<1>5. \A u \in Trades \ {t} : (db'[u] = "OPEN" <=> pos'[u] > 0) \/ LogTells(u)' \/ u \in lost'
  BY <1>2, ToldAsBefore
<1> QED BY <1>4, <1>5 DEF RowsMatchPositions

\* A position is opened or closed, and the write of its row says so.
LEMMA PositionRow ==
  ASSUME TypeOK, RowsMatchPositions, NEW t \in Trades, NEW st \in {"OPEN", "CLOSED"}, NEW p,
         WriteRow(t, st, p), st = "OPEN" <=> pos'[t] > 0,
         \A u \in Trades \ {t} : pos'[u] = pos[u]
  PROVE  RowsMatchPositions'
<1>1. wal \subseteq wal' /\ lost \subseteq lost' /\ \A u \in Trades \ {t} : db'[u] = db[u]
  BY WriteTraced
<1>2. db'[t] = st \/ <<t, st, p>> \in wal' \/ t \in lost'
  BY WriteTraced
<1>3. <<t, st, p>> \in wal' => LogTells(t)'
  <2> DEFINE w == <<t, st, p>>
  <2>1. w[1] = t /\ w[2] = IF pos'[t] > 0 THEN "OPEN" ELSE "CLOSED"
    OBVIOUS
  <2> QED BY <2>1 DEF LogTells
<1>4. (db'[t] = "OPEN" <=> pos'[t] > 0) \/ LogTells(t)' \/ t \in lost'
  BY <1>2, <1>3
<1>5. \A u \in Trades \ {t} : (db'[u] = "OPEN" <=> pos'[u] > 0) \/ LogTells(u)' \/ u \in lost'
  BY <1>1, ToldAsBefore
<1> QED BY <1>4, <1>5 DEF RowsMatchPositions

LEMMA CloseRow ==
  ASSUME TypeOK, RowsMatchPositions, NEW q, NEW t \in Trades, NEW e, CloseOut(q, t, e)
  PROVE  RowsMatchPositions'
<1>1. PICK p \in PnL : pos' = [pos EXCEPT ![t] = 0] /\ WriteRow(t, "CLOSED", TotalPnl(t, p))
  BY DEF CloseOut
<1>2. pos'[t] = 0 /\ \A u \in Trades \ {t} : pos'[u] = pos[u]
  BY <1>1 DEF TypeOK
<1> QED BY <1>1, <1>2, PositionRow

\* A part is sold: the row stays, and so does what it says.
LEMMA SellRow ==
  ASSUME TypeOK, RowsMatchPositions, NEW t \in Trades, NEW k \in 1 .. 2, NEW g,
         SellTarget(t, k, g), pos[t] > TargetQty(k)
  PROVE  RowsMatchPositions'
<1>1. pos' = [pos EXCEPT ![t] = pos[t] - TargetQty(k)] /\ UNCHANGED <<db, wal, lost>>
  BY DEF SellTarget, dbVars
<1>2. TargetQty(k) \in Nat /\ TargetQty(k) > 0 /\ pos \in [Trades -> 0 .. Qty] /\ Qty \in Nat
  <2>1. k = 1 \/ k = 2
    OBVIOUS
  <2> QED BY <2>1, TargetsLeaveRunner, ConstantsAssumption DEF TypeOK
<1>3. \A u \in Trades : pos'[u] > 0 <=> pos[u] > 0
  BY <1>1, <1>2
<1> QED BY <1>1, <1>3 DEF RowsMatchPositions, LogTells

LEMMA RestRows ==
  ASSUME RowsMatchPositions, UNCHANGED <<pos, db, wal, lost>>
  PROVE  RowsMatchPositions'
BY DEF RowsMatchPositions, LogTells

\* A restart reads what the replay has made of the rows, or loses the open ones.
LEMMA RestartRows ==
  ASSUME Restart
  PROVE  RowsMatchPositions'
BY ConstantsAssumption DEF Restart, RecoverOpenPositions, Recovered, RowsMatchPositions

LEMMA NextRows ==
  ASSUME IInv, LifeInv, RowsMatchPositions, [Next]_vars
  PROVE  RowsMatchPositions'
<1> USE DEF execVars, dbVars
<1>0. TypeOK /\ StockInv
  BY DEF IInv
<1>1. ASSUME NEW t \in Trades, Propose(t) PROVE RowsMatchPositions'
  BY <1>0, <1>1, DecisionRow DEF Propose
<1>2. ASSUME NEW ok \in BOOLEAN, RiskDecide(ok) PROVE RowsMatchPositions'
  <2> DEFINE t == Head(queue["risk"]).trade
  <2>1. t \in Trades /\ life[t] = "PENDING"
    BY <1>0, <1>2, Names, TakenTypes, HeadRow DEF RiskDecide
  <2>2. PICK s \in {"APPROVED", "CANCELLED"} : WriteRow(t, s, 0)
    BY <1>2 DEF RiskDecide
  <2>3. pos' = pos
    BY <1>2 DEF RiskDecide
  <2> HIDE DEF t
  <2> QED BY <1>0, <2>1, <2>2, <2>3, DecisionRow
<1>3. CASE RiskOnEntry \/ RiskOnExit \/ RiskOnUnlisted \/ ExecNoPrice \/ TrackStep \/ EndOfDay
           \/ UNCHANGED vars
  BY <1>3, RestRows
     DEF RiskOnEntry, RiskOnExit, RiskOnUnlisted, ExecNoPrice, TrackStep, TrackOnEntry,
         TrackOnExit, TrackOnUnlisted, EndOfDay, vars
<1>4. CASE ExecEnter
  <2> DEFINE t == Head(queue["exec"]).trade
  <2>1. t \in Trades /\ Qty > 0
    BY <1>0, <1>4, Names, TakenTypes, ConstantsAssumption DEF ExecEnter
  <2>2. pos' = [pos EXCEPT ![t] = Qty] /\ WriteRow(t, "OPEN", 0)
    BY <1>4 DEF ExecEnter
  <2> HIDE DEF t
  <2>3. pos'[t] = Qty /\ \A u \in Trades \ {t} : pos'[u] = pos[u]
    BY <1>0, <2>1, <2>2 DEF TypeOK
  <2> QED BY <1>0, <2>1, <2>2, <2>3, PositionRow
<1>5. ASSUME NEW c \in BOOLEAN, ExecOnOrder(c) PROVE RowsMatchPositions'
  <2> DEFINE t == Head(queue["exec"]).trade
  <2>1. t \in Trades
    BY <1>0, <1>5, Names, TakenTypes DEF ExecOnOrder
  <2>2. CASE Held(t)
    <3>1. CloseOut(Taken("exec"), t, IF c THEN "CUSTOM_EXIT" ELSE "EXIT")
      BY <1>5, <2>2 DEF ExecOnOrder
    <3> HIDE DEF t
    <3> QED BY <1>0, <2>1, <3>1, CloseRow
  <2>3. CASE ~Held(t)
    BY <1>5, <2>3, RestRows DEF ExecOnOrder
  <2> QED BY <2>2, <2>3
<1>6. ASSUME NEW t \in Trades, TrailFirst(t) PROVE RowsMatchPositions'
  <2>1. PICK g \in {{}, {t}} : SellTarget(t, 1, g)
    BY <1>6 DEF TrailFirst
  <2>2. pos[t] > TargetQty(1)
    BY <1>0, <1>6, TargetsLeaveRunner, ConstantsAssumption DEF TrailFirst, StockInv, Remaining, Held
  <2> QED BY <1>0, <2>1, <2>2, SellRow
<1>7. ASSUME NEW t \in Trades, TrailSecond(t) PROVE RowsMatchPositions'
  <2>1. pos[t] > TargetQty(2)
    BY <1>0, <1>7, TargetsLeaveRunner, ConstantsAssumption DEF TrailSecond, StockInv, Remaining
  <2> QED BY <1>0, <1>7, <2>1, SellRow DEF TrailSecond
<1>8. ASSUME NEW t \in Trades, TrailClose(t) PROVE RowsMatchPositions'
  BY <1>0, <1>8, CloseRow DEF TrailClose
<1>9. ASSUME NEW t \in Trades,
             TriggerExit(t) \/ ApiCloseTrade(t) \/ \E e \in OrderEvents : ApiExitMock(t, e)
      PROVE  RowsMatchPositions'
  BY <1>9, RestRows DEF TriggerExit, ApiCloseTrade, ApiExitMock
<1>10. CASE Restart
  BY <1>10, RestartRows
<1> QED BY <1>1, <1>2, <1>3, <1>4, <1>5, <1>6, <1>7, <1>8, <1>9, <1>10 DEF Next, RiskStep, ExecStep

\* The OPEN rows are the executor's positions, whatever the bus loses, whichever
\* writes fail and whenever the process restarts: where they differ, the write
\* that says so is in the log, or no table and no log took it, or the recovery
\* that should have read the row failed.
THEOREM RowsAlwaysMatch == Spec => []RowsMatchPositions
<1>1. Init => RowsMatchPositions
  BY DEF Init, RowsMatchPositions
<1>2. IInv /\ LifeInv /\ RowsMatchPositions /\ [Next]_vars => RowsMatchPositions'
  BY NextRows
<1> QED BY <1>1, <1>2, InductiveInvariant, LifeInvHolds, PTL DEF Spec

\* While no write fails and nothing restarts, the rows tell the trades' lives.
RowsTell == db = life

LEMMA TellingKept ==
  ASSUME MaxDbFails = 0, MaxCrashes = 0, TypeOK, RowsTell, [Next]_vars
  PROVE  RowsTell'
<1> USE DEF dbVars
<1>1. ASSUME NEW t, NEW st, NEW p, WriteRow(t, st, p) PROVE RowsTell'
  BY <1>1 DEF WriteRow, RowsTell, TypeOK, RowsTypeOK
<1>2. ~Restart
  BY DEF Restart, TypeOK
<1>3. ASSUME NEW q, NEW t, NEW e, CloseOut(q, t, e) PROVE RowsTell'
  BY <1>1, <1>3 DEF CloseOut
<1>4. CASE UNCHANGED dbVars
  BY <1>4 DEF RowsTell
<1> QED BY <1>1, <1>2, <1>3, <1>4
        DEF Next, Propose, RiskStep, RiskDecide, RiskOnEntry, RiskOnExit, RiskOnUnlisted, ExecStep,
            ExecEnter, ExecNoPrice, ExecOnOrder, TrailFirst, TrailSecond, SellTarget, TrailClose,
            TrackStep, TrackOnEntry, TrackOnExit, TrackOnUnlisted, TriggerExit, ApiCloseTrade,
            ApiExitMock, EndOfDay, vars

\* As long as no write of a row fails and the process does not restart, every
\* trade walks the life of a trade: the detailed pipeline implements the abstract
\* one.  A restart breaks it, since it brings back the units sold at a target.
THEOREM PipelineImplementsLifecycle ==
  MaxCrashes = 0 /\ MaxDbFails = 0 => (Spec => ImplementsLifecycle)
<1> SUFFICES ASSUME MaxCrashes = 0, MaxDbFails = 0 PROVE Spec => ImplementsLifecycle
  OBVIOUS
<1>1. Init => Lifecycle!Init /\ RowsTell
  BY DEF Init, Lifecycle!Init, stage, RowsTell
<1>2. IInv /\ RowsTell /\ [Next]_vars => RowsTell'
  BY TellingKept DEF IInv
<1>3. IInv /\ LifeInv /\ [Next]_vars => Walks
  <2> SUFFICES ASSUME IInv, LifeInv, [Next]_vars PROVE Walks
    OBVIOUS
  <2>1. CASE UNCHANGED vars
    BY <2>1, StageStays DEF vars, execVars, dbVars
  <2>2. CASE Next
    <3>1. ~Restart
      BY DEF Restart, IInv, TypeOK
    <3> QED BY <2>2, <3>1, NextKeeps DEF Keeps
  <2> QED BY <2>1, <2>2
<1>4. RowsTell /\ RowsTell' /\ Walks => [Lifecycle!Next]_<<stage, pos>>
  <2> SUFFICES ASSUME RowsTell, RowsTell', Walks PROVE [Lifecycle!Next]_<<stage, pos>>
    OBVIOUS
  <2>1. stage = lived /\ stage' = lived'
    BY DEF RowsTell, stage, lived
  <2> QED BY <2>1
          DEF Walks, Lived!Next, Lived!Propose, Lived!Approve, Lived!Veto, Lived!Open, Lived!Reduce,
              Lived!Close, Lived!Move, Lifecycle!Next, Lifecycle!Propose, Lifecycle!Approve,
              Lifecycle!Veto, Lifecycle!Open, Lifecycle!Reduce, Lifecycle!Close, Lifecycle!Move
<1> QED BY <1>1, <1>2, <1>3, <1>4, InductiveInvariant, LifeInvHolds, PTL
        DEF Spec, ImplementsLifecycle, Lifecycle!Spec, Lifecycle!vars

-----------------------------------------------------------------------------
(* A position the tracker waits for has an exit order on its way: proofs for *)
(* any trades, lost messages, exits through the API and restarts, on top of  *)
(* the invariants of the pipeline and of its trades' lives.                  *)

Entered(t) == life[t] \in {"OPEN", "CLOSED"}

Ordered(q, t) == \E i \in DOMAIN q : q[i] = Msg("EXIT_ORDER", t, 0)

\* Why it lasts: the tracker only knows trades that were entered, and those are
\* never entered again, so that a position whose order was read stays closed.
PendingInv ==
  /\ pending \subseteq tracked
  /\ \A t \in tracked : Entered(t)
  /\ \A t \in Trades : Waits(queue["track"], "ENTRY", t) => Entered(t)
  /\ PendingHasOrder

-----------------------------------------------------------------------------
(* Queues. *)

LEMMA OrderStaysBehind ==
  ASSUME NEW q \in Seq(Message), NEW m \in Message, NEW t, Ordered(q, t)
  PROVE  Ordered(Append(q, m), t)
<1>1. PICK i \in DOMAIN q : q[i] = Msg("EXIT_ORDER", t, 0)
  BY DEF Ordered
<1>2. i \in DOMAIN Append(q, m) /\ Append(q, m)[i] = q[i]
  OBVIOUS
<1> QED BY <1>1, <1>2 DEF Ordered

LEMMA OrderMovesUp ==
  ASSUME NEW q \in Seq(Message), q # <<>>, NEW t, Ordered(q, t), Head(q) # Msg("EXIT_ORDER", t, 0)
  PROVE  Ordered(Tail(q), t)
<1>1. PICK i \in DOMAIN q : q[i] = Msg("EXIT_ORDER", t, 0)
  BY DEF Ordered
<1>2. i # 1
  BY <1>1
<1>3. i - 1 \in DOMAIN Tail(q) /\ Tail(q)[i - 1] = q[i]
  BY <1>2
<1> QED BY <1>1, <1>3 DEF Ordered

LEMMA Sending ==
  ASSUME TypeOK, NEW q \in Mail, NEW e \in Events, NEW t \in Trades, NEW p \in Int,
         Publish(q, Msg(e, t, p))
  PROVE  /\ missed \subseteq missed'
         /\ \A u \in Trades : Ordered(q["exec"], u) => Ordered(queue'["exec"], u)
         /\ \A u \in Trades : Waits(queue'["track"], "ENTRY", u) =>
              Waits(q["track"], "ENTRY", u) \/ (e = "ENTRY" /\ u = t)
<1> DEFINE m == Msg(e, t, p)
<1>1. Delivered(q, m) /\ m \in Message /\ m.event = e /\ m.trade = t
  BY TypeParts, MsgType, Publishing
<1> HIDE DEF m
<1>2. q["exec"] \in Seq(Message) /\ q["track"] \in Seq(Message)
  BY Names DEF Mail
<1>3. /\ queue'["exec"] \in {q["exec"], Append(q["exec"], m)}
      /\ queue'["track"] \in {q["track"], Append(q["track"], m)}
      /\ missed \subseteq missed'
  BY <1>1, Names DEF Delivered
<1>4. \A u \in Trades : Ordered(q["exec"], u) => Ordered(queue'["exec"], u)
  BY <1>1, <1>2, <1>3, OrderStaysBehind
<1>5. ASSUME NEW u \in Trades, Waits(queue'["track"], "ENTRY", u), ~(e = "ENTRY" /\ u = t)
      PROVE  Waits(q["track"], "ENTRY", u)
  BY <1>1, <1>2, <1>3, <1>5, AppendOther
<1> QED BY <1>3, <1>4, <1>5

LEMMA Reading ==
  ASSUME TypeOK, NEW s \in Subscribers, queue[s] # <<>>
  PROVE  /\ \A u \in Trades : Ordered(queue["exec"], u) =>
              \/ Ordered(Taken(s)["exec"], u)
              \/ s = "exec" /\ Head(queue["exec"]) = Msg("EXIT_ORDER", u, 0)
         /\ \A u \in Trades : Waits(Taken(s)["track"], "ENTRY", u) => Waits(queue["track"], "ENTRY", u)
<1>1. /\ queue["exec"] \in Seq(Message) /\ queue["track"] \in Seq(Message)
      /\ Taken(s)[s] = Tail(queue[s]) /\ \A u \in Subscribers : u # s => Taken(s)[u] = queue[u]
  BY Names, TypeParts, Taking DEF Mail
<1>2. CASE s = "exec"
  <2>1. Taken(s)["exec"] = Tail(queue["exec"]) /\ Taken(s)["track"] = queue["track"]
    BY <1>1, <1>2, Names
  <2> QED BY <1>1, <1>2, <2>1, OrderMovesUp
<1>3. CASE s # "exec"
  <2>1. Taken(s)["exec"] = queue["exec"]
    BY <1>1, <1>3, Names
  <2>2. Taken(s)["track"] = queue["track"] \/ (s = "track" /\ Taken(s)["track"] = Tail(queue["track"]))
    BY <1>1, Names
  <2> QED BY <1>1, <2>1, <2>2, TailWaits
<1> QED BY <1>2, <1>3

-----------------------------------------------------------------------------
(* Steps. *)

\* What a step owes that asks for no exit and is no restart.
Owes ==
  /\ missed \subseteq missed'
  /\ \A t \in Trades : Entered(t) => Entered(t)'
  /\ \A t \in Trades : Entered(t) /\ pos[t] = 0 => pos'[t] = 0
  /\ \A t \in Trades : Ordered(queue["exec"], t) => Ordered(queue'["exec"], t) \/ pos'[t] = 0
  /\ \A t \in Trades : Waits(queue'["track"], "ENTRY", t) =>
       Waits(queue["track"], "ENTRY", t) \/ Entered(t)'

LEMMA OwesKeeps ==
  ASSUME TypeOK, PendingInv, Owes, pending' \subseteq pending, pending' \subseteq tracked',
         \A t \in tracked' : t \in Trades /\ (t \in tracked \/ Waits(queue["track"], "ENTRY", t))
  PROVE  PendingInv'
<1>1. \A t \in tracked' : Entered(t)'
  BY DEF PendingInv, Owes, TypeOK
<1>2. \A t \in Trades : Waits(queue'["track"], "ENTRY", t) => Entered(t)'
  BY DEF PendingInv, Owes
<1>3. PendingHasOrder'
  <2> SUFFICES ASSUME NEW t \in pending'
               PROVE  pos'[t] = 0 \/ Ordered(queue'["exec"], t) \/ <<"exec", t>> \in missed'
    BY DEF PendingHasOrder, Ordered
  <2>1. t \in Trades /\ t \in pending /\ Entered(t)
    BY DEF TypeOK, PendingInv
  <2>2. pos[t] = 0 \/ Ordered(queue["exec"], t) \/ <<"exec", t>> \in missed
    BY <2>1 DEF PendingInv, PendingHasOrder, Ordered
  <2> QED BY <2>1, <2>2 DEF Owes
<1> QED BY <1>1, <1>2, <1>3 DEF PendingInv

LEMMA TrackerIdle ==
  ASSUME TypeOK, PendingInv, Owes, UNCHANGED trackVars
  PROVE  PendingInv'
<1>1. tracked' = tracked /\ pending' = pending
  BY DEF trackVars
<1> QED BY <1>1, OwesKeeps DEF PendingInv, TypeOK

\* A message is read; who reads an exit order sees to it that nothing is held.
LEMMA ReadingOwes ==
  ASSUME TypeOK, NEW s \in Subscribers, queue[s] # <<>>, queue' = Taken(s),
         UNCHANGED <<missed, life, pos>>,
         s = "exec" => \A t \in Trades : Head(queue["exec"]) = Msg("EXIT_ORDER", t, 0) => pos[t] = 0
  PROVE  Owes
BY Reading DEF Owes, Entered

LEMMA SendingOwes ==
  ASSUME TypeOK, NEW e \in Events, NEW t \in Trades, NEW p \in Int, Publish(queue, Msg(e, t, p)),
         e # "ENTRY",
         \A u \in Trades : Entered(u) => Entered(u)' /\ (pos[u] = 0 => pos'[u] = 0)
  PROVE  Owes
<1>1. queue \in Mail
  BY TypeParts
<1> QED BY <1>1, Sending DEF Owes

LEMMA ProposeOwes ==
  ASSUME TypeOK, NEW t \in Trades, Propose(t)
  PROVE  Owes
<1>1. /\ life[t] = "NONE" /\ life' = [life EXCEPT ![t] = "PENDING"] /\ pos' = pos
      /\ Publish(queue, Msg("PROPOSAL", t, 0))
  BY Writing DEF Propose, execVars
<1>2. \A u \in Trades : Entered(u) => Entered(u)'
  BY <1>1 DEF Entered, TypeOK, RowsTypeOK
<1> QED BY <1>1, <1>2, Names, SendingOwes

LEMMA DecideOwes ==
  ASSUME TypeOK, LifeInv, NEW ok \in BOOLEAN, RiskDecide(ok)
  PROVE  Owes
<1> DEFINE t == Head(queue["risk"]).trade
<1>1. /\ queue["risk"] # <<>> /\ Taken("risk") \in Mail /\ t \in Trades /\ life[t] = "PENDING"
  BY Names, TakenTypes, HeadRow DEF RiskDecide, NextIs
<1>2. /\ pos' = pos
      /\ \/ life' = [life EXCEPT ![t] = "APPROVED"] /\ Publish(Taken("risk"), Msg("RISK_APPROVED", t, 0))
         \/ life' = [life EXCEPT ![t] = "CANCELLED"] /\ queue' = Taken("risk") /\ missed' = missed
  BY <1>1, Writing DEF RiskDecide, execVars
<1> HIDE DEF t
<1>3. \A u \in Trades : Entered(u) => Entered(u)'
  BY <1>1, <1>2 DEF Entered, TypeOK, RowsTypeOK
<1>4. /\ \A u \in Trades : Ordered(queue["exec"], u) => Ordered(Taken("risk")["exec"], u)
      /\ \A u \in Trades : Waits(Taken("risk")["track"], "ENTRY", u) => Waits(queue["track"], "ENTRY", u)
  BY <1>1, Names, Reading
<1>5. CASE queue' = Taken("risk") /\ missed' = missed
  BY <1>2, <1>3, <1>4, <1>5 DEF Owes
<1>6. CASE Publish(Taken("risk"), Msg("RISK_APPROVED", t, 0))
  BY <1>1, <1>2, <1>3, <1>4, <1>6, Names, Sending DEF Owes
<1> QED BY <1>2, <1>5, <1>6

LEMMA EnterOwes ==
  ASSUME TypeOK, LifeInv, ExecEnter
  PROVE  Owes
<1> DEFINE t == Head(queue["exec"]).trade
<1>1. /\ queue["exec"] # <<>> /\ Taken("exec") \in Mail /\ t \in Trades /\ life[t] = "APPROVED"
      /\ Head(queue["exec"]).event = "RISK_APPROVED"
  BY Names, TakenTypes, HeadRow DEF ExecEnter, NextIs
<1>2. /\ pos' = [pos EXCEPT ![t] = Qty] /\ life' = [life EXCEPT ![t] = "OPEN"]
      /\ Publish(Taken("exec"), Msg("ENTRY", t, 0))
  BY <1>1, Writing DEF ExecEnter
<1> HIDE DEF t
<1>3. /\ \A u \in Trades : Entered(u) => u # t
      /\ \A u \in Trades \ {t} : life'[u] = life[u] /\ pos'[u] = pos[u]
      /\ life'[t] = "OPEN"
  <2>1. \A u \in Trades : Entered(u) => u # t
    BY <1>1 DEF Entered
  <2>2. \A u \in Trades \ {t} : life'[u] = life[u] /\ pos'[u] = pos[u]
    BY <1>1, <1>2 DEF TypeOK, RowsTypeOK
  <2>3. life'[t] = "OPEN"
    BY <1>1, <1>2 DEF TypeOK, RowsTypeOK
  <2> QED BY <2>1, <2>2, <2>3
<1>4. \A u \in Trades : Head(queue["exec"]) # Msg("EXIT_ORDER", u, 0)
  BY <1>1 DEF Msg
<1>5. /\ \A u \in Trades : Ordered(queue["exec"], u) => Ordered(Taken("exec")["exec"], u)
      /\ \A u \in Trades : Waits(Taken("exec")["track"], "ENTRY", u) => Waits(queue["track"], "ENTRY", u)
  BY <1>1, <1>4, Names, Reading
<1>6. /\ missed \subseteq missed'
      /\ \A u \in Trades : Ordered(Taken("exec")["exec"], u) => Ordered(queue'["exec"], u)
      /\ \A u \in Trades : Waits(queue'["track"], "ENTRY", u) =>
           Waits(Taken("exec")["track"], "ENTRY", u) \/ u = t
  <2>1. 0 \in Int
    OBVIOUS
  <2> QED BY <1>1, <1>2, <2>1, Names, Sending
<1>7. \A u \in Trades : Entered(u) => Entered(u)' /\ pos'[u] = pos[u]
  BY <1>3 DEF Entered
<1>8. \A u \in Trades : Ordered(queue["exec"], u) => Ordered(queue'["exec"], u)
  BY <1>5, <1>6
<1>9. \A u \in Trades : Waits(queue'["track"], "ENTRY", u) => Waits(queue["track"], "ENTRY", u) \/ u = t
  BY <1>5, <1>6
<1>10. \A u \in Trades : u = t => Entered(u)'
  BY <1>3 DEF Entered
<1>11. \A u \in Trades : Entered(u) /\ pos[u] = 0 => pos'[u] = 0
  BY <1>7
<1> QED BY <1>6, <1>7, <1>8, <1>9, <1>10, <1>11 DEF Owes

\* A position is closed: the order that asked for it, if any, is gone.
LEMMA CloseOwes ==
  ASSUME TypeOK, NEW q \in Mail, NEW t \in Trades, NEW e \in ExitEvents, CloseOut(q, t, e),
         \A u \in Trades : Ordered(queue["exec"], u) => Ordered(q["exec"], u) \/ u = t,
         \A u \in Trades : Waits(q["track"], "ENTRY", u) => Waits(queue["track"], "ENTRY", u)
  PROVE  Owes
<1>1. PICK p \in PnL : /\ pos' = [pos EXCEPT ![t] = 0] /\ life' = [life EXCEPT ![t] = "CLOSED"]
                       /\ Publish(q, Msg(e, t, p))
  BY Writing DEF CloseOut
<1>2. p \in Int /\ e \in Events /\ e # "ENTRY"
  BY ConstantsAssumption, Names DEF ExitEvents
<1>3. \A u \in Trades : /\ Entered(u) => Entered(u)'
                        /\ pos[u] = 0 => pos'[u] = 0
  BY <1>1 DEF Entered, TypeOK, RowsTypeOK
<1>4. pos'[t] = 0
  BY <1>1 DEF TypeOK
<1>5. /\ missed \subseteq missed'
      /\ \A u \in Trades : Ordered(q["exec"], u) => Ordered(queue'["exec"], u)
      /\ \A u \in Trades : Waits(queue'["track"], "ENTRY", u) => Waits(q["track"], "ENTRY", u)
  BY <1>1, <1>2, Sending
<1> QED BY <1>3, <1>4, <1>5 DEF Owes

LEMMA OnOrderOwes ==
  ASSUME TypeOK, NEW c \in BOOLEAN, ExecOnOrder(c)
  PROVE  Owes
<1> DEFINE t == Head(queue["exec"]).trade
           e == IF c THEN "CUSTOM_EXIT" ELSE "EXIT"
<1>1. queue["exec"] # <<>> /\ Taken("exec") \in Mail /\ t \in Trades /\ e \in ExitEvents
  BY Names, TakenTypes DEF ExecOnOrder, NextIs, ExitEvents
<1>2. \A u \in Trades : Head(queue["exec"]) = Msg("EXIT_ORDER", u, 0) => u = t
  BY DEF Msg
<1>3. CASE Held(t)
  <2>1. CloseOut(Taken("exec"), t, e)
    BY <1>3 DEF ExecOnOrder
  <2> HIDE DEF t, e
  <2>2. /\ \A u \in Trades : Ordered(queue["exec"], u) => Ordered(Taken("exec")["exec"], u) \/ u = t
        /\ \A u \in Trades : Waits(Taken("exec")["track"], "ENTRY", u) => Waits(queue["track"], "ENTRY", u)
    BY <1>1, <1>2, Names, Reading
  <2> QED BY <1>1, <2>1, <2>2, CloseOwes
<1>4. CASE ~Held(t)
  <2>1. queue' = Taken("exec") /\ UNCHANGED <<missed, life, pos>>
    BY <1>4 DEF ExecOnOrder, execVars, dbVars
  <2>2. pos[t] = 0
    BY <1>1, <1>4, ConstantsAssumption DEF Held, TypeOK
  <2> HIDE DEF t
  <2> QED BY <1>1, <1>2, <2>1, <2>2, Names, ReadingOwes
<1> QED BY <1>3, <1>4

LEMMA SellOwes ==
  ASSUME TypeOK, NEW t \in Trades, NEW k \in 1 .. 2, NEW g, SellTarget(t, k, g), pos[t] > 0
  PROVE  Owes
<1>1. PICK p \in PnL : /\ pos' = [pos EXCEPT ![t] = @ - TargetQty(k)] /\ life' = life
                       /\ Publish(queue, Msg("PARTIAL_EXIT", t, p))
  BY DEF SellTarget, dbVars
<1>2. p \in Int /\ "PARTIAL_EXIT" \in Events
  BY ConstantsAssumption, Names DEF ExitEvents
<1>3. \A u \in Trades : Entered(u) => Entered(u)' /\ (pos[u] = 0 => pos'[u] = 0)
  BY <1>1 DEF Entered, TypeOK, RowsTypeOK
<1> QED BY <1>1, <1>2, <1>3, SendingOwes

\* The monitor asks for an exit: the order is on its way, or the bus lost it.
LEMMA TriggerKeeps ==
  ASSUME TypeOK, PendingInv, NEW t \in Trades, TriggerExit(t)
  PROVE  PendingInv'
<1>1. /\ t \in tracked /\ pending' = pending \cup {t} /\ tracked' = tracked
      /\ life' = life /\ pos' = pos /\ Publish(queue, Msg("EXIT_ORDER", t, 0))
  BY DEF TriggerExit, execVars, dbVars
<1>2. queue \in Mail /\ 0 \in Int /\ "EXIT_ORDER" \in Events
  BY TypeParts, Names DEF OrderEvents
<1>3. /\ missed \subseteq missed'
      /\ \A u \in Trades : Ordered(queue["exec"], u) => Ordered(queue'["exec"], u)
      /\ \A u \in Trades : Waits(queue'["track"], "ENTRY", u) => Waits(queue["track"], "ENTRY", u)
  BY <1>1, <1>2, Sending
<1>4. Ordered(queue'["exec"], t) \/ <<"exec", t>> \in missed'
  <2> DEFINE m == Msg("EXIT_ORDER", t, 0)
  <2>1. m.event = "EXIT_ORDER" /\ m.trade = t /\ m \in Message
    BY <1>2, MsgType
  <2>2. Receivers("EXIT_ORDER") = {"exec"}
    BY DEF Receivers, OrderEvents
  <2>3. "EXIT_ORDER" \in ListedExits \cup OrderEvents
    BY DEF OrderEvents
  <2>4. Publish(queue, m)
    BY <1>1
  <2> HIDE DEF m
  <2>5. PICK S \in IF BusDrops THEN SUBSET Receivers(m.event) ELSE {Receivers(m.event)} :
          /\ queue' = [s \in Subscribers |-> IF s \in S THEN Append(queue[s], m) ELSE queue[s]]
          /\ missed' = missed \cup
               {<<s, m.trade>> : s \in IF m.event \in ListedExits \cup OrderEvents
                                       THEN Receivers(m.event) \ S
                                       ELSE IF m.event = "CUSTOM_EXIT" THEN Watchers ELSE {}}
    BY <2>4 DEF Publish
  <2>6. /\ queue' = [s \in Subscribers |-> IF s \in S THEN Append(queue[s], m) ELSE queue[s]]
        /\ missed' = missed \cup {<<s, t>> : s \in {"exec"} \ S}
    BY <2>5, <2>1, <2>2, <2>3
  <2>7. CASE "exec" \in S
    <3>1. queue'["exec"] = Append(queue["exec"], m) /\ queue["exec"] \in Seq(Message)
      BY <1>2, <2>6, <2>7, Names DEF Mail
    <3>2. Len(queue["exec"]) + 1 \in DOMAIN queue'["exec"]
          /\ queue'["exec"][Len(queue["exec"]) + 1] = m
      BY <2>1, <3>1
    <3> QED BY <3>2 DEF Ordered, m
  <2>8. CASE "exec" \notin S
    BY <2>6, <2>8
  <2> QED BY <2>7, <2>8
<1>5. PendingHasOrder'
  <2> SUFFICES ASSUME NEW u \in pending'
               PROVE  pos'[u] = 0 \/ Ordered(queue'["exec"], u) \/ <<"exec", u>> \in missed'
    BY DEF PendingHasOrder, Ordered
  <2>1. u = t \/ (u \in pending /\ u \in Trades)
    BY <1>1 DEF TypeOK
  <2>2. u \in pending => pos[u] = 0 \/ Ordered(queue["exec"], u) \/ <<"exec", u>> \in missed
    BY DEF PendingInv, PendingHasOrder, Ordered
  <2> QED BY <1>1, <1>3, <1>4, <2>1, <2>2
<1> QED BY <1>1, <1>3, <1>5 DEF PendingInv, Entered

LEMMA TrackKeeps ==
  ASSUME TypeOK, PendingInv, TrackStep
  PROVE  PendingInv'
<1>1. queue["track"] # <<>> /\ queue' = Taken("track") /\ UNCHANGED <<missed, life, pos>>
  BY DEF TrackStep, TrackOnEntry, TrackOnExit, TrackOnUnlisted, NextIs, dbVars, execVars
<1>2. Owes
  BY <1>1, Names, ReadingOwes
<1> DEFINE t == Head(queue["track"]).trade
<1>3. /\ pending' \subseteq pending /\ pending' \subseteq tracked'
      /\ tracked' \subseteq tracked \/ (NextIs("track", "ENTRY") /\ tracked' = tracked \cup {t})
  BY DEF TrackStep, TrackOnEntry, TrackOnExit, TrackOnUnlisted, trackVars, PendingInv
<1>4. NextIs("track", "ENTRY") => t \in Trades /\ Waits(queue["track"], "ENTRY", t)
  <2> SUFFICES ASSUME NextIs("track", "ENTRY")
               PROVE  t \in Trades /\ Waits(queue["track"], "ENTRY", t)
    OBVIOUS
  <2>1. t \in Trades
    BY Names, TakenTypes
  <2>2. queue["track"] \in Seq(Message)
    BY Names, TypeParts DEF Mail
  <2> QED BY <1>1, <2>1, <2>2, HeadWaits DEF NextIs
<1> HIDE DEF t
<1> QED BY <1>2, <1>3, <1>4, OwesKeeps DEF TypeOK

LEMMA NextKeepsPending ==
  ASSUME IInv, LifeInv, PendingInv, [Next]_vars
  PROVE  PendingInv'
<1>0. TypeOK /\ StockInv
  BY DEF IInv
<1>1. CASE \E t \in Trades : Propose(t)
  BY <1>0, <1>1, ProposeOwes, TrackerIdle DEF Propose
<1>2. CASE RiskStep
  <2>1. CASE \E ok \in BOOLEAN : RiskDecide(ok)
    BY <1>0, <2>1, DecideOwes, TrackerIdle DEF RiskDecide
  <2>2. CASE RiskOnEntry \/ RiskOnExit \/ RiskOnUnlisted
    <3>1. /\ queue["risk"] # <<>> /\ queue' = Taken("risk")
          /\ UNCHANGED <<missed, life, pos>> /\ UNCHANGED trackVars
      BY <2>2 DEF RiskOnEntry, RiskOnExit, RiskOnUnlisted, NextIs, dbVars, execVars
    <3> QED BY <1>0, <3>1, Names, ReadingOwes, TrackerIdle
  <2> QED BY <1>2, <2>1, <2>2 DEF RiskStep
<1>3. CASE ExecStep
  <2>1. CASE ExecEnter
    BY <1>0, <2>1, EnterOwes, TrackerIdle DEF ExecEnter
  <2>2. CASE ExecNoPrice
    <3>1. /\ queue["exec"] # <<>> /\ queue' = Taken("exec") /\ UNCHANGED <<missed, life, pos>>
          /\ UNCHANGED trackVars /\ Head(queue["exec"]).event = "RISK_APPROVED"
      BY <2>2 DEF ExecNoPrice, NextIs, dbVars, execVars
    <3>2. \A t \in Trades : Head(queue["exec"]) # Msg("EXIT_ORDER", t, 0)
      BY <3>1 DEF Msg
    <3> QED BY <1>0, <3>1, <3>2, Names, ReadingOwes, TrackerIdle
  <2>3. CASE \E c \in BOOLEAN : ExecOnOrder(c)
    BY <1>0, <2>3, OnOrderOwes, TrackerIdle DEF ExecOnOrder
  <2> QED BY <1>3, <2>1, <2>2, <2>3 DEF ExecStep
<1>4. CASE TrackStep
  BY <1>0, <1>4, TrackKeeps
<1>5. ASSUME NEW t \in Trades, TrailFirst(t) \/ TrailSecond(t)
      PROVE  PendingInv'
  <2>1. PICK k \in 1 .. 2, g \in {{}, {t}} : SellTarget(t, k, g)
    BY <1>5 DEF TrailFirst, TrailSecond
  <2>2. pos[t] > 0
    BY <1>0, <1>5, TargetsLeaveRunner, ConstantsAssumption
       DEF TrailFirst, TrailSecond, Held, StockInv, Remaining
  <2>3. UNCHANGED trackVars
    BY <2>1 DEF SellTarget
  <2> QED BY <1>0, <2>1, <2>2, <2>3, SellOwes, TrackerIdle
<1>6. ASSUME NEW t \in Trades, TrailClose(t)
      PROVE  PendingInv'
  <2>1. queue \in Mail /\ "EXIT" \in ExitEvents /\ CloseOut(queue, t, "EXIT")
    BY <1>0, <1>6, TypeParts DEF TrailClose, ExitEvents
  <2>2. Owes
    BY <1>0, <2>1, CloseOwes
  <2> QED BY <1>0, <1>6, <2>2, TrackerIdle DEF TrailClose
<1>7. ASSUME NEW t \in Trades, TriggerExit(t)
      PROVE  PendingInv'
  BY <1>0, <1>7, TriggerKeeps
<1>8. ASSUME NEW t \in Trades, NEW e \in OrderEvents, Publish(queue, Msg(e, t, 0)),
             UNCHANGED <<life, pos, trackVars>>
      PROVE  PendingInv'
  <2>1. e \in Events /\ e # "ENTRY" /\ 0 \in Int
    BY Names DEF OrderEvents
  <2>2. \A u \in Trades : Entered(u) => Entered(u)' /\ (pos[u] = 0 => pos'[u] = 0)
    BY <1>8 DEF Entered
  <2> QED BY <1>0, <1>8, <2>1, <2>2, SendingOwes, TrackerIdle
<1>9. ASSUME NEW t \in Trades, ApiCloseTrade(t) \/ \E e \in OrderEvents : ApiExitMock(t, e)
      PROVE  PendingInv'
  BY <1>8, <1>9 DEF ApiCloseTrade, ApiExitMock, OrderEvents, execVars, dbVars
<1>10. CASE EndOfDay \/ UNCHANGED vars
  BY <1>10 DEF EndOfDay, vars, busVars, execVars, dbVars, trackVars, PendingInv, PendingHasOrder,
               Entered
<1>11. CASE Restart
  <2>1. pending' = {} /\ tracked' = {} /\ queue'["track"] = <<>>
    BY <1>11, Names DEF Restart
  <2> QED BY <2>1 DEF PendingInv, PendingHasOrder, Waits
<1> QED BY <1>1, <1>2, <1>3, <1>4, <1>5, <1>6, <1>7, <1>9, <1>10, <1>11 DEF Next

\* A position that the tracker skips because its exit is pending is closed, or
\* an exit order for it waits for the executor, or the bus lost the order.
THEOREM PendingAlwaysOrdered == Spec => []PendingHasOrder
<1>1. Init => PendingInv
  <2> SUFFICES ASSUME Init PROVE PendingInv
    OBVIOUS
  <2>1. pending = {} /\ tracked = {} /\ queue["track"] = <<>>
    BY Names DEF Init
  <2> QED BY <2>1 DEF PendingInv, PendingHasOrder, Waits
<1>2. IInv /\ LifeInv /\ PendingInv /\ [Next]_vars => PendingInv'
  BY NextKeepsPending
<1>3. PendingInv => PendingHasOrder
  BY DEF PendingInv
<1> QED BY <1>1, <1>2, <1>3, InductiveInvariant, LifeInvHolds, PTL DEF Spec

-----------------------------------------------------------------------------
(* The books of the day's P&L. *)

\* What is in the risk manager's mail and brings no P&L says so, and what brings
\* some under a name it does not list is counted among the missed.
Plain(q, gone) ==
  \A i \in 1 .. Len(q) :
    /\ q[i].event \notin ExitEvents => q[i].pnl = 0
    /\ q[i].event = "CUSTOM_EXIT" => <<"risk", q[i].trade>> \in gone

HeardAll(gone) == \A t \in Trades : <<"risk", t>> \notin gone

\* No write of a row has failed and the process has not restarted.
Sound == crashes = 0 /\ dbFails = 0

\* Why the books agree for good: a trade carries a final P&L only once it is
\* closed, so that closing it moves its partial P&L and never adds to an old one.
BooksInv ==
  /\ Sound => \A t \in Trades : life[t] # "CLOSED" => dbPnl[t] = 0
  /\ Plain(queue["risk"], missed)
  /\ BooksAgree

Amounts(q) == [i \in 1 .. Len(q) |-> q[i].pnl]

LEMMA AmountsOf ==
  ASSUME NEW q \in Seq(Message)
  PROVE  Amounts(q) \in Seq(Int) /\ Unread(q) = SumFunction(Amounts(q))
<1> DEFINE M == Message
<1>1. \A m \in M : m.pnl \in Int
  BY DEF Message
<1>2. q \in Seq(M) /\ DOMAIN q = 1 .. Len(q)
  OBVIOUS
<1> HIDE DEF M
<1>3. \A i \in 1 .. Len(q) : q[i] \in M
  BY <1>2
<1>4. Amounts(q) \in Seq(Int)
  BY <1>1, <1>2, <1>3 DEF Amounts
<1> QED BY <1>2, <1>4 DEF Unread, Amounts

LEMMA UnreadType == ASSUME NEW q \in Seq(Message) PROVE Unread(q) \in Int
<1>1. Amounts(q) \in [1 .. Len(q) -> Int] /\ 1 \in Int /\ Len(q) \in Int
  <2>1. Len(q) \in Int
    OBVIOUS
  <2>2. Amounts(q) \in Seq(Int)
    BY AmountsOf
  <2>3. DOMAIN Amounts(q) = 1 .. Len(q)
    BY DEF Amounts
  <2>4. \A i \in 1 .. Len(q) : Amounts(q)[i] \in Int
    BY <2>2, <2>3
  <2>5. Amounts(q) = [i \in 1 .. Len(q) |-> Amounts(q)[i]]
    BY DEF Amounts
  <2> QED BY <2>1, <2>4, <2>5
<1>2. IsFiniteSet(1 .. Len(q))
  BY <1>1, FS_Interval
<1> HIDE DEF Amounts
<1> QED BY <1>1, <1>2, SumType, AmountsOf

LEMMA UnreadAppend ==
  ASSUME NEW q \in Seq(Message), NEW m \in Message
  PROVE  Unread(Append(q, m)) = Unread(q) + m.pnl
<1>1. m.pnl \in Int /\ Append(q, m) \in Seq(Message)
  BY DEF Message
<1>2. Amounts(Append(q, m)) = Append(Amounts(q), m.pnl)
  BY <1>1 DEF Amounts
<1>3. SumFunction(Append(Amounts(q), m.pnl)) = SumFunction(Amounts(q)) + m.pnl
  BY <1>1, AmountsOf, SumAppend
<1> QED BY <1>1, <1>2, <1>3, AmountsOf

LEMMA UnreadTail ==
  ASSUME NEW q \in Seq(Message), q # <<>>
  PROVE  Unread(q) = Head(q).pnl + Unread(Tail(q))
<1>1. Tail(q) \in Seq(Message) /\ Amounts(q) # <<>>
  BY DEF Amounts
<1>2. Amounts(Tail(q)) = Tail(Amounts(q)) /\ Head(Amounts(q)) = Head(q).pnl
  BY DEF Amounts
<1>3. SumFunction(Amounts(q)) = Head(Amounts(q)) + SumFunction(Tail(Amounts(q)))
  BY <1>1, AmountsOf, SumTail
<1> QED BY <1>1, <1>2, <1>3, AmountsOf

LEMMA UnreadNothing == Unread(<<>>) = 0
BY SumNothing DEF Unread

\* What one trade carries may change; the sum follows.
LEMMA CarriedChanged ==
  ASSUME NEW a \in [Trades -> Int], NEW b \in [Trades -> Int],
         NEW c \in [Trades -> Int], NEW d \in [Trades -> Int], NEW t \in Trades,
         \A u \in Trades : u # t => c[u] = a[u] /\ d[u] = b[u]
  PROVE  Carried(c, d) = Carried(a, b) - (a[t] + b[t]) + (c[t] + d[t])
<1> DEFINE f == [u \in Trades |-> a[u] + b[u]]
           g == [u \in Trades |-> c[u] + d[u]]
<1>1. f \in [Trades -> Int] /\ g \in [Trades -> Int] /\ f[t] = a[t] + b[t] /\ g[t] = c[t] + d[t]
  OBVIOUS
<1>2. \A u \in Trades : u # t => g[u] = f[u]
  OBVIOUS
<1> HIDE DEF f, g
<1>3. SumFunction(g) = SumFunction(f) - f[t] + g[t]
  BY <1>1, <1>2, TradesAssumption, SumChanged
<1> QED BY <1>1, <1>3 DEF f, g, Carried

LEMMA CarriedType ==
  ASSUME NEW a \in [Trades -> Int], NEW b \in [Trades -> Int]
  PROVE  Carried(a, b) \in Int
<1> DEFINE f == [u \in Trades |-> a[u] + b[u]]
<1>1. f \in [Trades -> Int]
  OBVIOUS
<1> HIDE DEF f
<1>2. SumFunction(f) \in Int
  BY <1>1, TradesAssumption, SumType
<1> QED BY <1>2 DEF f, Carried

\* A publication reaches the risk manager's books, or is missed.
LEMMA PublishCounts ==
  ASSUME TypeOK, NEW q \in Mail, NEW e \in Events, NEW t \in Trades, NEW p \in Int,
         Publish(q, Msg(e, t, p)), e \notin ExitEvents => p = 0, Plain(q["risk"], missed)
  PROVE  /\ Plain(queue'["risk"], missed')
         /\ HeardAll(missed') => /\ HeardAll(missed)
                                 /\ Unread(queue'["risk"]) = Unread(q["risk"]) + p
<1> DEFINE m == Msg(e, t, p)
<1>1. Delivered(q, m) /\ m \in Message /\ m.event = e /\ m.trade = t /\ m.pnl = p
  BY TypeParts, MsgType, Publishing DEF Msg
<1> HIDE DEF m
<1>2. q["risk"] \in Seq(Message) /\ Unread(q["risk"]) \in Int
  BY Names, UnreadType DEF Mail
<1>3. queue'["risk"] = q["risk"] \/ queue'["risk"] = Append(q["risk"], m)
  BY <1>1, Names DEF Delivered
<1>4. missed \subseteq missed'
  BY <1>1 DEF Delivered
<1>5. /\ e \in ListedExits => queue'["risk"] = Append(q["risk"], m) \/ <<"risk", t>> \in missed'
      /\ e = "CUSTOM_EXIT" => <<"risk", t>> \in missed'
  BY <1>1 DEF Delivered, Watchers
<1>6. Plain(q["risk"], missed')
  BY <1>4 DEF Plain
<1>7. Plain(Append(q["risk"], m), missed')
  <2> SUFFICES ASSUME NEW i \in 1 .. Len(Append(q["risk"], m))
               PROVE  LET n == Append(q["risk"], m)[i]
                      IN  /\ n.event \notin ExitEvents => n.pnl = 0
                          /\ n.event = "CUSTOM_EXIT" => <<"risk", n.trade>> \in missed'
    BY DEF Plain
  <2>1. CASE i \in 1 .. Len(q["risk"])
    <3>1. Append(q["risk"], m)[i] = q["risk"][i]
      BY <1>1, <1>2, <2>1
    <3> QED BY <1>6, <2>1, <3>1 DEF Plain
  <2>2. CASE i \notin 1 .. Len(q["risk"])
    <3>1. Append(q["risk"], m)[i] = m
      BY <1>1, <1>2, <2>2
    <3> QED BY <1>1, <1>5, <3>1
  <2> QED BY <2>1, <2>2
<1>8. ASSUME HeardAll(missed')
      PROVE  Unread(queue'["risk"]) = Unread(q["risk"]) + p
  <2>1. queue'["risk"] = Append(q["risk"], m) \/ (queue'["risk"] = q["risk"] /\ p = 0)
    BY <1>3, <1>5, <1>8 DEF HeardAll, ExitEvents, ListedExits
  <2>2. Unread(Append(q["risk"], m)) = Unread(q["risk"]) + p
    BY <1>1, <1>2, UnreadAppend
  <2>3. p = 0 => Unread(q["risk"]) = Unread(q["risk"]) + p
    BY <1>2
  <2> QED BY <2>1, <2>2, <2>3
<1> QED BY <1>3, <1>4, <1>6, <1>7, <1>8 DEF HeardAll

\* The risk manager takes a message, or somebody else does.
LEMMA TakeCounts ==
  ASSUME TypeOK, NEW s \in Subscribers, queue[s] # <<>>, Plain(queue["risk"], missed)
  PROVE  /\ Taken(s) \in Mail
         /\ Plain(Taken(s)["risk"], missed)
         /\ s # "risk" => Taken(s)["risk"] = queue["risk"]
         /\ s = "risk" => LET m == Head(queue["risk"]) IN
              /\ Unread(queue["risk"]) = m.pnl + Unread(Taken(s)["risk"])
              /\ m.event \notin ExitEvents => m.pnl = 0
              /\ m.event = "CUSTOM_EXIT" => <<"risk", m.trade>> \in missed
<1>1. /\ Taken(s) \in Mail /\ Taken(s)[s] = Tail(queue[s])
      /\ \A u \in Subscribers : u # s => Taken(s)[u] = queue[u]
  BY TypeParts, Taking
<1>2. queue["risk"] \in Seq(Message)
  BY TypeParts, Names DEF Mail
<1>3. CASE s # "risk"
  BY <1>1, <1>3, Names
<1>4. CASE s = "risk"
  <2>1. \A i \in 1 .. Len(Tail(queue["risk"])) : /\ i + 1 \in 1 .. Len(queue["risk"])
                                                 /\ Tail(queue["risk"])[i] = queue["risk"][i + 1]
    BY <1>2, <1>4
  <2>2. Plain(Tail(queue["risk"]), missed)
    BY <2>1 DEF Plain
  <2>3. Unread(queue["risk"]) = Head(queue["risk"]).pnl + Unread(Tail(queue["risk"]))
    BY <1>2, <1>4, UnreadTail
  <2>4. 1 \in 1 .. Len(queue["risk"]) /\ Head(queue["risk"]) = queue["risk"][1]
    BY <1>2, <1>4
  <2>5. /\ Head(queue["risk"]).event \notin ExitEvents => Head(queue["risk"]).pnl = 0
        /\ Head(queue["risk"]).event = "CUSTOM_EXIT" => <<"risk", Head(queue["risk"]).trade>> \in missed
    BY <2>4 DEF Plain
  <2> QED BY <1>1, <1>4, <2>2, <2>3, <2>5
<1> QED BY <1>3, <1>4

LEMMA RestBooks ==
  ASSUME BooksInv, UNCHANGED <<queue, missed, riskPnl, execPnl, partialPnl, dbVars, crashes>>
  PROVE  BooksInv'
<1>1. life' = life /\ dbPnl' = dbPnl /\ dbFails' = dbFails /\ queue'["risk"] = queue["risk"]
  BY DEF dbVars
<1> QED BY <1>1 DEF BooksInv, Plain, BooksAgree, Sound

\* Nothing is realised: the mail alone changes, and what it holds unread does not.
LEMMA QuietBooks ==
  ASSUME TypeOK, BooksInv, UNCHANGED <<execPnl, partialPnl, riskPnl, dbPnl, crashes>>,
         Plain(queue'["risk"], missed'),
         HeardAll(missed') => HeardAll(missed) /\ Unread(queue'["risk"]) = Unread(queue["risk"]),
         Sound' => Sound, \A t \in Trades : life'[t] # "CLOSED" => life[t] # "CLOSED"
  PROVE  BooksInv'
<1>1. Sound' => \A t \in Trades : life'[t] # "CLOSED" => dbPnl'[t] = 0
  BY DEF BooksInv
<1>2. BooksAgree'
  BY DEF BooksInv, BooksAgree, HeardAll, Sound
<1> QED BY <1>1, <1>2 DEF BooksInv

\* A message is published that brings no P&L.
LEMMA NoticeBooks ==
  ASSUME TypeOK, BooksInv, NEW e \in Events, NEW t \in Trades, e \notin ExitEvents,
         Publish(queue, Msg(e, t, 0)),
         UNCHANGED <<execPnl, partialPnl, riskPnl, dbPnl, crashes>>,
         Sound' => Sound, \A u \in Trades : life'[u] # "CLOSED" => life[u] # "CLOSED"
  PROVE  BooksInv'
<1>1. queue \in Mail /\ 0 \in Int /\ Unread(queue["risk"]) \in Int
  BY TypeParts, Names, UnreadType DEF Mail
<1>2. /\ Plain(queue'["risk"], missed')
      /\ HeardAll(missed') => /\ HeardAll(missed)
                              /\ Unread(queue'["risk"]) = Unread(queue["risk"]) + 0
  BY <1>1, PublishCounts DEF BooksInv
<1> QED BY <1>1, <1>2, QuietBooks

\* Somebody other than the risk manager takes a message.
LEMMA OtherTakes ==
  ASSUME TypeOK, BooksInv, NEW s \in Subscribers, s # "risk", queue[s] # <<>>,
         queue' = Taken(s), UNCHANGED <<missed, execPnl, partialPnl, riskPnl, dbVars, crashes>>
  PROVE  BooksInv'
<1>1. queue'["risk"] = queue["risk"]
  BY TakeCounts DEF BooksInv
<1>2. life' = life /\ dbPnl' = dbPnl /\ dbFails' = dbFails
  BY DEF dbVars
<1> QED BY <1>1, <1>2 DEF BooksInv, Plain, BooksAgree, Sound

\* Part of a position is sold: one trade and one message carry the P&L.
LEMMA SellBooks ==
  ASSUME TypeOK, BooksInv, NEW t \in Trades, NEW k \in 1 .. 2, NEW g, SellTarget(t, k, g)
  PROVE  BooksInv'
<1>1. PICK p \in PnL : /\ execPnl' = execPnl + p
                       /\ partialPnl' = [partialPnl EXCEPT ![t] = @ + p]
                       /\ Publish(queue, Msg("PARTIAL_EXIT", t, p))
  BY DEF SellTarget
<1>2. p \in Int /\ queue \in Mail /\ "PARTIAL_EXIT" \in Events /\ "PARTIAL_EXIT" \in ExitEvents
  BY ConstantsAssumption, TypeParts, Names DEF ExitEvents
<1>3. /\ Plain(queue'["risk"], missed')
      /\ HeardAll(missed') => /\ HeardAll(missed)
                              /\ Unread(queue'["risk"]) = Unread(queue["risk"]) + p
  BY <1>1, <1>2, PublishCounts DEF BooksInv
<1>4. UNCHANGED <<riskPnl, life, dbPnl, dbFails, crashes>>
  BY DEF SellTarget, riskVars, dbVars, bounds
<1>5. /\ partialPnl \in [Trades -> Int] /\ partialPnl' \in [Trades -> Int]
      /\ dbPnl \in [Trades -> Int] /\ execPnl \in Int /\ riskPnl \in Int
      /\ partialPnl'[t] = partialPnl[t] + p
      /\ \A u \in Trades : u # t => partialPnl'[u] = partialPnl[u]
  BY <1>1, <1>2 DEF TypeOK, RowsTypeOK
<1>6. /\ Carried(partialPnl, dbPnl) \in Int
      /\ Carried(partialPnl', dbPnl) = Carried(partialPnl, dbPnl) - (partialPnl[t] + dbPnl[t])
                                         + (partialPnl'[t] + dbPnl[t])
  BY <1>5, CarriedType, CarriedChanged
<1>7. Carried(partialPnl', dbPnl) = Carried(partialPnl, dbPnl) + p
  BY <1>2, <1>5, <1>6
<1>8. Unread(queue["risk"]) \in Int
  BY TypeParts, Names, UnreadType DEF Mail
<1>9. ASSUME crashes = 0
      PROVE  /\ dbFails = 0 => execPnl' = Carried(partialPnl', dbPnl')
             /\ HeardAll(missed') => execPnl' = riskPnl' + Unread(queue'["risk"])
  <2>1. /\ dbFails = 0 => execPnl = Carried(partialPnl, dbPnl)
        /\ HeardAll(missed) => execPnl = riskPnl + Unread(queue["risk"])
    BY <1>9 DEF BooksInv, BooksAgree, HeardAll
  <2> QED BY <1>1, <1>2, <1>3, <1>4, <1>5, <1>7, <1>8, <2>1
<1>10. BooksAgree'
  BY <1>4, <1>9 DEF BooksAgree, HeardAll
<1> QED BY <1>3, <1>4, <1>10 DEF BooksInv, Sound

\* The rest of a position is sold: the trade's row takes over what the trade carried.
LEMMA CloseBooks ==
  ASSUME TypeOK, LifeInv, BooksInv, NEW q \in Mail, NEW t \in Trades, Held(t), NEW e \in ExitEvents,
         CloseOut(q, t, e), q["risk"] = queue["risk"], UNCHANGED <<riskPnl, crashes>>
  PROVE  BooksInv'
<1>1. PICK p \in PnL : /\ execPnl' = execPnl + p
                       /\ WriteRow(t, "CLOSED", p + partialPnl[t])
                       /\ partialPnl' = [partialPnl EXCEPT ![t] = 0]
                       /\ Publish(q, Msg(e, t, p))
  BY DEF CloseOut, TotalPnl
<1>2. p \in Int /\ e \in Events
  BY ConstantsAssumption, Names
<1>3. /\ Plain(queue'["risk"], missed')
      /\ HeardAll(missed') => /\ HeardAll(missed)
                              /\ Unread(queue'["risk"]) = Unread(queue["risk"]) + p
  BY <1>1, <1>2, PublishCounts DEF BooksInv
<1>4. Sound' => Sound /\ dbPnl' = [dbPnl EXCEPT ![t] = p + partialPnl[t]]
  BY <1>1 DEF WriteRow, Sound, TypeOK, RowsTypeOK
<1>5. life[t] = "OPEN" /\ life' = [life EXCEPT ![t] = "CLOSED"]
  BY <1>1, Writing DEF LifeInv, HeldLives, Held
<1>6. ASSUME Sound'
      PROVE  /\ execPnl' = Carried(partialPnl', dbPnl')
             /\ \A u \in Trades : life'[u] # "CLOSED" => dbPnl'[u] = 0
  <2>1. /\ partialPnl \in [Trades -> Int] /\ partialPnl' \in [Trades -> Int]
        /\ dbPnl \in [Trades -> Int] /\ dbPnl' \in [Trades -> Int] /\ execPnl \in Int
        /\ partialPnl'[t] = 0 /\ dbPnl'[t] = p + partialPnl[t]
        /\ \A u \in Trades : u # t => partialPnl'[u] = partialPnl[u] /\ dbPnl'[u] = dbPnl[u]
    BY <1>1, <1>2, <1>4, <1>6 DEF TypeOK, RowsTypeOK
  <2>2. dbPnl[t] = 0 /\ execPnl = Carried(partialPnl, dbPnl)
    BY <1>4, <1>5, <1>6 DEF BooksInv, BooksAgree, Sound
  <2>3. /\ Carried(partialPnl, dbPnl) \in Int
        /\ Carried(partialPnl', dbPnl') = Carried(partialPnl, dbPnl) - (partialPnl[t] + dbPnl[t])
                                            + (partialPnl'[t] + dbPnl'[t])
    BY <2>1, CarriedType, CarriedChanged
  <2>4. execPnl' = Carried(partialPnl', dbPnl')
    BY <1>1, <1>2, <2>1, <2>2, <2>3
  <2>5. \A u \in Trades : life'[u] # "CLOSED" => dbPnl'[u] = 0
    BY <1>4, <1>5, <1>6, <2>1 DEF BooksInv, TypeOK, RowsTypeOK
  <2> QED BY <2>4, <2>5
<1>7. ASSUME crashes = 0, HeardAll(missed')
      PROVE  execPnl' = riskPnl' + Unread(queue'["risk"])
  <2>1. execPnl = riskPnl + Unread(queue["risk"])
    BY <1>3, <1>7 DEF BooksInv, BooksAgree, HeardAll
  <2>2. Unread(queue["risk"]) \in Int /\ riskPnl \in Int /\ execPnl \in Int
    BY TypeParts, Names, UnreadType DEF Mail, TypeOK
  <2> QED BY <1>1, <1>2, <1>3, <1>7, <2>1, <2>2
<1>8. BooksAgree'
  BY <1>6, <1>7 DEF BooksAgree, HeardAll, Sound
<1> QED BY <1>3, <1>6, <1>8 DEF BooksInv

\* The risk manager reads: a P&L moves from its mail to its book.
LEMMA RiskBooks ==
  ASSUME TypeOK, BooksInv, RiskOnEntry \/ RiskOnExit \/ RiskOnUnlisted
  PROVE  BooksInv'
<1> DEFINE m == Head(queue["risk"])
<1>1. queue["risk"] # <<>> /\ queue' = Taken("risk") /\ missed' = missed
  BY DEF RiskOnEntry, RiskOnExit, RiskOnUnlisted, NextIs
<1>2. UNCHANGED <<execPnl, partialPnl, life, dbPnl, dbFails, crashes>>
  BY DEF RiskOnEntry, RiskOnExit, RiskOnUnlisted, execVars, dbVars, bounds
<1>3. m.pnl \in Int /\ m.trade \in Trades /\ Taken("risk") \in Mail
  BY <1>1, Names, TakenTypes DEF NextIs
<1>4. /\ Plain(queue'["risk"], missed')
      /\ Unread(queue["risk"]) = m.pnl + Unread(queue'["risk"])
      /\ m.event \notin ExitEvents => m.pnl = 0
      /\ m.event = "CUSTOM_EXIT" => <<"risk", m.trade>> \in missed
  BY <1>1, Names, TakeCounts DEF BooksInv
<1>5. riskPnl' = riskPnl + m.pnl \/ (riskPnl' = riskPnl /\ (m.pnl = 0 \/ ~HeardAll(missed)))
  <2>1. CASE RiskOnExit
    BY <2>1 DEF RiskOnExit
  <2>2. CASE RiskOnEntry
    <3>1. m.event = "ENTRY" /\ riskPnl' = riskPnl
      BY <2>2 DEF RiskOnEntry, NextIs
    <3> QED BY <1>4, <3>1, Names DEF ExitEvents
  <2>3. CASE RiskOnUnlisted
    <3>1. m.event \in ExitEvents \ {"PARTIAL_EXIT", "EXIT"} /\ riskPnl' = riskPnl
      BY <2>3 DEF RiskOnUnlisted, NextIs, Listed, riskVars
    <3> QED BY <1>3, <1>4, <3>1 DEF ExitEvents, HeardAll
  <2> QED BY <2>1, <2>2, <2>3
<1> HIDE DEF m
<1>6. Unread(queue'["risk"]) \in Int /\ riskPnl \in Int
  BY <1>1, <1>3, Names, UnreadType DEF Mail, TypeOK
<1>7. BooksAgree'
  <2>1. SUFFICES ASSUME crashes = 0
                 PROVE  /\ dbFails = 0 => execPnl' = Carried(partialPnl', dbPnl')
                        /\ HeardAll(missed) => execPnl' = riskPnl' + Unread(queue'["risk"])
    BY <1>1, <1>2 DEF BooksAgree, HeardAll
  <2>2. /\ dbFails = 0 => execPnl = Carried(partialPnl, dbPnl)
        /\ HeardAll(missed) => execPnl = riskPnl + Unread(queue["risk"])
    BY <2>1 DEF BooksInv, BooksAgree, HeardAll
  <2> QED BY <1>2, <1>3, <1>4, <1>5, <1>6, <2>2
<1> QED BY <1>2, <1>4, <1>7 DEF BooksInv, Sound

\* A write that decides or enters a trade leaves the P&L of its row alone.
LEMMA WriteBooks ==
  ASSUME TypeOK, NEW t \in Trades, NEW st \in {"PENDING", "APPROVED", "CANCELLED", "OPEN"},
         WriteRow(t, st, 0), life[t] # "CLOSED", UNCHANGED crashes
  PROVE  /\ dbPnl' = dbPnl /\ (Sound' => Sound)
         /\ \A u \in Trades : life'[u] # "CLOSED" => life[u] # "CLOSED"
<1>1. dbPnl' = dbPnl /\ (Sound' => Sound)
  BY DEF WriteRow, Sound, TypeOK, RowsTypeOK
<1>2. life' = [life EXCEPT ![t] = st] /\ life \in [Trades -> Statuses]
  BY Writing DEF TypeOK, RowsTypeOK
<1> QED BY <1>1, <1>2

LEMMA DecideBooks ==
  ASSUME TypeOK, LifeInv, BooksInv, NEW ok \in BOOLEAN, RiskDecide(ok)
  PROVE  BooksInv'
<1> DEFINE t == Head(queue["risk"]).trade
<1>1. /\ queue["risk"] # <<>> /\ Taken("risk") \in Mail /\ t \in Trades /\ life[t] = "PENDING"
      /\ Head(queue["risk"]).event = "PROPOSAL"
  BY Names, TakenTypes, HeadRow DEF RiskDecide, NextIs
<1>2. /\ UNCHANGED <<execPnl, partialPnl, riskPnl, crashes>>
      /\ \/ WriteRow(t, "APPROVED", 0) /\ Publish(Taken("risk"), Msg("RISK_APPROVED", t, 0))
         \/ WriteRow(t, "CANCELLED", 0) /\ queue' = Taken("risk") /\ missed' = missed
  BY DEF RiskDecide, execVars, riskVars, bounds
<1>3. /\ Plain(Taken("risk")["risk"], missed)
      /\ Unread(queue["risk"]) = Head(queue["risk"]).pnl + Unread(Taken("risk")["risk"])
      /\ Head(queue["risk"]).pnl = 0
  BY <1>1, Names, TakeCounts DEF BooksInv, ExitEvents
<1> HIDE DEF t
<1>4. Unread(Taken("risk")["risk"]) \in Int
  BY <1>1, Names, UnreadType DEF Mail
<1>5. Unread(queue["risk"]) = Unread(Taken("risk")["risk"])
  BY <1>3, <1>4
<1>6. /\ dbPnl' = dbPnl /\ (Sound' => Sound)
      /\ \A u \in Trades : life'[u] # "CLOSED" => life[u] # "CLOSED"
  BY <1>1, <1>2, WriteBooks
<1>7. CASE queue' = Taken("risk") /\ missed' = missed
  BY <1>2, <1>3, <1>5, <1>6, <1>7, QuietBooks
<1>8. CASE Publish(Taken("risk"), Msg("RISK_APPROVED", t, 0))
  <2>1. 0 \in Int /\ "RISK_APPROVED" \notin ExitEvents
    BY DEF ExitEvents
  <2>2. /\ Plain(queue'["risk"], missed')
        /\ HeardAll(missed') => /\ HeardAll(missed)
                                /\ Unread(queue'["risk"]) = Unread(Taken("risk")["risk"]) + 0
    BY <1>1, <1>3, <1>8, <2>1, Names, PublishCounts
  <2> QED BY <1>2, <1>4, <1>5, <1>6, <2>2, QuietBooks
<1> QED BY <1>2, <1>7, <1>8

LEMMA EnterBooks ==
  ASSUME TypeOK, LifeInv, BooksInv, ExecEnter
  PROVE  BooksInv'
<1> DEFINE t == Head(queue["exec"]).trade
<1>1. /\ queue["exec"] # <<>> /\ Taken("exec") \in Mail /\ t \in Trades /\ life[t] = "APPROVED"
  BY Names, TakenTypes, HeadRow DEF ExecEnter, NextIs
<1>2. /\ UNCHANGED <<execPnl, partialPnl, riskPnl, crashes>>
      /\ WriteRow(t, "OPEN", 0) /\ Publish(Taken("exec"), Msg("ENTRY", t, 0))
  BY DEF ExecEnter, riskVars, bounds
<1> HIDE DEF t
<1>3. /\ dbPnl' = dbPnl /\ (Sound' => Sound)
      /\ \A u \in Trades : life'[u] # "CLOSED" => life[u] # "CLOSED"
  BY <1>1, <1>2, WriteBooks
<1>4. Taken("exec")["risk"] = queue["risk"] /\ Plain(Taken("exec")["risk"], missed)
  BY <1>1, Names, TakeCounts DEF BooksInv
<1>5. 0 \in Int /\ "ENTRY" \notin ExitEvents /\ Unread(queue["risk"]) \in Int
  BY TypeParts, Names, UnreadType DEF Mail, ExitEvents
<1>6. /\ Plain(queue'["risk"], missed')
      /\ HeardAll(missed') => /\ HeardAll(missed)
                              /\ Unread(queue'["risk"]) = Unread(Taken("exec")["risk"]) + 0
  BY <1>1, <1>2, <1>4, <1>5, Names, PublishCounts
<1> QED BY <1>2, <1>3, <1>4, <1>5, <1>6, QuietBooks

LEMMA NextBooks ==
  ASSUME IInv, LifeInv, BooksInv, [Next]_vars
  PROVE  BooksInv'
<1>0. TypeOK /\ StockInv /\ queue \in Mail
  BY TypeParts DEF IInv
<1>1. ASSUME NEW t \in Trades, Propose(t) PROVE BooksInv'
  <2>1. /\ Publish(queue, Msg("PROPOSAL", t, 0)) /\ UNCHANGED <<execPnl, partialPnl, riskPnl, crashes>>
        /\ "PROPOSAL" \notin ExitEvents /\ WriteRow(t, "PENDING", 0) /\ life[t] # "CLOSED"
    BY <1>1 DEF Propose, execVars, riskVars, bounds, ExitEvents
  <2>2. /\ dbPnl' = dbPnl /\ (Sound' => Sound)
        /\ \A u \in Trades : life'[u] # "CLOSED" => life[u] # "CLOSED"
    BY <1>0, <2>1, WriteBooks
  <2> QED BY <1>0, <2>1, <2>2, Names, NoticeBooks
<1>2. CASE RiskStep
  BY <1>0, <1>2, RiskBooks, DecideBooks DEF RiskStep
<1>3. CASE ExecEnter
  BY <1>0, <1>3, EnterBooks
<1>4. CASE ExecNoPrice
  <2>1. /\ queue["exec"] # <<>> /\ queue' = Taken("exec")
        /\ UNCHANGED <<missed, execPnl, partialPnl, riskPnl, dbVars, crashes>>
    BY <1>4 DEF ExecNoPrice, NextIs, execVars, riskVars, bounds
  <2> QED BY <1>0, <2>1, Names, OtherTakes
<1>5. ASSUME NEW c \in BOOLEAN, ExecOnOrder(c) PROVE BooksInv'
  <2> DEFINE t == Head(queue["exec"]).trade
             e == IF c THEN "CUSTOM_EXIT" ELSE "EXIT"
  <2>1. queue["exec"] # <<>> /\ Taken("exec") \in Mail /\ t \in Trades /\ e \in ExitEvents
    BY <1>0, <1>5, Names, TakenTypes DEF ExecOnOrder, NextIs, ExitEvents
  <2>2. UNCHANGED <<riskPnl, crashes>>
    BY <1>5 DEF ExecOnOrder, riskVars, bounds
  <2>3. CASE Held(t)
    <3>1. CloseOut(Taken("exec"), t, e)
      BY <1>5, <2>3 DEF ExecOnOrder
    <3> HIDE DEF t, e
    <3>2. Taken("exec")["risk"] = queue["risk"]
      BY <1>0, <2>1, Names, TakeCounts DEF BooksInv
    <3> QED BY <1>0, <2>1, <2>2, <2>3, <3>1, <3>2, CloseBooks
  <2>4. CASE ~Held(t)
    <3>1. queue' = Taken("exec") /\ UNCHANGED <<missed, execPnl, partialPnl, dbVars>>
      BY <1>5, <2>4 DEF ExecOnOrder, execVars
    <3> QED BY <1>0, <2>1, <2>2, <3>1, Names, OtherTakes
  <2> QED BY <2>3, <2>4
<1>6. CASE TrackStep
  <2>1. /\ queue["track"] # <<>> /\ queue' = Taken("track")
        /\ UNCHANGED <<missed, execPnl, partialPnl, riskPnl, dbVars, crashes>>
    BY <1>6 DEF TrackStep, TrackOnEntry, TrackOnExit, TrackOnUnlisted, NextIs, execVars, riskVars, bounds
  <2> QED BY <1>0, <2>1, Names, OtherTakes
<1>7. ASSUME NEW t \in Trades, TrailFirst(t) \/ TrailSecond(t) PROVE BooksInv'
  <2>1. PICK k \in 1 .. 2, g \in {{}, {t}} : SellTarget(t, k, g)
    BY <1>7 DEF TrailFirst, TrailSecond
  <2> QED BY <1>0, <2>1, SellBooks
<1>8. ASSUME NEW t \in Trades, TrailClose(t) PROVE BooksInv'
  <2>1. /\ "EXIT" \in ExitEvents /\ CloseOut(queue, t, "EXIT") /\ Held(t)
        /\ UNCHANGED <<riskPnl, crashes>>
    BY <1>8 DEF TrailClose, ExitEvents, riskVars, bounds
  <2> QED BY <1>0, <2>1, CloseBooks
<1>9. ASSUME NEW t \in Trades, NEW e \in OrderEvents, Publish(queue, Msg(e, t, 0)),
             UNCHANGED <<riskVars, execVars, dbVars, crashes>>
      PROVE  BooksInv'
  <2>1. e \in Events /\ e \notin ExitEvents
    BY Names DEF OrderEvents, ExitEvents
  <2>2. UNCHANGED <<execPnl, partialPnl, riskPnl, dbPnl, crashes>> /\ life' = life /\ (Sound' => Sound)
    BY <1>9 DEF execVars, riskVars, dbVars, Sound
  <2> QED BY <1>0, <1>9, <2>1, <2>2, NoticeBooks
<1>10. ASSUME NEW t \in Trades,
              TriggerExit(t) \/ ApiCloseTrade(t) \/ \E e \in OrderEvents : ApiExitMock(t, e)
       PROVE  BooksInv'
  BY <1>9, <1>10 DEF TriggerExit, ApiCloseTrade, ApiExitMock, OrderEvents, bounds
<1>11. CASE EndOfDay \/ UNCHANGED vars
  BY <1>11, RestBooks DEF EndOfDay, vars, busVars, riskVars, execVars, dbVars, bounds
<1>12. CASE Restart
  <2>1. queue'["risk"] = <<>> /\ crashes' = crashes + 1
    BY <1>12, Names DEF Restart
  <2>2. crashes' # 0
    BY <1>0, <2>1 DEF TypeOK
  <2> QED BY <2>1, <2>2 DEF BooksInv, Plain, BooksAgree, Sound
<1> QED BY <1>1, <1>2, <1>3, <1>4, <1>5, <1>6, <1>7, <1>8, <1>10, <1>11, <1>12 DEF Next, ExecStep

\* The day's P&L of the executor is what its trades carry, and what the risk
\* manager has counted and will count, whatever the order in which messages are
\* sent and read: until a restart, for the trades' rows until a write fails, and
\* for the risk manager until a message is lost.
THEOREM BooksAlwaysAgree == Spec => []BooksAgree
<1>1. Init => BooksInv
  <2> SUFFICES ASSUME Init PROVE BooksInv
    OBVIOUS
  <2>1. /\ queue["risk"] = <<>> /\ riskPnl = 0 /\ execPnl = 0
        /\ \A t \in Trades : dbPnl[t] = 0 /\ partialPnl[t] = 0
    BY Names DEF Init
  <2>2. Carried(partialPnl, dbPnl) = 0
    <3> DEFINE f == [t \in Trades |-> partialPnl[t] + dbPnl[t]]
    <3>1. f = [t \in Trades |-> 0]
      BY <2>1
    <3> HIDE DEF f
    <3>2. SumFunction(f) = 0
      BY <3>1, TradesAssumption, SumZero
    <3> QED BY <3>2 DEF Carried, f
  <2> QED BY <2>1, <2>2, UnreadNothing DEF BooksInv, Plain, BooksAgree
<1>2. IInv /\ LifeInv /\ BooksInv /\ [Next]_vars => BooksInv'
  BY NextBooks
<1>3. BooksInv => BooksAgree
  BY DEF BooksInv
<1> QED BY <1>1, <1>2, <1>3, InductiveInvariant, LifeInvHolds, PTL DEF Spec
=============================================================================
