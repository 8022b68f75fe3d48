------------------------------ MODULE Reconciler ------------------------------
(***************************************************************************)
(* The reconciliation of the executor's positions with the broker's        *)
(* (execution/position_reconciler.py).                                     *)
(*                                                                         *)
(* A position of the broker is [qty, side, price]; one of the executor's   *)
(* book also has its symbol and a status, and the book is ordered as the   *)
(* dictionary is.  The broker is asked first and the answer compared when  *)
(* it comes: positions may have changed in between.                        *)
(***************************************************************************)
EXTENDS Integers, Sequences, SequencesExt, FiniteSetsExt

CONSTANTS
    Contracts,          \* trading symbols
    UnderlyingOf,       \* _extract_underlying
    IdOf,               \* what an imported position's id keeps of its symbol
    MaxExposure,        \* max_allowed positions of an underlying (4)
    FillPrices,         \* prices at which the broker may have filled
    Tolerance,          \* price_tolerance_pct (2)
    MaxDeals            \* bound: trades made, by whomever

ASSUME ReconcilerAssumption ==
    /\ IsFiniteSet(Contracts)
    /\ MaxExposure \in Nat /\ FillPrices \subseteq Nat /\ Tolerance \in Nat /\ MaxDeals \in Nat

VARIABLES
    broker,     \* the broker's position of each symbol, or Flat
    book,       \* _internal
    answer,     \* the positions the broker answered, or Unasked
    health,     \* is_healthy()
    deals

reconcilerVars == <<broker, book, answer, health, deals>>

Flat == [qty |-> 0, side |-> "LONG", price |-> 0]
Unasked == <<>>
Position(s, qty, side, price, status, id) ==
    [symbol |-> s, qty |-> qty, side |-> side, price |-> price, status |-> status, id |-> id]

\* The lookup by symbol keeps the last entry of each.
Entries(s) == {i \in DOMAIN book : book[i].symbol = s}
Known(i) == i = Max(Entries(book[i].symbol))

\* What distinguishes a matched pair.  A book entry counts as long whatever its
\* direction: options are bought.
PriceDiffers(b, e) == b.price > 0 /\ e.price > 0
                      /\ 100 * Max({b.price - e.price, e.price - b.price}) > Tolerance * b.price
Matched(b, e) == b.qty = e.qty /\ b.side = "LONG" /\ ~PriceDiffers(b, e)

Orphans == {s \in Contracts : answer[s] # Flat /\ Entries(s) = {}}
Missing(i) == Known(i) /\ answer[book[i].symbol] = Flat
Healthy == /\ Orphans = {}
           /\ \A i \in DOMAIN book : Known(i) => answer[book[i].symbol] # Flat
                                                 /\ Matched(answer[book[i].symbol], book[i])

\* Mutant: the quantity is not taken over.
KeepsQuantity(i) == IF Missing(i) THEN [book[i] EXCEPT !.status = "CLOSED"] ELSE book[i]

\* Resolution: close what the broker does not have, take over its quantity, and
\* its price where it differs.
Resolved(i) ==
    LET e == book[i]
        b == answer[e.symbol]
    IN  IF ~Known(i) THEN e
        ELSE IF Missing(i) THEN [e EXCEPT !.status = "CLOSED"]
        ELSE [e EXCEPT !.qty = b.qty, !.price = IF PriceDiffers(b, e) THEN b.price ELSE @]

Imported(s) == Position(s, answer[s].qty, answer[s].side, answer[s].price, "OPEN", IdOf[s])

\* Orphans of one pass that get the same id replace each other.
Imports == {t \in SUBSET Orphans : /\ \A s \in Orphans : \E u \in t : IdOf[u] = IdOf[s]
                                   /\ \A s, u \in t : IdOf[s] = IdOf[u] => s = u}

\* reconcile_before_new_trade: at most MaxExposure open positions of an
\* underlying.  The direction check looks for a key that is never set.
CanTrade(s) == Cardinality({i \in DOMAIN book : /\ book[i].status = "OPEN"
                                                /\ UnderlyingOf[book[i].symbol] = UnderlyingOf[s]})
                    < MaxExposure

ReconcilerInit ==
    /\ broker = [s \in Contracts |-> Flat]
    /\ book = <<>>
    /\ answer = Unasked
    /\ health = TRUE
    /\ deals = 0

Deal(s, to) == /\ deals < MaxDeals /\ deals' = deals + 1
               /\ broker' = [broker EXCEPT ![s] = to]

Bought1(b, price) == [qty |-> b.qty + 1, side |-> "LONG", price |-> price]

\* The executor buys one lot, after the check, or sells a whole entry.
Buy(s, price) ==
    /\ CanTrade(s)
    /\ Deal(s, Bought1(broker[s], price))
    /\ book' = Append(book, Position(s, 1, "LONG", price, "OPEN", s))
    /\ UNCHANGED <<answer, health>>

Leave(i) ==
    /\ book[i].status = "OPEN"
    /\ book[i].qty <= broker[book[i].symbol].qty
    /\ Deal(book[i].symbol,
            IF broker[book[i].symbol].qty = book[i].qty THEN Flat
            ELSE [broker[book[i].symbol] EXCEPT !.qty = @ - book[i].qty])
    /\ book' = RemoveAt(book, i)
    /\ UNCHANGED <<answer, health>>

\* A deal the book does not know: made by hand, or by a process that crashed.
DealUnknown(s, to) == /\ to # broker[s]
                      /\ Deal(s, to)
                      /\ UNCHANGED <<book, answer, health>>

\* Without a fetcher, or when the adapter is not ready or its listing fails, the
\* answer is that there is no position at all.
NoPositions == [s \in Contracts |-> Flat]

Fetched == /\ answer = Unasked
           /\ answer' \in {broker, NoPositions}
           /\ UNCHANGED <<broker, book, health, deals>>

FetchFailed == /\ answer = Unasked
               /\ health' = FALSE
               /\ UNCHANGED <<broker, book, answer, deals>>

Compared ==
    /\ answer # Unasked
    /\ health' = Healthy
    /\ \E imports \in Imports :
          book' = [i \in DOMAIN book |-> Resolved(i)] \o SetToSeq({Imported(s) : s \in imports})
    /\ answer' = Unasked
    /\ UNCHANGED <<broker, deals>>

ReconcilerNext ==
    \/ \E s \in Contracts, price \in FillPrices : Buy(s, price)
    \/ \E i \in DOMAIN book : Leave(i)
    \/ \E s \in Contracts, side \in {"LONG", "SHORT"}, price \in FillPrices :
           DealUnknown(s, [qty |-> 1, side |-> side, price |-> price])
    \/ \E s \in Contracts : DealUnknown(s, Flat)
    \/ Fetched
    \/ FetchFailed
    \/ Compared

(***************************************************************************)
(* Properties                                                              *)
(***************************************************************************)

\* The answered positions for which the book has no open entry of their quantity
\* and side: the trade check does not count them.
Hidden(positions, b) ==
    {s \in Contracts : positions[s] # Flat /\
        ~\E i \in DOMAIN b : /\ b[i].symbol = s /\ b[i].status = "OPEN"
                             /\ b[i].qty = positions[s].qty /\ b[i].side = positions[s].side}

\* Those no pass brings back: the entry compared was marked CLOSED, as every one is
\* after an empty answer, or is of the other side, which is only reported.
GivenUp == {s \in Contracts : Entries(s) # {} /\
               LET e == book[Max(Entries(s))] IN e.status = "CLOSED" \/ e.side # answer[s].side}

\* A pass hides no position it is told of, and but for those given up it leaves
\* the book showing them all, or at least one more than before.  Not all of them
\* at once: orphans of one expiry get one id (position_reconciler.py:196-247,
\* 446-525).
PassCovers ==
    [][(answer # Unasked /\ answer' = Unasked) =>
         LET after == Hidden(answer, book')
             before == Hidden(answer, book)
         IN  /\ after \subseteq before
             /\ after \subseteq GivenUp \/ after # before]_reconcilerVars
=============================================================================
