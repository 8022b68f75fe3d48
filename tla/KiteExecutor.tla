---------------------------- MODULE KiteExecutor ----------------------------
(***************************************************************************)
(* The live executor: one trade, from its approval to its exit, against a  *)
(* broker that fills and rejects orders whenever it likes.                 *)
(*                                                                         *)
(* Two coroutines share the trade's records: the message loop, which       *)
(* enters and exits through _place_smart_order, and the order state        *)
(* poller, which books the stop and target orders the broker fills.  Every *)
(* call of the broker is an await, so the two interleave between any two   *)
(* calls.  Orders fill completely or not at all; prices only matter when   *)
(* one is zero, which is how a fill that was never seen is reported.       *)
(***************************************************************************)
EXTENDS Integers, Sequences, FiniteSets

CONSTANTS
  Attempts,   \* limit orders tried before the market order (3 in the code)
  MaxExits,   \* bound on the exit orders sent to the executor
  CallsFail   \* may a call of the broker raise?

ASSUME KiteAssumption ==
  /\ Attempts \in Nat
  /\ MaxExits \in Nat
  /\ CallsFail \in BOOLEAN

VARIABLES
  orders,    \* the broker's book of this trade, in the order of placement
  inbox,     \* events the message loop has still to read
  loop,      \* the message loop: where it is, for what task, which attempt and order
  poller,    \* the poller: where it is, what it fetched, which child it books
  held,      \* is the trade in _positions (and _bracket_orders)?
  children,  \* ids of its stop and target orders, 0 for none
  row,       \* trades.status, and whether ORDER_FAILED was announced
  booked,    \* exits booked by _finalize_exit
  asked,     \* exit orders sent so far
  givenUp,   \* history: orders whose fill was not seen within a minute
  stray,     \* history: orders the executor lost sight of when a call raised
  refused,   \* history: the child orders whose placement raised
  exitFailed \* history: has an exit raised?

vars == <<orders, inbox, loop, poller, held, children, row, booked, asked, givenUp, stray, refused, exitFailed>>

Ids == DOMAIN orders

Status(i) == orders[i].status

IdleLoop == [at |-> "idle", task |-> "none", attempt |-> 0, id |-> 0]

IdlePoller == [at |-> "sleep", filled |-> {}, child |-> 0]

\* The loop moves to another place of the same task.
At(place) == loop' = [loop EXCEPT !.at = place]

-----------------------------------------------------------------------------
(* The broker. *)

Place(side, kind) ==
  orders' = Append(orders, [side |-> side, kind |-> kind, status |-> "live"])

Fill(i) ==
  /\ Status(i) = "live"
  /\ orders' = [orders EXCEPT ![i].status = "filled"]

Reject(i) ==
  /\ Status(i) = "live"
  /\ orders' = [orders EXCEPT ![i].status = "rejected"]

Broker ==
  /\ \E i \in Ids : Fill(i) \/ Reject(i)
  /\ UNCHANGED <<inbox, loop, poller, held, children, row, booked, asked, givenUp, stray, refused, exitFailed>>

\* Cancelling order i: a live one is cancelled, any other refuses (the call
\* raises and the code warns); or the call itself fails.
Cancel(i) ==
  \/ /\ orders' = IF Status(i) = "live" THEN [orders EXCEPT ![i].status = "cancelled"] ELSE orders
     /\ UNCHANGED stray
  \/ /\ CallsFail
     /\ stray' = stray \cup {i}
     /\ UNCHANGED orders

-----------------------------------------------------------------------------
(* Booking the end of the trade. *)

\* Mutant: the exit is booked again.
Again == TRUE

\* _finalize_exit looks the position up first.
Known == held

Finalize ==
  IF Known
  THEN /\ held' = FALSE
       /\ row' = "CLOSED"
       /\ booked' = booked + 1
  ELSE UNCHANGED <<held, row, booked>>

-----------------------------------------------------------------------------
(* The message loop. *)

Side == IF loop.task = "entry" THEN "BUY" ELSE "SELL"

TakeApproval ==
  /\ loop.at = "idle"
  /\ inbox # <<>> /\ Head(inbox) = "RISK_APPROVED"
  /\ inbox' = Tail(inbox)
  /\ loop' = [at |-> "quote", task |-> "entry", attempt |-> 0, id |-> 0]
  /\ UNCHANGED <<orders, poller, held, children, row, booked, asked, givenUp, stray, refused, exitFailed>>

\* An exit first cancels the two child orders, if there are any.
TakeExit ==
  /\ loop.at = "idle"
  /\ inbox # <<>> /\ Head(inbox) = "EXIT_ORDER"
  /\ inbox' = Tail(inbox)
  /\ loop' = IF held THEN [at |-> "cancelStop", task |-> "exit", attempt |-> 0, id |-> 0] ELSE loop
  /\ UNCHANGED <<orders, poller, held, children, row, booked, asked, givenUp, stray, refused, exitFailed>>

\* The ids were read when the exit was taken.  The poller may book the trade
\* between the calls: the exit goes on all the same.
CancelChild(c, here, next) ==
  /\ loop.at = here
  /\ At(next)
  /\ IF c # 0 THEN Cancel(c) ELSE UNCHANGED <<orders, stray>>
  /\ UNCHANGED <<inbox, poller, held, children, row, booked, asked, givenUp, refused, exitFailed>>

CancelChildren ==
  \/ CancelChild(children.stop, "cancelStop", "cancelTarget")
  \/ CancelChild(children.target, "cancelTarget", "quote")

\* Without a price (none is quoted or the call fails) the order goes to the market.
Quote ==
  /\ loop.at = "quote"
  /\ \E place \in {"limit", "market"} : At(place)
  /\ UNCHANGED <<orders, inbox, poller, held, children, row, booked, asked, givenUp, stray, refused, exitFailed>>

\* Where the loop goes after attempt k.
AfterAttempt(k) ==
  [loop EXCEPT !.at = IF k < Attempts THEN "limit" ELSE "market", !.attempt = k]

\* A limit order; if the call raises, the order may have been accepted.
PlaceLimit ==
  /\ loop.at = "limit"
  /\ \/ /\ Place(Side, "limit")
        /\ loop' = [loop EXCEPT !.at = "check", !.id = Len(orders) + 1]
        /\ UNCHANGED stray
     \/ /\ CallsFail
        /\ loop' = AfterAttempt(loop.attempt + 1)
        /\ \/ UNCHANGED <<orders, stray>>
           \/ Place(Side, "limit") /\ stray' = stray \cup {Len(orders) + 1}
  /\ UNCHANGED <<inbox, poller, held, children, row, booked, asked, givenUp, refused, exitFailed>>

\* Mutant: the order is taken to be filled once the three seconds are over.
Assumed(i) == TRUE

\* The order history says COMPLETE.
Complete(i) == Status(i) = "filled"

\* Three seconds later: filled, or not yet (or the history cannot be read).
CheckFilled ==
  /\ loop.at = "check"
  /\ Complete(loop.id)
  /\ At(IF loop.task = "entry" THEN "stop" ELSE "book")
  /\ UNCHANGED <<orders, inbox, poller, held, children, row, booked, asked, givenUp, stray, refused, exitFailed>>

CheckUnfilled ==
  /\ loop.at = "check"
  /\ ~Complete(loop.id) \/ CallsFail
  /\ At("cancel")
  /\ UNCHANGED <<orders, inbox, poller, held, children, row, booked, asked, givenUp, stray, refused, exitFailed>>

CancelAttempt ==
  /\ loop.at = "cancel"
  /\ Cancel(loop.id)
  /\ loop' = AfterAttempt(loop.attempt + 1)
  /\ UNCHANGED <<inbox, poller, held, children, row, booked, asked, givenUp, refused, exitFailed>>

\* The exception handlers of _place_entry_order and _place_exit_order.
Raise ==
  /\ loop' = IdleLoop
  /\ row' = IF loop.task = "entry" THEN "FAILED" ELSE row
  /\ exitFailed' = (exitFailed \/ loop.task = "exit")

PlaceMarket ==
  /\ loop.at = "market"
  /\ \/ /\ Place(Side, "market")
        /\ loop' = [loop EXCEPT !.at = "await", !.id = Len(orders) + 1]
        /\ UNCHANGED <<row, stray, exitFailed>>
     \/ /\ CallsFail
        /\ Raise
        /\ \/ UNCHANGED <<orders, stray>>
           \/ Place(Side, "market") /\ stray' = stray \cup {Len(orders) + 1}
  /\ UNCHANGED <<inbox, poller, held, children, booked, asked, givenUp, refused>>

\* _poll_until_filled on the market order.
AwaitFilled ==
  /\ loop.at = "await"
  /\ Status(loop.id) = "filled"
  /\ At(IF loop.task = "entry" THEN "stop" ELSE "book")
  /\ UNCHANGED <<orders, inbox, poller, held, children, row, booked, asked, givenUp, stray, refused, exitFailed>>

AwaitRejected ==
  /\ loop.at \in {"await", "confirm"}
  /\ Status(loop.id) \in {"rejected", "cancelled"}
  /\ Raise
  /\ UNCHANGED <<orders, inbox, poller, held, children, booked, asked, givenUp, stray, refused>>

\* Mutant: the polling never ends.
NeverGivesUp == FALSE

\* After a minute the poll returns a price of 0, which counts as a fill; for an
\* entry it means no stop and no target.
AwaitTimeout ==
  /\ loop.at = "await"
  /\ Status(loop.id) = "live" \/ CallsFail
  /\ givenUp' = givenUp \cup {loop.id}
  /\ At(IF loop.task = "entry" THEN "confirm" ELSE "book")
  /\ UNCHANGED <<orders, inbox, poller, held, children, row, booked, asked, stray, refused, exitFailed>>

\* A child order of the entry; a failure is logged and forgotten.
PlaceChild(child, here, next) ==
  /\ loop.at = here
  /\ At(next)
  /\ \/ /\ Place("SELL", child)
        /\ children' = [children EXCEPT ![child] = Len(orders) + 1]
        /\ UNCHANGED <<stray, refused>>
     \/ /\ CallsFail
        /\ refused' = refused \cup {child}
        /\ UNCHANGED children
        /\ \/ UNCHANGED <<orders, stray>>
           \/ Place("SELL", child) /\ stray' = stray \cup {Len(orders) + 1}
  /\ UNCHANGED <<inbox, poller, held, row, booked, asked, givenUp, exitFailed>>

\* Mutant: no target order is placed once the stop is.
StopOnly == PlaceChild("stop", "stop", "confirm")

PlaceChildren == PlaceChild("stop", "stop", "target") \/ PlaceChild("target", "target", "confirm")

\* The entry order is polled once more and the position recorded.
Record ==
  /\ loop.at = "confirm"
  /\ \/ Status(loop.id) = "filled" /\ UNCHANGED givenUp
     \/ /\ Status(loop.id) = "live" \/ CallsFail
        /\ givenUp' = givenUp \cup {loop.id}
  /\ loop' = IdleLoop
  /\ held' = TRUE
  /\ row' = "FILLED"
  /\ UNCHANGED <<orders, inbox, poller, children, booked, asked, stray, refused, exitFailed>>

BookExit ==
  /\ loop.at = "book"
  /\ loop' = IdleLoop
  /\ Finalize
  /\ UNCHANGED <<orders, inbox, poller, children, asked, givenUp, stray, refused, exitFailed>>

LoopStep ==
  \/ TakeApproval \/ TakeExit \/ CancelChildren \/ Quote
  \/ PlaceLimit \/ CheckFilled \/ CheckUnfilled \/ CancelAttempt
  \/ PlaceMarket \/ AwaitFilled \/ AwaitRejected \/ AwaitTimeout
  \/ PlaceChildren \/ Record \/ BookExit

-----------------------------------------------------------------------------
(* The order state poller. *)

Active == held /\ (children.stop # 0 \/ children.target # 0)

Fetch ==
  /\ poller.at = "sleep"
  /\ Active
  /\ poller' = [poller EXCEPT !.at = "scan", !.filled = {i \in Ids : Status(i) = "filled"}]
  /\ UNCHANGED <<orders, inbox, loop, held, children, row, booked, asked, givenUp, stray, refused, exitFailed>>

\* Mutant: the poller looks at the stop only.
FilledStop == {children.stop} \cap poller.filled

\* The child orders that were filled when the book was fetched.
FilledChildren == {children.stop, children.target} \cap poller.filled

Counterpart(c) == IF c = children.stop THEN children.target ELSE children.stop

\* Mutant: the counterpart is left to the broker.
Leave(c) == "book"

\* The counterpart, if there is one, is cancelled before the exit is booked.
AfterFound(c) == IF Counterpart(c) # 0 THEN "counterpart" ELSE "book"

Scan ==
  /\ poller.at = "scan"
  /\ poller' = IF Active /\ FilledChildren # {}
               THEN LET c == CHOOSE c \in FilledChildren : \A d \in FilledChildren : c <= d
                    IN  [at |-> AfterFound(c), filled |-> {}, child |-> c]
               ELSE IdlePoller
  /\ UNCHANGED <<orders, inbox, loop, held, children, row, booked, asked, givenUp, stray, refused, exitFailed>>

CancelCounterpart ==
  /\ poller.at = "counterpart"
  /\ poller' = [poller EXCEPT !.at = "book"]
  /\ Cancel(Counterpart(poller.child))
  /\ UNCHANGED <<inbox, loop, held, children, row, booked, asked, givenUp, refused, exitFailed>>

BookChild ==
  /\ poller.at = "book"
  /\ poller' = IdlePoller
  /\ Finalize
  /\ UNCHANGED <<orders, inbox, loop, children, asked, givenUp, stray, refused, exitFailed>>

PollerStep == Fetch \/ Scan \/ CancelCounterpart \/ BookChild

-----------------------------------------------------------------------------
\* The tracker, the API or a user asks for the exit of the trade.
AskExit ==
  /\ asked < MaxExits
  /\ asked' = asked + 1
  /\ inbox' = Append(inbox, "EXIT_ORDER")
  /\ UNCHANGED <<orders, loop, poller, held, children, row, booked, givenUp, stray, refused, exitFailed>>

Init ==
  /\ orders = <<>>
  /\ inbox = <<"RISK_APPROVED">>
  /\ loop = IdleLoop
  /\ poller = IdlePoller
  /\ held = FALSE
  /\ children = [stop |-> 0, target |-> 0]
  /\ row = "APPROVED"
  /\ booked = 0
  /\ asked = 0
  /\ givenUp = {} /\ stray = {} /\ refused = {}
  /\ exitFailed = FALSE

Next == LoopStep \/ PollerStep \/ AskExit \/ Broker

Spec == Init /\ [][Next]_vars

\* Both coroutines go on; nothing is asked of the broker.
FairSpec == Spec /\ WF_vars(LoopStep) /\ WF_vars(PollerStep)

-----------------------------------------------------------------------------
(* Properties. *)

Order == [side : {"BUY", "SELL"}, kind : {"limit", "market", "stop", "target"},
          status : {"live", "filled", "cancelled", "rejected"}]

Places == {"idle", "cancelStop", "cancelTarget", "quote", "limit", "check", "cancel",
           "market", "await", "stop", "target", "confirm", "book"}

\* The type of the state.
TypeOK ==
  /\ orders \in Seq(Order)
  /\ inbox \in Seq({"RISK_APPROVED", "EXIT_ORDER"})
  /\ loop \in [at : Places, task : {"none", "entry", "exit"}, attempt : Nat, id : {0} \cup Ids]
  /\ poller \in [at : {"sleep", "scan", "counterpart", "book"},
                 filled : SUBSET Ids, child : {0} \cup Ids]
  /\ held \in BOOLEAN
  /\ children \in [{"stop", "target"} -> {0} \cup Ids]
  /\ row \in {"APPROVED", "FILLED", "FAILED", "CLOSED"}
  /\ booked \in Nat /\ asked \in 0 .. MaxExits
  /\ givenUp \subseteq Ids /\ stray \subseteq Ids /\ refused \subseteq {"stop", "target"}
  /\ exitFailed \in BOOLEAN

Quiet == loop.at = "idle" /\ poller.at = "sleep"

\* Whatever the two coroutines do, the P&L of a trade is booked once, when it
\* leaves the executor's positions.
ExitBookedOnce ==
  /\ booked <= 1
  /\ held <=> row = "FILLED"
  /\ booked = 1 <=> row = "CLOSED"

\* What makes it last: until the entry is answered the row is APPROVED, the
\* approval is read once, and only an exit gets to the booking.
EntryUnanswered == row = "APPROVED" /\ ~held /\ booked = 0

BookingInv ==
  /\ ExitBookedOnce
  /\ \A i \in DOMAIN inbox :
       inbox[i] = "RISK_APPROVED" => i = 1 /\ loop = IdleLoop /\ EntryUnanswered
  /\ loop.task = "entry" => EntryUnanswered /\ loop.at # "book"
  /\ loop.at \in {"stop", "target", "confirm"} => loop.task = "entry"

\* The part of the type that the booking depends on.
RecordType ==
  /\ orders \in Seq(Order)
  /\ inbox \in Seq({"RISK_APPROVED", "EXIT_ORDER"})
  /\ loop \in [at : Places, task : {"none", "entry", "exit"}, attempt : Nat, id : Nat]
  /\ held \in BOOLEAN
  /\ booked \in Nat

IInv == RecordType /\ BookingInv

\* A position is recorded for an order that was filled, and closed for one that
\* was, unless a minute of polling had given up on it.
BookedOrdersFilled ==
  /\ row \in {"FILLED", "CLOSED"} =>
       \E i \in Ids : orders[i].side = "BUY" /\ (Status(i) = "filled" \/ i \in givenUp)
  /\ row = "CLOSED" =>
       \E i \in Ids : orders[i].side = "SELL" /\ (Status(i) = "filled" \/ i \in givenUp)

\* Once the trade is closed and both coroutines are quiet nothing it placed is
\* still live, unless a call raised or the polling gave up: no forgotten stop
\* or target can sell what is no longer held.
NoOrphanOrders ==
  row = "CLOSED" /\ Quiet =>
    \A i \in Ids : Status(i) = "live" => i \in stray \cup givenUp

\* A position at rest keeps the protection it was given: both orders are placed
\* (unless a placement raised or no fill was seen) and neither is cancelled,
\* unless an exit has failed half-way.
OpenIsProtected ==
  held /\ Quiet /\ ~exitFailed =>
    /\ \A c \in DOMAIN children : children[c] # 0 => Status(children[c]) # "cancelled"
    /\ givenUp = {} => \A c \in DOMAIN children : children[c] # 0 \/ c \in refused

\* A stop or target the broker has filled is booked in the end.
ChildFillBooked ==
  (held /\ \E c \in DOMAIN children : children[c] # 0 /\ Status(children[c]) = "filled") ~> ~held

\* Every approval is answered: a position or ORDER_FAILED.
ApprovalAnswered == row = "APPROVED" ~> row # "APPROVED"

\* "SELL here would WRITE options": the executor never sells more than it bought.
NeverShort ==
  Cardinality({i \in Ids : orders[i].side = "SELL" /\ Status(i) = "filled"})
    <= Cardinality({i \in Ids : orders[i].side = "BUY" /\ Status(i) = "filled"})

=============================================================================
