------------------------ MODULE KiteExecutor_proofs -------------------------
(***************************************************************************)
(* Proofs about the live executor, for any number of attempts and exits,   *)
(* whatever the broker does and whichever of its calls raise.              *)
(***************************************************************************)
EXTENDS KiteExecutor, TLAPS

(* What the first event of the inbox says about the rest of it. *)
LEMMA TailHasNoApproval ==
  ASSUME RecordType, BookingInv, inbox # <<>>
  PROVE  \A i \in DOMAIN Tail(inbox) : Tail(inbox)[i] # "RISK_APPROVED"
<1> SUFFICES ASSUME NEW i \in DOMAIN Tail(inbox), Tail(inbox)[i] = "RISK_APPROVED"
             PROVE  FALSE
  OBVIOUS
<1>1. inbox \in Seq({"RISK_APPROVED", "EXIT_ORDER"})
  BY DEF RecordType
<1>2. i \in 1 .. Len(inbox) - 1 /\ i + 1 \in DOMAIN inbox /\ inbox[i + 1] = Tail(inbox)[i]
  BY <1>1
<1>3. i + 1 = 1
  BY <1>2 DEF BookingInv
<1> QED BY <1>2, <1>3

LEMMA OrderJoinsInbox ==
  ASSUME RecordType, BookingInv
  PROVE  /\ Append(inbox, "EXIT_ORDER") \in Seq({"RISK_APPROVED", "EXIT_ORDER"})
         /\ \A i \in DOMAIN Append(inbox, "EXIT_ORDER") :
              Append(inbox, "EXIT_ORDER")[i] = "RISK_APPROVED"
                => i \in DOMAIN inbox /\ inbox[i] = "RISK_APPROVED"
<1>1. inbox \in Seq({"RISK_APPROVED", "EXIT_ORDER"})
  BY DEF RecordType
<1> QED BY <1>1

Loops == [at : Places, task : {"none", "entry", "exit"}, attempt : Nat, id : Nat]

LEMMA IdleType == IdleLoop \in Loops
BY DEF IdleLoop, Loops, Places

(* The broker's book keeps its type. *)
LEMMA BookPlaced ==
  ASSUME RecordType, NEW side \in {"BUY", "SELL"},
         NEW kind \in {"limit", "market", "stop", "target"}, Place(side, kind)
  PROVE  orders' \in Seq(Order)
<1>1. [side |-> side, kind |-> kind, status |-> "live"] \in Order
  BY DEF Order
<1> QED BY <1>1 DEF Place, RecordType

LEMMA BookMarked ==
  ASSUME RecordType, NEW i, NEW s \in {"filled", "cancelled", "rejected"},
         orders' = [orders EXCEPT ![i].status = s]
  PROVE  orders' \in Seq(Order)
<1>1. orders \in Seq(Order)
  BY DEF RecordType
<1>2. CASE i \in DOMAIN orders
  <2>1. orders[i] \in Order
    BY <1>1, <1>2
  <2>2. [orders[i] EXCEPT !.status = s] \in Order
    BY <2>1 DEF Order
  <2> QED BY <1>1, <1>2, <2>2
<1>3. CASE i \notin DOMAIN orders
  <2>1. orders' = orders
    BY <1>1, <1>3
  <2> QED BY <1>1, <2>1
<1> QED BY <1>2, <1>3

LEMMA BookCancelled ==
  ASSUME RecordType, NEW i, Cancel(i)
  PROVE  orders' \in Seq(Order)
<1>1. CASE orders' = [orders EXCEPT ![i].status = "cancelled"]
  BY <1>1, BookMarked
<1>2. CASE orders' = orders
  BY <1>2 DEF RecordType
<1> QED BY <1>1, <1>2 DEF Cancel

(* The loop moving on within a task. *)
LEMMA MoveOn ==
  ASSUME IInv, UNCHANGED <<inbox, held, row, booked>>, loop # IdleLoop,
         orders' \in Seq(Order),
         loop' \in Loops,
         loop'.task = loop.task,
         loop.task = "entry" => loop'.at # "book",
         loop'.at \in {"stop", "target", "confirm"} => loop.task = "entry"
  PROVE  IInv'
<1>1. RecordType'
  BY DEF IInv, RecordType, Loops
<1>2. \A i \in DOMAIN inbox : inbox[i] # "RISK_APPROVED"
  BY DEF IInv, BookingInv
<1>3. BookingInv'
  BY <1>2 DEF IInv, BookingInv, ExitBookedOnce, EntryUnanswered
<1> QED BY <1>1, <1>3 DEF IInv

(* An exception ends the task. *)
LEMMA RaiseKeeps ==
  ASSUME IInv, UNCHANGED <<inbox, held, booked>>, loop # IdleLoop, Raise,
         orders' \in Seq(Order)
  PROVE  IInv'
<1>1. RecordType'
  BY IdleType DEF IInv, RecordType, Raise, Loops
<1>2. \A i \in DOMAIN inbox : inbox[i] # "RISK_APPROVED"
  BY DEF IInv, BookingInv
<1>3. BookingInv'
  BY <1>2 DEF IInv, BookingInv, ExitBookedOnce, EntryUnanswered, Raise, IdleLoop
<1> QED BY <1>1, <1>3 DEF IInv

(* Booking an exit, by either coroutine. *)
LEMMA FinalizeKeeps ==
  ASSUME IInv, UNCHANGED <<inbox, orders>>, Finalize,
         \/ loop' = loop
         \/ loop.at = "book" /\ loop' = IdleLoop
  PROVE  IInv'
<1>1. RecordType'
  <2>1. loop' \in Loops
    BY IdleType DEF IInv, RecordType, Loops
  <2>2. held' \in BOOLEAN /\ booked' \in Nat
    <3>1. held \in BOOLEAN /\ booked \in Nat
      BY DEF IInv, RecordType
    <3>2. CASE held
      <4>1. held' = FALSE /\ booked' = booked + 1
        BY <3>2 DEF Finalize, Known
      <4>2. booked' \in Nat
        BY <3>1, <4>1
      <4>3. held' \in BOOLEAN
        BY <4>1
      <4> QED BY <4>2, <4>3
    <3>3. CASE ~held
      BY <3>1, <3>3 DEF Finalize, Known
    <3> QED BY <3>1, <3>2, <3>3
  <2> QED BY <2>1, <2>2 DEF IInv, RecordType, Loops
<1>2. CASE held
  <2>1. ~EntryUnanswered
    BY <1>2 DEF EntryUnanswered
  <2>2. loop.task # "entry" /\ \A i \in DOMAIN inbox : inbox[i] # "RISK_APPROVED"
    BY <2>1 DEF IInv, BookingInv
  <2>3. held' = FALSE /\ row' = "CLOSED" /\ booked' = 1
    BY <1>2 DEF IInv, BookingInv, ExitBookedOnce, RecordType, Finalize, Known
  <2>4. BookingInv'
    BY <2>2, <2>3 DEF IInv, BookingInv, ExitBookedOnce, IdleLoop
  <2> QED BY <1>1, <2>4 DEF IInv
<1>3. CASE ~held
  <2>1. UNCHANGED <<held, row, booked>>
    BY <1>3 DEF Finalize, Known
  <2>2. CASE loop' = loop
    BY <1>1, <2>1, <2>2 DEF IInv, BookingInv, ExitBookedOnce, EntryUnanswered
  <2>3. CASE loop.at = "book" /\ loop' = IdleLoop
    <3>1. loop # IdleLoop
      BY <2>3 DEF IdleLoop
    <3>2. \A i \in DOMAIN inbox : inbox[i] # "RISK_APPROVED"
      BY <3>1 DEF IInv, BookingInv
    <3>3. BookingInv'
      BY <2>1, <2>3, <3>2 DEF IInv, BookingInv, ExitBookedOnce, IdleLoop
    <3> QED BY <1>1, <3>3 DEF IInv
  <2> QED BY <2>2, <2>3
<1> QED BY <1>2, <1>3

(* Steps that touch none of the records keep them. *)
LEMMA AsideKeeps ==
  ASSUME IInv, UNCHANGED <<inbox, loop, held, row, booked>>, orders' \in Seq(Order)
  PROVE  IInv'
BY DEF IInv, RecordType, BookingInv, ExitBookedOnce, EntryUnanswered

LEMMA TakeApprovalKeeps ==
  ASSUME IInv, TakeApproval
  PROVE  IInv'
<1>1. inbox \in Seq({"RISK_APPROVED", "EXIT_ORDER"}) /\ inbox # <<>>
  BY DEF IInv, RecordType, TakeApproval
<1>2. 1 \in DOMAIN inbox /\ inbox[1] = "RISK_APPROVED"
  BY <1>1 DEF TakeApproval
<1>3. EntryUnanswered
  BY <1>2 DEF IInv, BookingInv
<1>4. inbox' = Tail(inbox) /\ inbox' \in Seq({"RISK_APPROVED", "EXIT_ORDER"})
  BY <1>1 DEF TakeApproval
<1>5. \A i \in DOMAIN inbox' : inbox'[i] # "RISK_APPROVED"
  BY <1>1, <1>4, TailHasNoApproval DEF IInv
<1>6. RecordType'
  BY <1>4 DEF IInv, RecordType, TakeApproval, Places
<1>7. BookingInv'
  BY <1>3, <1>5 DEF IInv, BookingInv, ExitBookedOnce, EntryUnanswered, TakeApproval
<1> QED BY <1>6, <1>7 DEF IInv

LEMMA TakeExitKeeps ==
  ASSUME IInv, TakeExit
  PROVE  IInv'
<1>1. inbox \in Seq({"RISK_APPROVED", "EXIT_ORDER"}) /\ inbox # <<>>
  BY DEF IInv, RecordType, TakeExit
<1>2. inbox' = Tail(inbox) /\ inbox' \in Seq({"RISK_APPROVED", "EXIT_ORDER"})
  BY <1>1 DEF TakeExit
<1>3. \A i \in DOMAIN inbox' : inbox'[i] # "RISK_APPROVED"
  BY <1>1, <1>2, TailHasNoApproval DEF IInv
<1>4. RecordType'
  BY <1>2 DEF IInv, RecordType, TakeExit, Places
<1>5. BookingInv'
  BY <1>3 DEF IInv, BookingInv, ExitBookedOnce, EntryUnanswered, TakeExit
<1> QED BY <1>4, <1>5 DEF IInv

LEMMA AskExitKeeps ==
  ASSUME IInv, AskExit
  PROVE  IInv'
<1>1. inbox' = Append(inbox, "EXIT_ORDER")
  BY DEF AskExit
<1>2. RecordType'
  BY <1>1, OrderJoinsInbox DEF IInv, RecordType, AskExit
<1>3. \A i \in DOMAIN inbox' :
        inbox'[i] = "RISK_APPROVED" => i \in DOMAIN inbox /\ inbox[i] = "RISK_APPROVED"
  BY <1>1, OrderJoinsInbox DEF IInv
<1>4. BookingInv'
  BY <1>3 DEF IInv, BookingInv, ExitBookedOnce, EntryUnanswered, AskExit
<1> QED BY <1>2, <1>4 DEF IInv

LEMMA RecordKeeps ==
  ASSUME IInv, Record
  PROVE  IInv'
<1>1. EntryUnanswered /\ \A i \in DOMAIN inbox : inbox[i] # "RISK_APPROVED"
  BY DEF IInv, BookingInv, Record, IdleLoop
<1>2. RecordType'
  BY IdleType DEF IInv, RecordType, Record, Loops
<1>3. BookingInv'
  BY <1>1 DEF IInv, BookingInv, ExitBookedOnce, EntryUnanswered, Record, IdleLoop
<1> QED BY <1>2, <1>3 DEF IInv

(* The steps between two broker calls of a task. *)
LEMMA BusyStepKeeps ==
  ASSUME IInv,
         \/ CancelChildren \/ Quote \/ PlaceLimit \/ CheckFilled \/ CheckUnfilled
         \/ CancelAttempt \/ PlaceMarket \/ AwaitFilled \/ AwaitRejected \/ AwaitTimeout
         \/ PlaceChildren
  PROVE  IInv'
<1> USE DEF IInv
<1>0. loop \in Loops /\ orders \in Seq(Order)
  BY DEF RecordType, Loops
<1>a. Side \in {"BUY", "SELL"}
  BY DEF Side
<1>b. Len(orders) + 1 \in Nat
  BY <1>0
<1>c. loop.at \in {"stop", "target", "confirm"} => loop.task = "entry"
  BY DEF BookingInv
<1>d. ASSUME NEW place \in Places, At(place),
             loop.task = "entry" => place # "book",
             place \in {"stop", "target", "confirm"} => loop.task = "entry"
      PROVE  /\ loop' \in Loops /\ loop'.task = loop.task
             /\ loop.task = "entry" => loop'.at # "book"
             /\ loop'.at \in {"stop", "target", "confirm"} => loop.task = "entry"
  <2>1. loop' = [loop EXCEPT !.at = place]
    BY <1>d DEF At
  <2>2. loop' \in Loops /\ loop'.task = loop.task /\ loop'.at = place
    BY <1>0, <2>1, <1>d DEF Loops
  <2> QED BY <1>d, <2>2
<1>e. ASSUME loop' = AfterAttempt(loop.attempt + 1)
      PROVE  /\ loop' \in Loops /\ loop'.task = loop.task
             /\ loop'.at \in {"limit", "market"}
  <2> DEFINE k == loop.attempt + 1
             place == IF k < Attempts THEN "limit" ELSE "market"
  <2>1. k \in Nat /\ place \in {"limit", "market"} /\ place \in Places
    BY <1>0 DEF Loops, Places
  <2>2. loop' = [loop EXCEPT !.at = place, !.attempt = k]
    BY <1>e DEF AfterAttempt
  <2> HIDE DEF k, place
  <2>3. loop' \in Loops /\ loop'.task = loop.task /\ loop'.at = place
    BY <1>0, <2>1, <2>2 DEF Loops
  <2> QED BY <2>1, <2>3
<1>1. CASE CancelChildren
  <2>1. orders' \in Seq(Order)
    BY <1>0, <1>1, BookCancelled DEF CancelChildren, CancelChild
  <2>2. PICK place \in {"cancelTarget", "quote"} : At(place)
    BY <1>1 DEF CancelChildren, CancelChild
  <2>3. place \in Places /\ loop # IdleLoop /\ UNCHANGED <<inbox, held, row, booked>>
    BY <1>1 DEF CancelChildren, CancelChild, Places, IdleLoop
  <2> QED BY <1>d, <2>1, <2>2, <2>3, MoveOn
<1>2. CASE Quote
  <2>1. PICK place \in {"limit", "market"} : At(place)
    BY <1>2 DEF Quote
  <2>2. place \in Places /\ loop # IdleLoop /\ UNCHANGED <<orders, inbox, held, row, booked>>
    BY <1>2 DEF Quote, Places, IdleLoop
  <2> QED BY <1>0, <1>d, <2>1, <2>2, MoveOn
<1>3. CASE PlaceLimit
  <2>1. loop # IdleLoop /\ UNCHANGED <<inbox, held, row, booked>>
    BY <1>3 DEF PlaceLimit, IdleLoop
  <2>2. orders' \in Seq(Order)
    BY <1>0, <1>3, <1>a, BookPlaced DEF PlaceLimit
  <2>3. CASE loop' = AfterAttempt(loop.attempt + 1)
    BY <1>e, <2>1, <2>2, <2>3, MoveOn
  <2>4. CASE loop' = [loop EXCEPT !.at = "check", !.id = Len(orders) + 1]
    <3>1. loop' \in Loops /\ loop'.task = loop.task /\ loop'.at = "check"
      BY <1>0, <1>b, <2>4 DEF Loops, Places
    <3> QED BY <2>1, <2>2, <3>1, MoveOn
  <2> QED BY <1>3, <2>3, <2>4 DEF PlaceLimit
<1>4. CASE CheckFilled \/ AwaitFilled
  <2>1. At(IF loop.task = "entry" THEN "stop" ELSE "book")
    BY <1>4 DEF CheckFilled, AwaitFilled
  <2>2. loop # IdleLoop /\ UNCHANGED <<orders, inbox, held, row, booked>>
    BY <1>4 DEF CheckFilled, AwaitFilled, IdleLoop
  <2>3. "stop" \in Places /\ "book" \in Places
    BY DEF Places
  <2> QED BY <1>0, <1>d, <2>1, <2>2, <2>3, MoveOn
<1>5. CASE CheckUnfilled
  <2>1. At("cancel") /\ "cancel" \in Places
    BY <1>5 DEF CheckUnfilled, Places
  <2>2. loop # IdleLoop /\ UNCHANGED <<orders, inbox, held, row, booked>>
    BY <1>5 DEF CheckUnfilled, IdleLoop
  <2> QED BY <1>0, <1>d, <2>1, <2>2, MoveOn
<1>6. CASE CancelAttempt
  <2>1. orders' \in Seq(Order)
    BY <1>6, BookCancelled DEF CancelAttempt
  <2>2. loop # IdleLoop /\ UNCHANGED <<inbox, held, row, booked>>
    BY <1>6 DEF CancelAttempt, IdleLoop
  <2> QED BY <1>6, <1>e, <2>1, <2>2, MoveOn DEF CancelAttempt
<1>7. CASE PlaceMarket
  <2>1. loop # IdleLoop /\ UNCHANGED <<inbox, held, booked>>
    BY <1>7 DEF PlaceMarket, IdleLoop
  <2>2. orders' \in Seq(Order)
    BY <1>0, <1>7, <1>a, BookPlaced DEF PlaceMarket
  <2>3. CASE Raise
    BY <2>1, <2>2, <2>3, RaiseKeeps
  <2>4. CASE loop' = [loop EXCEPT !.at = "await", !.id = Len(orders) + 1] /\ row' = row
    <3>1. loop' \in Loops /\ loop'.task = loop.task /\ loop'.at = "await"
      BY <1>0, <1>b, <2>4 DEF Loops, Places
    <3> QED BY <2>1, <2>2, <2>4, <3>1, MoveOn
  <2> QED BY <1>7, <2>3, <2>4 DEF PlaceMarket
<1>8. CASE AwaitRejected
  <2>1. loop # IdleLoop /\ Raise /\ UNCHANGED <<orders, inbox, held, booked>>
    BY <1>8 DEF AwaitRejected, IdleLoop
  <2> QED BY <1>0, <2>1, RaiseKeeps
<1>9. CASE AwaitTimeout
  <2>1. At(IF loop.task = "entry" THEN "confirm" ELSE "book")
    BY <1>9 DEF AwaitTimeout
  <2>2. loop # IdleLoop /\ UNCHANGED <<orders, inbox, held, row, booked>>
    BY <1>9 DEF AwaitTimeout, IdleLoop
  <2>3. "confirm" \in Places /\ "book" \in Places
    BY DEF Places
  <2> QED BY <1>0, <1>d, <2>1, <2>2, <2>3, MoveOn
<1>10. CASE PlaceChildren
  <2>1. loop # IdleLoop /\ loop.task = "entry" /\ UNCHANGED <<inbox, held, row, booked>>
    BY <1>10, <1>c DEF PlaceChildren, PlaceChild, IdleLoop
  <2>2. orders' \in Seq(Order)
    BY <1>0, <1>10, BookPlaced DEF PlaceChildren, PlaceChild
  <2>3. PICK place \in {"target", "confirm"} : At(place)
    BY <1>10 DEF PlaceChildren, PlaceChild
  <2>4. place \in Places /\ place # "book"
    BY DEF Places
  <2> QED BY <1>d, <2>1, <2>2, <2>3, <2>4, MoveOn
<1> QED BY <1>1, <1>2, <1>3, <1>4, <1>5, <1>6, <1>7, <1>8, <1>9, <1>10

LEMMA NextKeeps ==
  ASSUME IInv, [Next]_vars
  PROVE  IInv'
<1>0. orders \in Seq(Order)
  BY DEF IInv, RecordType
<1>1. CASE LoopStep
  <2>1. CASE BookExit
    BY <2>1, FinalizeKeeps DEF BookExit
  <2> QED BY <1>1, <2>1, TakeApprovalKeeps, TakeExitKeeps, RecordKeeps, BusyStepKeeps DEF LoopStep
<1>2. CASE PollerStep
  <2>1. CASE BookChild
    BY <2>1, FinalizeKeeps DEF BookChild
  <2>2. CASE CancelCounterpart
    <3>1. orders' \in Seq(Order)
      BY <2>2, BookCancelled DEF CancelCounterpart, IInv
    <3> QED BY <2>2, <3>1, AsideKeeps DEF CancelCounterpart
  <2>3. CASE Fetch \/ Scan
    BY <1>0, <2>3, AsideKeeps DEF Fetch, Scan
  <2> QED BY <1>2, <2>1, <2>2, <2>3 DEF PollerStep
<1>3. CASE AskExit
  BY <1>3, AskExitKeeps
<1>4. CASE Broker
  <2>1. orders' \in Seq(Order)
    BY <1>4, BookMarked DEF Broker, Fill, Reject, IInv
  <2> QED BY <1>4, <2>1, AsideKeeps DEF Broker
<1>5. CASE UNCHANGED vars
  BY <1>0, <1>5, AsideKeeps DEF vars
<1> QED BY <1>1, <1>2, <1>3, <1>4, <1>5 DEF Next

LEMMA InitIInv == Init => IInv
<1> SUFFICES ASSUME Init PROVE IInv
  OBVIOUS
<1>1. RecordType
  <2>1. inbox \in Seq({"RISK_APPROVED", "EXIT_ORDER"}) /\ orders \in Seq(Order)
    BY DEF Init
  <2>2. held \in BOOLEAN /\ booked \in Nat /\ loop \in Loops
    BY IdleType DEF Init
  <2> QED BY <2>1, <2>2 DEF RecordType, Loops
<1>2. BookingInv
  BY DEF Init, BookingInv, ExitBookedOnce, EntryUnanswered, IdleLoop
<1> QED BY <1>1, <1>2 DEF IInv

(* The inductive invariant. *)
THEOREM InductiveInvariant == Spec => []IInv
<1>1. Init => IInv
  BY InitIInv
<1>2. IInv /\ [Next]_vars => IInv'
  BY NextKeeps
<1> QED BY <1>1, <1>2, PTL DEF Spec

\* The exit of a trade is booked once, whichever of the two coroutines gets to
\* it first and however their broker calls interleave.
THEOREM BookedOnce == Spec => []ExitBookedOnce
<1>1. IInv => ExitBookedOnce
  BY DEF IInv, BookingInv
<1> QED BY <1>1, InductiveInvariant, PTL

-----------------------------------------------------------------------------
(* What is booked was filled.  The records of the two coroutines point at      *)
(* orders of the right side, and the broker's book never takes a fill back.    *)

\* Order i is an order of that side; it was filled, or given up on.
Own(i, side) == i \in Ids /\ orders[i].side = side
Done(i, side) == Own(i, side) /\ (Status(i) = "filled" \/ i \in givenUp)

LoopOwns ==
  /\ loop.at \in {"check", "cancel", "await"} => Own(loop.id, Side)
  /\ loop.at \in {"stop", "target", "confirm"} => Own(loop.id, "BUY")
  /\ loop.at = "book" => Done(loop.id, "SELL")

\* The poller only looks at trades that were entered, whose children stay.
PollerOwns ==
  /\ \A i \in poller.filled : Status(i) = "filled"
  /\ poller.at \in {"counterpart", "book"} => Done(poller.child, "SELL")

PollerLate ==
  /\ poller.at # "sleep" => row # "APPROVED"
  /\ poller.at = "counterpart" => Counterpart(poller.child) \in Ids

ChildrenOwn == \A c \in {"stop", "target"} : children[c] # 0 => Own(children[c], "SELL")

FillInv == TypeOK /\ LoopOwns /\ PollerOwns /\ PollerLate /\ ChildrenOwn /\ BookedOrdersFilled

\* The book only grows, and keeps its fills.
BookGrows ==
  /\ orders' \in Seq(Order)
  /\ givenUp \subseteq givenUp'
  /\ \A i \in Ids : /\ i \in DOMAIN orders' /\ orders'[i].side = orders[i].side
                    /\ Status(i) = "filled" => orders'[i].status = "filled"

LEMMA OwnStays ==
  ASSUME BookGrows, NEW i, NEW side
  PROVE  /\ Own(i, side) => i \in DOMAIN orders' /\ orders'[i].side = side
         /\ Done(i, side) => /\ i \in DOMAIN orders' /\ orders'[i].side = side
                             /\ orders'[i].status = "filled" \/ i \in givenUp'
BY DEF BookGrows, Own, Done, Ids, Status

\* What a step leaves alone stays true of the larger book.
LEMMA PartsStay ==
  ASSUME FillInv, BookGrows
  PROVE  /\ UNCHANGED loop => LoopOwns'
         /\ UNCHANGED poller => PollerOwns'
         /\ UNCHANGED <<poller, row, children>> => PollerLate'
         /\ UNCHANGED children => ChildrenOwn'
         /\ UNCHANGED row => BookedOrdersFilled'
         /\ Ids \subseteq DOMAIN orders'
<1>1. ASSUME UNCHANGED loop PROVE LoopOwns'
  BY <1>1, OwnStays DEF FillInv, LoopOwns, Own, Done, Ids, Status, Side
<1>2. ASSUME UNCHANGED poller PROVE PollerOwns'
  <2>1. \A i \in poller.filled : i \in Ids
    BY DEF FillInv, TypeOK
  <2>2. \A i \in poller'.filled : orders'[i].status = "filled"
    BY <1>2, <2>1 DEF FillInv, PollerOwns, BookGrows, Status
  <2> QED BY <1>2, <2>2, OwnStays DEF FillInv, PollerOwns, Own, Done, Ids, Status
<1>3. ASSUME UNCHANGED <<poller, row, children>> PROVE PollerLate'
  BY <1>3 DEF FillInv, PollerLate, BookGrows, Ids, Counterpart
<1>4. ASSUME UNCHANGED children PROVE ChildrenOwn'
  BY <1>4, OwnStays DEF FillInv, ChildrenOwn, Own, Ids
<1>5. ASSUME UNCHANGED row PROVE BookedOrdersFilled'
  BY <1>5 DEF FillInv, BookedOrdersFilled, BookGrows, Ids, Status
<1>6. Ids \subseteq DOMAIN orders'
  BY DEF BookGrows
<1> QED BY <1>1, <1>2, <1>3, <1>4, <1>5, <1>6

LEMMA SameBook ==
  ASSUME FillInv, UNCHANGED orders, givenUp \subseteq givenUp'
  PROVE  BookGrows
BY DEF FillInv, TypeOK, BookGrows, Ids, Status

LEMMA PlacedGrows ==
  ASSUME IInv, FillInv, NEW side \in {"BUY", "SELL"},
         NEW kind \in {"limit", "market", "stop", "target"}, Place(side, kind), UNCHANGED givenUp
  PROVE  /\ BookGrows /\ Len(orders) + 1 \in DOMAIN orders'
         /\ orders'[Len(orders) + 1].side = side /\ Len(orders) + 1 # 0
<1>1. orders \in Seq(Order) /\ orders' \in Seq(Order)
  BY BookPlaced DEF IInv, RecordType
<1>2. orders' = Append(orders, [side |-> side, kind |-> kind, status |-> "live"])
  BY DEF Place
<1>3. \A i \in Ids : i \in DOMAIN orders' /\ orders'[i] = orders[i]
  BY <1>1, <1>2 DEF Ids
<1> QED BY <1>1, <1>2, <1>3 DEF BookGrows, Status

LEMMA MarkedGrows ==
  ASSUME IInv, FillInv, NEW i \in Ids, Status(i) = "live",
         NEW s \in {"filled", "cancelled", "rejected"},
         orders' = [orders EXCEPT ![i].status = s], UNCHANGED givenUp
  PROVE  BookGrows
<1>1. orders \in Seq(Order) /\ orders' \in Seq(Order)
  BY BookMarked DEF IInv, RecordType
<1>2. \A j \in Ids : j \in DOMAIN orders' /\ (j # i => orders'[j] = orders[j])
  BY <1>1 DEF Ids
<1>3. orders'[i] = [orders[i] EXCEPT !.status = s]
  BY <1>1 DEF Ids
<1>4. orders[i] \in Order
  BY <1>1 DEF Ids
<1>5. orders'[i].side = orders[i].side
  BY <1>3, <1>4 DEF Order
<1> QED BY <1>1, <1>2, <1>5 DEF BookGrows, Status

LEMMA CancelGrows ==
  ASSUME IInv, FillInv, NEW i \in Ids, Cancel(i), UNCHANGED givenUp
  PROVE  BookGrows /\ stray' \subseteq Ids
<1>1. stray' \subseteq Ids
  BY DEF Cancel, FillInv, TypeOK
<1>2. CASE UNCHANGED orders
  BY <1>1, <1>2, SameBook
<1>3. CASE Status(i) = "live" /\ orders' = [orders EXCEPT ![i].status = "cancelled"]
  BY <1>1, <1>3, MarkedGrows
<1> QED BY <1>1, <1>2, <1>3 DEF Cancel

-----------------------------------------------------------------------------
(* A step of the loop that books nothing and places no child.                  *)
LEMMA LoopMoves ==
  ASSUME FillInv, BookGrows, UNCHANGED <<poller, held, booked, children>>,
         LoopOwns', row' \in {row, "FAILED"},
         inbox' \in Seq({"RISK_APPROVED", "EXIT_ORDER"}), asked' \in 0 .. MaxExits,
         loop' \in [at : Places, task : {"none", "entry", "exit"}, attempt : Nat,
                    id : {0} \cup DOMAIN orders'],
         givenUp' \subseteq DOMAIN orders', stray' \subseteq DOMAIN orders',
         refused' \subseteq {"stop", "target"}, exitFailed' \in BOOLEAN
  PROVE  FillInv'
<1>1. Ids \subseteq DOMAIN orders' /\ PollerOwns' /\ ChildrenOwn'
  BY PartsStay
<1>2. poller' \in [at : {"sleep", "scan", "counterpart", "book"},
                   filled : SUBSET DOMAIN orders', child : {0} \cup DOMAIN orders']
  BY <1>1 DEF FillInv, TypeOK
<1>3. children' \in [{"stop", "target"} -> {0} \cup DOMAIN orders']
  BY <1>1 DEF FillInv, TypeOK
<1>4. TypeOK'
  BY <1>2, <1>3 DEF FillInv, TypeOK, BookGrows, Ids
<1>5. PollerLate' /\ BookedOrdersFilled'
  <2>1. CASE row' = row
    BY <2>1, PartsStay
  <2>2. CASE row' = "FAILED"
    BY <1>1, <2>2 DEF FillInv, PollerLate, BookedOrdersFilled, Ids, Counterpart
  <2> QED BY <2>1, <2>2
<1> QED BY <1>1, <1>4, <1>5 DEF FillInv

LoopTypes == [at : Places, task : {"none", "entry", "exit"}, attempt : Nat, id : {0} \cup Ids]

\* Moving on at the same order.
LEMMA AtMoves ==
  ASSUME FillInv, BookGrows, NEW place \in Places, At(place)
  PROVE  /\ loop'.at = place /\ loop'.id = loop.id /\ loop'.task = loop.task
         /\ loop' \in [at : Places, task : {"none", "entry", "exit"}, attempt : Nat,
                       id : {0} \cup DOMAIN orders']
<1>1. loop \in LoopTypes /\ Ids \subseteq DOMAIN orders'
  BY PartsStay DEF FillInv, TypeOK, LoopTypes
<1>2. loop' = [loop EXCEPT !.at = place]
  BY DEF At
<1> QED BY <1>1, <1>2 DEF LoopTypes

LEMMA NextAttempt ==
  ASSUME FillInv, BookGrows, loop' = AfterAttempt(loop.attempt + 1)
  PROVE  /\ LoopOwns'
         /\ loop' \in [at : Places, task : {"none", "entry", "exit"}, attempt : Nat,
                       id : {0} \cup DOMAIN orders']
<1> DEFINE k == loop.attempt + 1
           place == IF k < Attempts THEN "limit" ELSE "market"
<1>1. loop \in LoopTypes /\ Ids \subseteq DOMAIN orders'
  BY PartsStay DEF FillInv, TypeOK, LoopTypes
<1>2. k \in Nat /\ place \in {"limit", "market"} /\ place \in Places
  BY <1>1 DEF LoopTypes, Places
<1>3. loop' = [loop EXCEPT !.at = place, !.attempt = k]
  BY DEF AfterAttempt
<1> HIDE DEF k, place
<1>4. loop'.at \in {"limit", "market"}
  BY <1>1, <1>2, <1>3 DEF LoopTypes
<1>5. loop' \in [at : Places, task : {"none", "entry", "exit"}, attempt : Nat,
                 id : {0} \cup DOMAIN orders']
  BY <1>1, <1>2, <1>3 DEF LoopTypes
<1> QED BY <1>4, <1>5 DEF LoopOwns

LEMMA IdleOwns ==
  ASSUME loop' = IdleLoop
  PROVE  /\ LoopOwns'
         /\ loop' \in [at : Places, task : {"none", "entry", "exit"}, attempt : Nat,
                       id : {0} \cup DOMAIN orders']
BY DEF IdleLoop, LoopOwns, Places

\* The types of what a step leaves alone.
LEMMA HeldTypes ==
  ASSUME FillInv, BookGrows
  PROVE  /\ inbox \in Seq({"RISK_APPROVED", "EXIT_ORDER"}) /\ asked \in 0 .. MaxExits
         /\ givenUp \subseteq DOMAIN orders' /\ stray \subseteq DOMAIN orders'
         /\ refused \subseteq {"stop", "target"} /\ exitFailed \in BOOLEAN
BY PartsStay DEF FillInv, TypeOK

\* Steps of the loop that leave the book and everything but its place alone.
LEMMA QuietStepFills ==
  ASSUME FillInv,
         TakeApproval \/ TakeExit \/ Quote \/ CheckFilled \/ CheckUnfilled \/ AwaitFilled
  PROVE  FillInv'
<1>1. /\ UNCHANGED <<orders, poller, held, children, row, booked, asked, givenUp, stray, refused,
                     exitFailed>>
  BY DEF TakeApproval, TakeExit, Quote, CheckFilled, CheckUnfilled, AwaitFilled
<1>2. BookGrows
  BY <1>1, SameBook
<1>3. inbox' \in Seq({"RISK_APPROVED", "EXIT_ORDER"})
  <2>1. inbox' = inbox \/ (inbox # <<>> /\ inbox' = Tail(inbox))
    BY DEF TakeApproval, TakeExit, Quote, CheckFilled, CheckUnfilled, AwaitFilled
  <2>2. inbox \in Seq({"RISK_APPROVED", "EXIT_ORDER"})
    BY DEF FillInv, TypeOK
  <2> QED BY <2>1, <2>2
<1>4. LoopOwns' /\ loop' \in [at : Places, task : {"none", "entry", "exit"}, attempt : Nat,
                              id : {0} \cup DOMAIN orders']
  <2>1. CASE TakeApproval
    BY <2>1 DEF TakeApproval, LoopOwns, Places
  <2>2. CASE TakeExit /\ held
    BY <2>2 DEF TakeExit, LoopOwns, Places
  <2>3. CASE TakeExit /\ ~held
    <3>1. loop' = loop
      BY <2>3 DEF TakeExit
    <3> QED BY <1>1, <1>2, <3>1, PartsStay DEF FillInv, TypeOK
  <2>4. CASE Quote
    <3>1. PICK place \in {"limit", "market"} : At(place)
      BY <2>4 DEF Quote
    <3>2. place \in Places
      BY DEF Places
    <3> QED BY <1>2, <3>1, <3>2, AtMoves DEF LoopOwns
  <2>5. CASE CheckFilled \/ AwaitFilled
    <3>1. Own(loop.id, Side) /\ Status(loop.id) = "filled"
      BY <2>5 DEF CheckFilled, AwaitFilled, Complete, FillInv, LoopOwns
    <3>2. CASE loop.task = "entry"
      <4>1. At("stop") /\ "stop" \in Places
        BY <2>5, <3>2 DEF CheckFilled, AwaitFilled, Places
      <4> QED BY <1>1, <1>2, <3>1, <3>2, <4>1, AtMoves DEF LoopOwns, Own, Side, Ids
    <3>3. CASE loop.task # "entry"
      <4>1. At("book") /\ "book" \in Places
        BY <2>5, <3>3 DEF CheckFilled, AwaitFilled, Places
      <4> QED BY <1>1, <1>2, <3>1, <3>3, <4>1, AtMoves DEF LoopOwns, Own, Done, Side, Ids, Status
    <3> QED BY <3>2, <3>3
  <2>6. CASE CheckUnfilled
    <3>1. At("cancel") /\ "cancel" \in Places /\ Own(loop.id, Side)
      BY <2>6 DEF CheckUnfilled, Places, FillInv, LoopOwns
    <3> QED BY <1>1, <1>2, <3>1, AtMoves DEF LoopOwns, Own, Side, Ids
  <2> QED BY <2>1, <2>2, <2>3, <2>4, <2>5, <2>6
<1> QED BY <1>1, <1>2, <1>3, <1>4, HeldTypes, LoopMoves

LEMMA CancelChildrenFills ==
  ASSUME IInv, FillInv, CancelChildren
  PROVE  FillInv'
<1>1. PICK c \in {children.stop, children.target}, place \in {"cancelTarget", "quote"} :
        /\ At(place)
        /\ IF c # 0 THEN Cancel(c) ELSE UNCHANGED <<orders, stray>>
  BY DEF CancelChildren, CancelChild
<1>2. UNCHANGED <<inbox, poller, held, children, row, booked, asked, givenUp, refused, exitFailed>>
  BY DEF CancelChildren, CancelChild
<1>3. c # 0 => c \in Ids
  BY DEF FillInv, TypeOK
<1>4. BookGrows /\ stray' \subseteq Ids
  <2>1. CASE c # 0
    BY <1>1, <1>2, <1>3, <2>1, CancelGrows
  <2>2. CASE c = 0
    BY <1>1, <1>2, <2>2, SameBook DEF FillInv, TypeOK
  <2> QED BY <2>1, <2>2
<1>5. place \in Places
  BY DEF Places
<1>6. LoopOwns' /\ loop' \in [at : Places, task : {"none", "entry", "exit"}, attempt : Nat,
                              id : {0} \cup DOMAIN orders']
  BY <1>1, <1>4, <1>5, AtMoves DEF LoopOwns
<1>7. stray' \subseteq DOMAIN orders'
  BY <1>4, PartsStay
<1> QED BY <1>2, <1>4, <1>6, <1>7, HeldTypes, LoopMoves

LEMMA CancelAttemptFills ==
  ASSUME IInv, FillInv, CancelAttempt
  PROVE  FillInv'
<1>1. loop.id \in Ids
  BY DEF CancelAttempt, FillInv, LoopOwns, Own
<1>2. UNCHANGED <<inbox, poller, held, children, row, booked, asked, givenUp, refused, exitFailed>>
  BY DEF CancelAttempt
<1>3. BookGrows /\ stray' \subseteq Ids
  BY <1>1, <1>2, CancelGrows DEF CancelAttempt
<1>4. stray' \subseteq DOMAIN orders'
  BY <1>3, PartsStay
<1>5. LoopOwns' /\ loop' \in [at : Places, task : {"none", "entry", "exit"}, attempt : Nat,
                              id : {0} \cup DOMAIN orders']
  BY <1>3, NextAttempt DEF CancelAttempt
<1> QED BY <1>2, <1>3, <1>4, <1>5, HeldTypes, LoopMoves

LEMMA RaiseFills ==
  ASSUME FillInv, BookGrows, Raise, UNCHANGED <<inbox, poller, held, children, booked, asked,
         givenUp, refused>>, stray' \subseteq DOMAIN orders'
  PROVE  FillInv'
<1>1. LoopOwns' /\ loop' \in [at : Places, task : {"none", "entry", "exit"}, attempt : Nat,
                              id : {0} \cup DOMAIN orders']
  BY IdleOwns DEF Raise
<1>2. row' \in {row, "FAILED"} /\ exitFailed' \in BOOLEAN
  BY DEF Raise
<1> QED BY <1>1, <1>2, HeldTypes, LoopMoves

\* An order of the loop, sent or lost.
LEMMA PlaceOrderFills ==
  ASSUME IInv, FillInv, PlaceLimit \/ PlaceMarket
  PROVE  FillInv'
<1>0. Side \in {"BUY", "SELL"}
  BY DEF Side
<1>1. UNCHANGED <<inbox, poller, held, children, booked, asked, givenUp, refused>>
  BY DEF PlaceLimit, PlaceMarket
<1> DEFINE new == Len(orders) + 1
<1>2. CASE UNCHANGED <<orders, stray>>
  <2>1. BookGrows /\ stray' \subseteq DOMAIN orders'
    BY <1>1, <1>2, SameBook DEF FillInv, TypeOK, Ids
  <2>2. CASE loop' = AfterAttempt(loop.attempt + 1) /\ UNCHANGED <<row, exitFailed>>
    BY <1>1, <1>2, <2>1, <2>2, NextAttempt, HeldTypes, LoopMoves
  <2>3. CASE Raise
    BY <1>1, <2>1, <2>3, RaiseFills
  <2>4. ~(\E kind \in {"limit", "market"} : Place(Side, kind))
    BY <1>2 DEF Place, FillInv, TypeOK
  <2> QED BY <2>2, <2>3, <2>4 DEF PlaceLimit, PlaceMarket
<1>3. ASSUME NEW kind \in {"limit", "market"}, Place(Side, kind)
      PROVE  FillInv'
  <2>1. BookGrows /\ new \in DOMAIN orders' /\ orders'[new].side = Side /\ new # 0
    BY <1>0, <1>1, <1>3, PlacedGrows
  <2>2. stray' \in {stray, stray \cup {new}}
    BY <1>3 DEF PlaceLimit, PlaceMarket
  <2>3. stray' \subseteq DOMAIN orders'
    BY <2>1, <2>2, HeldTypes
  <2>4. CASE loop' = AfterAttempt(loop.attempt + 1) /\ UNCHANGED <<row, exitFailed>>
    BY <1>1, <2>1, <2>3, <2>4, NextAttempt, HeldTypes, LoopMoves
  <2>5. CASE Raise
    BY <1>1, <2>1, <2>3, <2>5, RaiseFills
  <2>6. CASE /\ \E place \in {"check", "await"} : loop' = [loop EXCEPT !.at = place, !.id = new]
             /\ UNCHANGED <<row, exitFailed>>
    <3>1. PICK place \in {"check", "await"} : loop' = [loop EXCEPT !.at = place, !.id = new]
      BY <2>6
    <3>2. loop \in LoopTypes /\ place \in Places
      BY DEF FillInv, TypeOK, LoopTypes, Places
    <3> HIDE DEF new
    <3>3. /\ loop'.at = place /\ loop'.id = new /\ loop'.task = loop.task
          /\ loop' \in [at : Places, task : {"none", "entry", "exit"}, attempt : Nat,
                        id : {0} \cup DOMAIN orders']
      BY <2>1, <3>1, <3>2 DEF LoopTypes
    <3>4. LoopOwns'
      BY <2>1, <3>3 DEF LoopOwns, Own, Side, Ids
    <3> QED BY <1>1, <2>1, <2>3, <2>6, <3>3, <3>4, HeldTypes, LoopMoves
  <2> QED BY <2>4, <2>5, <2>6 DEF PlaceLimit, PlaceMarket
<1> QED BY <1>2, <1>3 DEF PlaceLimit, PlaceMarket

LEMMA AwaitFills ==
  ASSUME FillInv, AwaitTimeout \/ AwaitRejected
  PROVE  FillInv'
<1>1. UNCHANGED <<orders, inbox, poller, held, children, booked, asked, stray, refused>>
  BY DEF AwaitTimeout, AwaitRejected
<1>2. CASE AwaitRejected
  <2>1. BookGrows /\ stray' \subseteq DOMAIN orders'
    BY <1>1, <1>2, SameBook DEF AwaitRejected, FillInv, TypeOK, Ids
  <2> QED BY <1>1, <1>2, <2>1, RaiseFills DEF AwaitRejected
<1>3. CASE AwaitTimeout
  <2>1. givenUp' = givenUp \cup {loop.id} /\ Own(loop.id, Side) /\ UNCHANGED <<row, exitFailed>>
    BY <1>3 DEF AwaitTimeout, FillInv, LoopOwns
  <2>2. BookGrows /\ givenUp' \subseteq DOMAIN orders'
    BY <1>1, <2>1, SameBook, HeldTypes DEF FillInv, TypeOK, Own, Ids
  <2>3. CASE loop.task = "entry"
    <3>1. At("confirm") /\ "confirm" \in Places
      BY <1>3, <2>3 DEF AwaitTimeout, Places
    <3>2. LoopOwns' /\ loop' \in [at : Places, task : {"none", "entry", "exit"}, attempt : Nat,
                                  id : {0} \cup DOMAIN orders']
      BY <1>1, <2>1, <2>2, <2>3, <3>1, AtMoves DEF LoopOwns, Own, Side, Ids
    <3> QED BY <1>1, <2>1, <2>2, <3>2, HeldTypes, LoopMoves
  <2>4. CASE loop.task # "entry"
    <3>1. At("book") /\ "book" \in Places
      BY <1>3, <2>4 DEF AwaitTimeout, Places
    <3>2. LoopOwns' /\ loop' \in [at : Places, task : {"none", "entry", "exit"}, attempt : Nat,
                                  id : {0} \cup DOMAIN orders']
      BY <1>1, <2>1, <2>2, <2>4, <3>1, AtMoves DEF LoopOwns, Own, Done, Side, Ids
    <3> QED BY <1>1, <2>1, <2>2, <3>2, HeldTypes, LoopMoves
  <2> QED BY <2>3, <2>4
<1> QED BY <1>2, <1>3

\* A trade is only given children while it is entered, when the poller sleeps.
LEMMA PlaceChildFills ==
  ASSUME IInv, FillInv, NEW child \in {"stop", "target"}, NEW next \in {"target", "confirm"},
         PlaceChild(child, child, next)
  PROVE  FillInv'
<1> DEFINE new == Len(orders) + 1
<1>1. UNCHANGED <<inbox, poller, held, row, booked, asked, givenUp, exitFailed>>
  BY DEF PlaceChild
<1>2. At(next) /\ next \in Places /\ loop.at = child
  BY DEF PlaceChild, Places
<1>3. Own(loop.id, "BUY")
  BY <1>2 DEF FillInv, LoopOwns
<1>4. refused' \subseteq {"stop", "target"}
  BY DEF PlaceChild, FillInv, TypeOK
<1>5. ASSUME BookGrows
      PROVE  LoopOwns' /\ loop' \in [at : Places, task : {"none", "entry", "exit"}, attempt : Nat,
                                     id : {0} \cup DOMAIN orders']
  BY <1>2, <1>3, <1>5, AtMoves, OwnStays DEF LoopOwns, Own, Ids
<1>6. CASE UNCHANGED <<orders, stray, children>>
  <2>1. BookGrows
    BY <1>1, <1>6, SameBook
  <2> QED BY <1>1, <1>4, <1>5, <1>6, <2>1, HeldTypes, LoopMoves
<1>7. CASE Place("SELL", child)
  <2>1. BookGrows /\ new \in DOMAIN orders' /\ orders'[new].side = "SELL" /\ new # 0
    BY <1>1, <1>7, PlacedGrows
  <2> HIDE DEF new
  <2>2. CASE UNCHANGED children
    <3>1. stray' \subseteq DOMAIN orders'
      BY <2>1, HeldTypes DEF PlaceChild, new
    <3> QED BY <1>1, <1>4, <1>5, <2>1, <2>2, <3>1, HeldTypes, LoopMoves
  <2>3. CASE children' = [children EXCEPT ![child] = new] /\ UNCHANGED stray
    <3>1. poller.at = "sleep"
      BY <1>2 DEF IInv, BookingInv, EntryUnanswered, FillInv, PollerLate
    <3>2. PollerLate'
      BY <1>1, <3>1 DEF PollerLate
    <3>3. PollerOwns' /\ BookedOrdersFilled' /\ Ids \subseteq DOMAIN orders'
      BY <1>1, <2>1, PartsStay
    <3>4. children' \in [{"stop", "target"} -> {0} \cup DOMAIN orders']
      BY <2>1, <2>3, <3>3 DEF FillInv, TypeOK
    <3>5. ChildrenOwn'
      <4>1. \A c \in {"stop", "target"} \ {child} : children'[c] = children[c]
        BY <2>3 DEF FillInv, TypeOK
      <4>2. children'[child] = new
        BY <2>3 DEF FillInv, TypeOK
      <4>3. \A c \in {"stop", "target"} \ {child} : children[c] # 0 =>
              children[c] \in DOMAIN orders' /\ orders'[children[c]].side = "SELL"
        BY <2>1, OwnStays DEF FillInv, ChildrenOwn
      <4> QED BY <2>1, <4>1, <4>2, <4>3 DEF ChildrenOwn, Own, Ids
    <3>6. poller' \in [at : {"sleep", "scan", "counterpart", "book"},
                       filled : SUBSET DOMAIN orders', child : {0} \cup DOMAIN orders']
      BY <1>1, <3>3 DEF FillInv, TypeOK
    <3>7. TypeOK'
      BY <1>1, <1>4, <1>5, <2>1, <2>3, <3>4, <3>6, HeldTypes
         DEF FillInv, TypeOK, BookGrows, Ids
    <3> QED BY <1>5, <2>1, <3>2, <3>3, <3>5, <3>7 DEF FillInv
  <2> QED BY <2>2, <2>3 DEF PlaceChild, new
<1> QED BY <1>6, <1>7 DEF PlaceChild

\* A step that leaves the book, the orders of the loop and the children alone.
LEMMA RecordsMove ==
  ASSUME FillInv, UNCHANGED <<orders, inbox, children, asked, stray, refused, exitFailed>>,
         givenUp \subseteq givenUp', givenUp' \subseteq Ids,
         loop' = loop \/ loop' = IdleLoop,
         held' \in BOOLEAN, booked' \in Nat, row' \in {"FILLED", "CLOSED", row},
         poller' \in [at : {"sleep", "scan", "counterpart", "book"}, filled : SUBSET Ids,
                      child : {0} \cup Ids],
         PollerOwns', PollerLate', BookedOrdersFilled'
  PROVE  FillInv'
<1>1. BookGrows
  BY SameBook
<1>2. ChildrenOwn'
  BY <1>1, PartsStay
<1>3. LoopOwns' /\ loop' \in LoopTypes
  BY <1>1, PartsStay, IdleOwns DEF FillInv, TypeOK, LoopTypes, Ids
<1>4. TypeOK'
  BY <1>3 DEF FillInv, TypeOK, LoopTypes, Ids
<1> QED BY <1>2, <1>3, <1>4 DEF FillInv

LEMMA RecordFills ==
  ASSUME IInv, FillInv, Record
  PROVE  FillInv'
<1>1. /\ UNCHANGED <<orders, inbox, poller, children, booked, asked, stray, refused, exitFailed>>
      /\ loop' = IdleLoop /\ held' = TRUE /\ row' = "FILLED"
      /\ givenUp' \in {givenUp, givenUp \cup {loop.id}}
      /\ Status(loop.id) = "filled" \/ loop.id \in givenUp'
  BY DEF Record
<1>2. Own(loop.id, "BUY")
  BY DEF Record, FillInv, LoopOwns
<1>3. givenUp \subseteq givenUp' /\ givenUp' \subseteq Ids
  BY <1>1, <1>2 DEF Own, FillInv, TypeOK
<1>4. BookGrows
  BY <1>1, <1>3, SameBook
<1>5. PollerOwns'
  BY <1>1, <1>4, PartsStay
<1>6. PollerLate'
  BY <1>1 DEF FillInv, PollerLate, Counterpart, Ids
<1>7. BookedOrdersFilled'
  BY <1>1, <1>2 DEF BookedOrdersFilled, Own, Ids, Status
<1>8. /\ booked' \in Nat
      /\ poller' \in [at : {"sleep", "scan", "counterpart", "book"}, filled : SUBSET Ids,
                      child : {0} \cup Ids]
  BY <1>1 DEF FillInv, TypeOK
<1> QED BY <1>1, <1>3, <1>5, <1>6, <1>7, <1>8, RecordsMove

\* Booking an exit, for an order that was sold.
LEMMA BookingFills ==
  ASSUME IInv, FillInv, Finalize,
         UNCHANGED <<orders, inbox, children, asked, givenUp, stray, refused, exitFailed>>,
         \/ loop.at = "book" /\ loop' = IdleLoop /\ poller' = poller
         \/ poller.at = "book" /\ poller' = IdlePoller /\ loop' = loop
  PROVE  FillInv'
<1>1. \E i \in Ids : Done(i, "SELL")
  BY DEF FillInv, LoopOwns, PollerOwns, Done, Own
<1>2. BookGrows
  BY SameBook
<1>3. \/ held /\ held' = FALSE /\ row' = "CLOSED" /\ booked' = booked + 1 /\ row = "FILLED"
      \/ UNCHANGED <<held, row, booked>>
  BY DEF Finalize, Known, IInv, BookingInv, ExitBookedOnce
<1>4. BookedOrdersFilled'
  <2>1. CASE UNCHANGED row
    BY <1>2, <2>1, PartsStay
  <2>2. CASE row = "FILLED"
    BY <1>1, <2>2 DEF FillInv, BookedOrdersFilled, Done, Own, Ids, Status
  <2> QED BY <1>3, <2>1, <2>2
<1>5. PollerOwns' /\ PollerLate'
  <2>1. CASE poller' = poller
    BY <1>2, <1>3, <2>1, PartsStay DEF FillInv, PollerLate, Counterpart, Ids
  <2>2. CASE poller' = IdlePoller
    BY <2>2 DEF PollerOwns, PollerLate, IdlePoller
  <2> QED BY <2>1, <2>2
<1>6. /\ held' \in BOOLEAN /\ booked' \in Nat /\ row' \in {"CLOSED", row}
      /\ poller' \in [at : {"sleep", "scan", "counterpart", "book"}, filled : SUBSET Ids,
                      child : {0} \cup Ids]
  <2>1. booked \in Nat /\ held \in BOOLEAN
    BY DEF FillInv, TypeOK
  <2>2. booked' \in Nat /\ held' \in BOOLEAN /\ row' \in {"CLOSED", row}
    <3>1. CASE held' = FALSE /\ row' = "CLOSED" /\ booked' = booked + 1
      <4>1. booked' \in Nat
        BY <2>1, <3>1
      <4> QED BY <3>1, <4>1
    <3>2. CASE UNCHANGED <<held, row, booked>>
      BY <2>1, <3>2
    <3> QED BY <1>3, <3>1, <3>2
  <2>3. poller' \in [at : {"sleep", "scan", "counterpart", "book"}, filled : SUBSET Ids,
                      child : {0} \cup Ids]
    BY DEF FillInv, TypeOK, IdlePoller
  <2> QED BY <2>2, <2>3
<1>7. row' \in {"FILLED", "CLOSED", row} /\ givenUp \subseteq givenUp' /\ givenUp' \subseteq Ids
      /\ (loop' = loop \/ loop' = IdleLoop)
  BY <1>6 DEF FillInv, TypeOK
<1> QED BY <1>4, <1>5, <1>6, <1>7, RecordsMove

\* The poller fetches the book and looks at the children of a trade that is held.
LEMMA LookFills ==
  ASSUME IInv, FillInv, Fetch \/ Scan
  PROVE  FillInv'
<1>1. UNCHANGED <<orders, inbox, loop, held, children, row, booked, asked, givenUp, stray, refused,
                  exitFailed>>
  BY DEF Fetch, Scan
<1>2. BookedOrdersFilled' /\ held' \in BOOLEAN /\ booked' \in Nat /\ givenUp' \subseteq Ids
  BY <1>1, SameBook, PartsStay DEF FillInv, TypeOK
<1> DEFINE PollerType == [at : {"sleep", "scan", "counterpart", "book"}, filled : SUBSET Ids,
                          child : {0} \cup Ids]
<1>3. poller \in PollerType
  BY DEF FillInv, TypeOK
<1>4. held => row # "APPROVED"
  BY DEF IInv, BookingInv, ExitBookedOnce
<1>5. poller' \in PollerType /\ PollerOwns' /\ PollerLate'
  <2>1. CASE Fetch
    <3>1. poller' = [poller EXCEPT !.at = "scan", !.filled = {i \in Ids : Status(i) = "filled"}] /\ held
      BY <2>1 DEF Fetch, Active
    <3>2. /\ poller' \in PollerType /\ poller'.at = "scan"
          /\ poller'.filled = {i \in Ids : Status(i) = "filled"}
      BY <1>3, <3>1
    <3> QED BY <1>1, <1>4, <3>1, <3>2 DEF PollerOwns, PollerLate, Ids, Status
  <2>2. CASE Scan /\ poller' = IdlePoller
    <3>1. poller' \in PollerType
      BY <2>2 DEF IdlePoller
    <3> QED BY <2>2, <3>1 DEF PollerOwns, PollerLate, IdlePoller
  <2>3. CASE Scan /\ poller' # IdlePoller
    <3> DEFINE c == CHOOSE c \in FilledChildren : \A d \in FilledChildren : c <= d
    <3>1. held /\ FilledChildren # {} /\ poller' = [at |-> AfterFound(c), filled |-> {}, child |-> c]
      BY <2>3 DEF Scan, Active
    <3>2. \E e \in FilledChildren : \A d \in FilledChildren : e <= d
      <4> DEFINE s == children.stop
                 t == children.target
      <4>1. \A d \in FilledChildren : d = s \/ d = t
        BY DEF FilledChildren
      <4>2. s \in Int /\ t \in Int
        BY DEF FillInv, TypeOK, Ids
      <4>3. s \in FilledChildren \/ t \in FilledChildren
        BY <3>1, <4>1
      <4> HIDE DEF s, t
      <4>4. CASE s \in FilledChildren /\ (s <= t \/ t \notin FilledChildren)
        BY <4>1, <4>2, <4>4
      <4>5. CASE t \in FilledChildren /\ (t <= s \/ s \notin FilledChildren)
        BY <4>1, <4>2, <4>5
      <4> QED BY <4>2, <4>3, <4>4, <4>5
    <3>3. c \in FilledChildren
      BY <3>2
    <3> HIDE DEF c
    <3>4. c \in Ids /\ Status(c) = "filled" /\ c \in {children.stop, children.target} /\ c # 0
      BY <1>3, <3>3 DEF FilledChildren, FillInv, PollerOwns, TypeOK, Ids
    <3>5. Done(c, "SELL")
      BY <3>4 DEF FillInv, ChildrenOwn, Done, Own
    <3>6. AfterFound(c) = "counterpart" => Counterpart(c) \in Ids
      <4>1. Counterpart(c) \in {0} \cup Ids
        BY DEF Counterpart, FillInv, TypeOK
      <4> QED BY <4>1 DEF AfterFound
    <3>7. AfterFound(c) \in {"counterpart", "book"}
      BY DEF AfterFound
    <3>8. poller' \in PollerType
      BY <3>1, <3>4, <3>7
    <3>9. PollerOwns'
      BY <1>1, <3>1, <3>5 DEF PollerOwns, Done, Own, Ids, Status
    <3>10. PollerLate'
      BY <1>1, <1>4, <3>1, <3>6 DEF PollerLate, Counterpart, Ids
    <3> QED BY <3>8, <3>9, <3>10
  <2> QED BY <2>1, <2>2, <2>3
<1> QED BY <1>1, <1>2, <1>5, RecordsMove

LEMMA CounterpartFills ==
  ASSUME IInv, FillInv, CancelCounterpart
  PROVE  FillInv'
<1> DEFINE i == Counterpart(poller.child)
<1>1. /\ UNCHANGED <<inbox, loop, held, children, row, booked, asked, givenUp, refused, exitFailed>>
      /\ poller.at = "counterpart" /\ poller' = [poller EXCEPT !.at = "book"] /\ Cancel(i)
  BY DEF CancelCounterpart
<1>2. i \in Ids
  BY <1>1 DEF FillInv, PollerLate
<1> HIDE DEF i
<1>3. BookGrows /\ stray' \subseteq Ids
  BY <1>1, <1>2, CancelGrows
<1>4. LoopOwns' /\ ChildrenOwn' /\ BookedOrdersFilled' /\ Ids \subseteq DOMAIN orders'
  BY <1>1, <1>3, PartsStay
<1>5. /\ poller'.at = "book" /\ poller'.filled = poller.filled /\ poller'.child = poller.child
      /\ poller' \in [at : {"sleep", "scan", "counterpart", "book"}, filled : SUBSET DOMAIN orders',
                      child : {0} \cup DOMAIN orders']
  BY <1>1, <1>4 DEF FillInv, TypeOK
<1>6. PollerOwns'
  <2>1. Done(poller.child, "SELL")
    BY <1>1 DEF FillInv, PollerOwns
  <2>2. \A j \in poller.filled : j \in Ids /\ Status(j) = "filled"
    BY DEF FillInv, TypeOK, PollerOwns
  <2> QED BY <1>1, <1>3, <1>5, <2>1, <2>2, OwnStays DEF PollerOwns, Done, Own, Ids, Status, BookGrows
<1>7. PollerLate'
  BY <1>1, <1>5 DEF FillInv, PollerLate
<1>8. /\ children' \in [{"stop", "target"} -> {0} \cup DOMAIN orders']
      /\ loop' \in [at : Places, task : {"none", "entry", "exit"}, attempt : Nat,
                    id : {0} \cup DOMAIN orders']
  BY <1>1, <1>4 DEF FillInv, TypeOK
<1>9. TypeOK'
  BY <1>1, <1>3, <1>4, <1>5, <1>8 DEF FillInv, TypeOK, BookGrows, Ids
<1> QED BY <1>4, <1>6, <1>7, <1>9 DEF FillInv

LEMMA OutsideFills ==
  ASSUME IInv, FillInv, AskExit \/ Broker \/ UNCHANGED vars
  PROVE  FillInv'
<1>1. UNCHANGED <<loop, poller, held, children, row, booked, givenUp, stray, refused, exitFailed>>
  BY DEF AskExit, Broker, vars
<1>2. BookGrows
  <2>1. CASE UNCHANGED orders
    BY <1>1, <2>1, SameBook
  <2>2. CASE Broker
    <3>1. PICK i \in Ids : Fill(i) \/ Reject(i)
      BY <2>2 DEF Broker
    <3>2. \E s \in {"filled", "rejected"} :
            Status(i) = "live" /\ orders' = [orders EXCEPT ![i].status = s]
      BY <3>1 DEF Fill, Reject
    <3> QED BY <1>1, <3>2, MarkedGrows
  <2> QED BY <2>1, <2>2 DEF AskExit, vars
<1>3. inbox' \in Seq({"RISK_APPROVED", "EXIT_ORDER"}) /\ asked' \in 0 .. MaxExits
  <2>1. inbox \in Seq({"RISK_APPROVED", "EXIT_ORDER"}) /\ asked \in 0 .. MaxExits
    BY DEF FillInv, TypeOK
  <2>2. CASE AskExit
    BY <2>1, <2>2, KiteAssumption DEF AskExit
  <2>3. CASE UNCHANGED <<inbox, asked>>
    BY <2>1, <2>3
  <2> QED BY <2>2, <2>3 DEF Broker, vars
<1>4. LoopOwns' /\ Ids \subseteq DOMAIN orders'
  BY <1>1, <1>2, PartsStay
<1>5. loop' \in [at : Places, task : {"none", "entry", "exit"}, attempt : Nat,
                 id : {0} \cup DOMAIN orders']
  BY <1>1, <1>4 DEF FillInv, TypeOK
<1> QED BY <1>1, <1>2, <1>3, <1>4, <1>5, HeldTypes, LoopMoves

LEMMA NextFills ==
  ASSUME IInv, FillInv, [Next]_vars
  PROVE  FillInv'
<1>1. CASE LoopStep
  <2>1. CASE PlaceChildren
    BY <2>1, PlaceChildFills DEF PlaceChildren
  <2>2. CASE BookExit
    BY <2>2, BookingFills DEF BookExit
  <2> QED BY <1>1, <2>1, <2>2, QuietStepFills, CancelChildrenFills, CancelAttemptFills,
             PlaceOrderFills, AwaitFills, RecordFills DEF LoopStep
<1>2. CASE PollerStep
  <2>1. CASE BookChild
    BY <2>1, BookingFills DEF BookChild
  <2> QED BY <1>2, <2>1, LookFills, CounterpartFills DEF PollerStep
<1> QED BY <1>1, <1>2, OutsideFills DEF Next

LEMMA InitFills == Init => FillInv
<1> SUFFICES ASSUME Init PROVE FillInv
  OBVIOUS
<1>1. orders = <<>> /\ Ids = {}
  BY DEF Init, Ids
<1>2. loop = IdleLoop /\ poller = IdlePoller
  BY DEF Init
<1>3. TypeOK
  <2>1. orders \in Seq(Order) /\ inbox \in Seq({"RISK_APPROVED", "EXIT_ORDER"})
    BY DEF Init
  <2>2. loop \in [at : Places, task : {"none", "entry", "exit"}, attempt : Nat, id : {0} \cup Ids]
    BY <1>2 DEF IdleLoop, Places
  <2>3. poller \in [at : {"sleep", "scan", "counterpart", "book"}, filled : SUBSET Ids,
                    child : {0} \cup Ids]
    BY <1>2 DEF IdlePoller
  <2>4. children \in [{"stop", "target"} -> {0} \cup Ids]
    BY DEF Init
  <2>5. booked \in Nat /\ asked \in 0 .. MaxExits
    BY KiteAssumption DEF Init
  <2>6. /\ held \in BOOLEAN /\ row \in {"APPROVED", "FILLED", "FAILED", "CLOSED"}
        /\ exitFailed \in BOOLEAN /\ givenUp = {} /\ stray = {} /\ refused = {}
    BY DEF Init
  <2> QED BY <2>1, <2>2, <2>3, <2>4, <2>5, <2>6 DEF TypeOK
<1>4. LoopOwns /\ PollerOwns /\ PollerLate
  BY <1>2 DEF LoopOwns, PollerOwns, PollerLate, IdleLoop, IdlePoller
<1>5. ChildrenOwn /\ BookedOrdersFilled
  BY DEF Init, ChildrenOwn, BookedOrdersFilled
<1> QED BY <1>3, <1>4, <1>5 DEF FillInv

(* The second inductive invariant, on top of the first. *)
THEOREM FillInvariant == Spec => []FillInv
<1>1. Init => FillInv
  BY InitFills
<1>2. IInv /\ FillInv /\ [Next]_vars => FillInv'
  BY NextFills
<1> QED BY <1>1, <1>2, InductiveInvariant, PTL DEF Spec

\* The state keeps its type: an order number the executor holds is one of the
\* broker's book.
THEOREM TypeCorrect == Spec => []TypeOK
<1>1. FillInv => TypeOK
  BY DEF FillInv
<1> QED BY <1>1, FillInvariant, PTL

\* A position is recorded only for a buy that was filled, and closed only for a
\* sale that was, unless a minute of polling had given up on the order.
THEOREM BookedMeansFilled == Spec => []BookedOrdersFilled
<1>1. FillInv => BookedOrdersFilled
  BY DEF FillInv
<1> QED BY <1>1, FillInvariant, PTL

-----------------------------------------------------------------------------
(* Who answers for an order: every live order of the live executor has an    *)
(* owner that will cancel it or see it fill, so that none is left behind     *)
(* when the trade is closed, and none that protects it is taken away before. *)

\* A child order that is not there, not live any more, or lost in a failed call.
Dealt(c) == children[c] = 0 \/ Status(children[c]) # "live" \/ children[c] \in stray

\* A child that was placed, or refused.
Given(c) == children[c] # 0 \/ c \in refused

Children == {"stop", "target"}

\* Every live order the executor has not lost sight of is a child, or the one
\* the loop is waiting for.
LiveOwned ==
  \A i \in Ids : Status(i) = "live" =>
    \/ i \in stray \cup givenUp
    \/ \E c \in Children : children[c] = i
    \/ loop.at \in {"check", "cancel", "await"} /\ loop.id = i

\* Children are placed once, by the entry, the stop first.
PlacedOnce ==
  /\ children["stop"] # 0 => loop.at \in {"target", "confirm"} \/ row # "APPROVED"
  /\ children["target"] # 0 => loop.at = "confirm" \/ row # "APPROVED"

\* The children an exit or the poller has dealt with by the time it books.
CancelsFirst ==
  /\ loop.task = "exit" /\ loop.at # "cancelStop" => Dealt("stop")
  /\ loop.task = "exit" /\ loop.at \notin {"cancelStop", "cancelTarget"} => Dealt("target")
  /\ poller.at = "counterpart" =>
       \E c \in Children : poller.child = children[c] /\ Status(children[c]) = "filled"
  /\ poller.at = "book" => \A c \in Children : Dealt(c)
  /\ row = "CLOSED" => \A c \in Children : Dealt(c)

\* Only an exit or the poller's booking cancels a child, on the way to the close.
CancelledOnWay ==
  (\E c \in Children : children[c] # 0 /\ Status(children[c]) = "cancelled") =>
    exitFailed \/ loop.task = "exit" \/ poller.at = "book" \/ row = "CLOSED"

\* Both act on a trade that was entered.
Entered ==
  /\ loop.at \in {"cancelStop", "cancelTarget"} => loop.task = "exit"
  /\ loop.at = "idle" <=> loop.task = "none"
  /\ loop.task = "exit" \/ poller.at # "sleep" => row \in {"FILLED", "CLOSED"}

\* A trade is recorded with its children given, unless its fill was not seen.
GivenFirst ==
  /\ loop.at = "target" => Given("stop")
  /\ loop.at = "confirm" \/ row \in {"FILLED", "CLOSED"} =>
       givenUp # {} \/ \A c \in Children : Given(c)

OwnerInv == LiveOwned /\ PlacedOnce /\ CancelsFirst /\ CancelledOnWay /\ Entered /\ GivenFirst

-----------------------------------------------------------------------------
(* How the book changes: no order comes back to life, none goes away.          *)

Evolves ==
  /\ stray \subseteq stray' /\ givenUp \subseteq givenUp'
  /\ \A i \in Ids : /\ i \in DOMAIN orders'
                    /\ orders'[i].status = "live" => Status(i) = "live"
                    /\ Status(i) = "filled" => orders'[i].status = "filled"

\* The same, for orders that were there before and are no more cancelled than
\* they were.
Spares == \A i \in Ids : orders'[i].status = "cancelled" => Status(i) = "cancelled"

LEMMA DealtStays ==
  ASSUME FillInv, Evolves, UNCHANGED children, NEW c \in Children
  PROVE  /\ Dealt(c) => Dealt(c)'
         /\ children[c] # 0 => children[c] \in Ids
<1>1. children[c] = 0 \/ children[c] \in Ids
  BY DEF Children, FillInv, TypeOK
<1> QED BY <1>1 DEF Evolves, Dealt, Status, Ids

LEMMA SameEvolves ==
  ASSUME UNCHANGED <<orders, stray>>, givenUp \subseteq givenUp'
  PROVE  Evolves /\ Spares /\ DOMAIN orders' = Ids
BY DEF Evolves, Spares, Ids, Status

LEMMA PlacedEvolves ==
  ASSUME FillInv, NEW side, NEW kind, Place(side, kind), stray \subseteq stray', UNCHANGED givenUp
  PROVE  /\ Evolves /\ Spares
         /\ Len(orders) + 1 \notin Ids /\ Len(orders) + 1 # 0
         /\ DOMAIN orders' = Ids \cup {Len(orders) + 1}
         /\ orders'[Len(orders) + 1].status = "live"
<1>1. orders \in Seq(Order)
  BY DEF FillInv, TypeOK
<1> DEFINE o == [side |-> side, kind |-> kind, status |-> "live"]
<1>2. orders' = Append(orders, o) /\ o.status = "live"
  BY DEF Place
<1> HIDE DEF o
<1>3. /\ DOMAIN orders' = Ids \cup {Len(orders) + 1} /\ orders'[Len(orders) + 1] = o
      /\ Len(orders) + 1 \notin Ids /\ Len(orders) + 1 # 0
      /\ \A i \in Ids : orders'[i] = orders[i]
  BY <1>1, <1>2 DEF Ids
<1> QED BY <1>2, <1>3 DEF Evolves, Spares, Status

LEMMA MarkedEvolves ==
  ASSUME FillInv, NEW i \in Ids, Status(i) = "live", NEW s \in {"filled", "cancelled", "rejected"},
         orders' = [orders EXCEPT ![i].status = s], stray \subseteq stray', UNCHANGED givenUp
  PROVE  /\ Evolves /\ DOMAIN orders' = Ids
         /\ orders'[i].status = s
         /\ \A j \in Ids \ {i} : orders'[j] = orders[j]
<1>1. orders \in Seq(Order) /\ orders[i] \in Order
  BY DEF FillInv, TypeOK, Ids
<1>2. orders'[i] = [orders[i] EXCEPT !.status = s]
  BY <1>1 DEF Ids
<1>3. orders'[i].status = s
  BY <1>1, <1>2 DEF Order
<1>4. DOMAIN orders' = Ids /\ \A j \in Ids \ {i} : orders'[j] = orders[j]
  BY <1>1 DEF Ids
<1> QED BY <1>3, <1>4 DEF Evolves, Status

LEMMA CancelEvolves ==
  ASSUME FillInv, NEW i \in Ids, Cancel(i), UNCHANGED givenUp
  PROVE  /\ Evolves /\ DOMAIN orders' = Ids
         /\ orders'[i].status # "live" \/ i \in stray'
         /\ \A j \in Ids \ {i} : orders'[j] = orders[j]
<1>1. CASE UNCHANGED orders /\ stray \subseteq stray' /\ (Status(i) # "live" \/ i \in stray')
  BY <1>1 DEF Evolves, Ids, Status
<1>2. CASE Status(i) = "live" /\ orders' = [orders EXCEPT ![i].status = "cancelled"] /\ UNCHANGED stray
  BY <1>2, MarkedEvolves
<1> QED BY <1>1, <1>2 DEF Cancel

LEMMA Moves ==
  ASSUME FillInv
  PROVE  /\ \A place : At(place) =>
              loop'.at = place /\ loop'.id = loop.id /\ loop'.task = loop.task
         /\ \A k : loop' = AfterAttempt(k) =>
              loop'.at \in {"limit", "market"} /\ loop'.task = loop.task
<1>1. loop \in LoopTypes
  BY DEF FillInv, TypeOK, LoopTypes
<1>2. ASSUME NEW place, At(place)
      PROVE  loop'.at = place /\ loop'.id = loop.id /\ loop'.task = loop.task
  BY <1>1, <1>2 DEF At, LoopTypes
<1>3. ASSUME NEW k, loop' = AfterAttempt(k)
      PROVE  loop'.at \in {"limit", "market"} /\ loop'.task = loop.task
  <2> DEFINE place == IF k < Attempts THEN "limit" ELSE "market"
  <2>1. place \in {"limit", "market"} /\ loop' = [loop EXCEPT !.at = place, !.attempt = k]
    BY <1>3 DEF AfterAttempt
  <2> HIDE DEF place
  <2> QED BY <1>1, <2>1 DEF LoopTypes
<1> QED BY <1>2, <1>3

-----------------------------------------------------------------------------
(* Steps of the loop that leave the book alone.                                *)

LEMMA QuietStepOwns ==
  ASSUME IInv, FillInv, OwnerInv,
         TakeApproval \/ TakeExit \/ Quote \/ CheckFilled \/ CheckUnfilled \/ AwaitFilled
           \/ AwaitRejected \/ AwaitTimeout
  PROVE  OwnerInv'
<1>1. UNCHANGED <<orders, children, poller, stray, refused>> /\ givenUp \subseteq givenUp'
  BY DEF TakeApproval, TakeExit, Quote, CheckFilled, CheckUnfilled, AwaitFilled, AwaitRejected, AwaitTimeout
<1>2. /\ LiveOwned /\ PlacedOnce /\ CancelsFirst /\ CancelledOnWay /\ Entered /\ GivenFirst
  BY DEF OwnerInv
<1>3. CASE TakeApproval
  <2>1. /\ loop'.at = "quote" /\ loop'.task = "entry" /\ loop.at = "idle" /\ row = "APPROVED"
        /\ UNCHANGED <<row, givenUp, exitFailed>> /\ inbox # <<>> /\ Head(inbox) = "RISK_APPROVED"
    <3>1. inbox \in Seq({"RISK_APPROVED", "EXIT_ORDER"})
      BY DEF IInv, RecordType
    <3> QED BY <3>1, <1>3 DEF TakeApproval, IInv, BookingInv, EntryUnanswered
  <2>2. LiveOwned' /\ PlacedOnce' /\ Entered' /\ GivenFirst'
    BY <1>1, <1>2, <2>1 DEF LiveOwned, PlacedOnce, Entered, GivenFirst, Ids, Status, Given
  <2>3. CancelsFirst' /\ CancelledOnWay'
    BY <1>1, <1>2, <2>1 DEF CancelsFirst, CancelledOnWay, Entered, Dealt, Status
  <2> QED BY <2>2, <2>3 DEF OwnerInv
<1>4. CASE TakeExit
  <2>1. UNCHANGED <<row, givenUp, exitFailed>> /\ loop.at = "idle"
    BY <1>4 DEF TakeExit
  <2>2. CASE held
    <3>1. loop'.at = "cancelStop" /\ loop'.task = "exit" /\ row = "FILLED"
      BY <1>4, <2>2 DEF TakeExit, IInv, BookingInv, ExitBookedOnce
    <3>2. LiveOwned' /\ PlacedOnce' /\ Entered' /\ GivenFirst'
      BY <1>1, <1>2, <2>1, <3>1 DEF LiveOwned, PlacedOnce, Entered, GivenFirst, Ids, Status, Given
    <3>3. CancelsFirst' /\ CancelledOnWay'
      BY <1>1, <1>2, <2>1, <3>1 DEF CancelsFirst, CancelledOnWay, Dealt, Status
    <3> QED BY <3>2, <3>3 DEF OwnerInv
  <2>3. CASE ~held
    <3>1. loop' = loop
      BY <1>4, <2>3 DEF TakeExit
    <3> QED BY <1>1, <1>2, <2>1, <3>1 DEF OwnerInv, LiveOwned, PlacedOnce, Entered, GivenFirst,
               CancelsFirst, CancelledOnWay, Ids, Status, Given, Dealt
  <2> QED BY <2>2, <2>3
<1>5. CASE Quote \/ CheckFilled \/ CheckUnfilled \/ AwaitFilled \/ AwaitTimeout
  <2>1. /\ UNCHANGED <<row, exitFailed>> /\ loop.at \in {"quote", "check", "await"}
        /\ loop'.task = loop.task /\ loop'.id = loop.id
        /\ loop'.at \in {"limit", "market", "stop", "book", "cancel", "confirm"}
    BY <1>5, Moves DEF Quote, CheckFilled, CheckUnfilled, AwaitFilled, AwaitTimeout
  <2>2. /\ loop'.at = "cancel" => UNCHANGED givenUp /\ loop.at = "check"
        /\ loop'.at = "confirm" => loop.id \in givenUp'
        /\ loop'.at \in {"stop", "book"} => Status(loop.id) = "filled" \/ loop.id \in givenUp'
    BY <1>5, Moves DEF Quote, CheckFilled, CheckUnfilled, AwaitFilled, AwaitTimeout, Complete
  <2>3. loop'.at \in {"limit", "market"} => loop.at = "quote"
    BY <1>5, Moves DEF Quote, CheckFilled, CheckUnfilled, AwaitFilled, AwaitTimeout
  <2>4. LiveOwned'
    BY <1>1, <1>2, <2>1, <2>2, <2>3 DEF LiveOwned, Ids, Status
  <2>5. PlacedOnce' /\ Entered'
    BY <1>1, <1>2, <2>1 DEF PlacedOnce, Entered
  <2>6. GivenFirst'
    BY <1>1, <1>2, <2>1, <2>2 DEF GivenFirst, Given
  <2>7. CancelsFirst' /\ CancelledOnWay'
    BY <1>1, <1>2, <2>1 DEF CancelsFirst, CancelledOnWay, Dealt, Status
  <2> QED BY <2>4, <2>5, <2>6, <2>7 DEF OwnerInv
<1>6. CASE AwaitRejected
  <2>1. /\ loop'.at = "idle" /\ loop'.task = "none" /\ UNCHANGED givenUp
        /\ loop.at \in {"await", "confirm"} /\ Status(loop.id) # "live"
        /\ row' = (IF loop.task = "entry" THEN "FAILED" ELSE row)
        /\ exitFailed \/ loop.task = "exit" => exitFailed'
    BY <1>6 DEF AwaitRejected, Raise, IdleLoop
  <2>2. loop.task = "entry" => row = "APPROVED" /\ poller.at = "sleep"
    BY DEF IInv, BookingInv, EntryUnanswered, FillInv, PollerLate
  <2>3. loop.at = "confirm" => loop.task = "entry"
    BY DEF IInv, BookingInv
  <2>4. LiveOwned' /\ PlacedOnce' /\ Entered' /\ GivenFirst'
    BY <1>1, <1>2, <2>1, <2>2, <2>3 DEF LiveOwned, PlacedOnce, Entered, GivenFirst, Ids, Status, Given
  <2>5. CancelsFirst' /\ CancelledOnWay'
    BY <1>1, <1>2, <2>1, <2>2 DEF CancelsFirst, CancelledOnWay, Dealt, Status
  <2> QED BY <2>4, <2>5 DEF OwnerInv
<1> QED BY <1>3, <1>4, <1>5, <1>6

\* The entry is recorded; an exit is booked, by the loop or by the poller.
LEMMA RecordOwns ==
  ASSUME IInv, FillInv, OwnerInv, Record
  PROVE  OwnerInv'
<1>1. /\ UNCHANGED <<orders, children, poller, stray, refused, exitFailed>>
      /\ loop'.at = "idle" /\ loop'.task = "none" /\ row' = "FILLED" /\ loop.at = "confirm"
      /\ givenUp \subseteq givenUp'
  BY DEF Record, IdleLoop
<1>2. row = "APPROVED" /\ poller.at = "sleep" /\ loop.task = "entry"
  BY <1>1 DEF IInv, BookingInv, EntryUnanswered, FillInv, PollerLate
<1>3. /\ LiveOwned /\ PlacedOnce /\ CancelsFirst /\ CancelledOnWay /\ Entered /\ GivenFirst
  BY DEF OwnerInv
<1>4. LiveOwned' /\ PlacedOnce' /\ Entered' /\ GivenFirst'
  BY <1>1, <1>2, <1>3 DEF LiveOwned, PlacedOnce, Entered, GivenFirst, Ids, Status, Given
<1>5. CancelsFirst' /\ CancelledOnWay'
  BY <1>1, <1>2, <1>3 DEF CancelsFirst, CancelledOnWay, Dealt, Status
<1> QED BY <1>4, <1>5 DEF OwnerInv

LEMMA BookingOwns ==
  ASSUME IInv, FillInv, OwnerInv, Finalize,
         UNCHANGED <<orders, inbox, children, asked, givenUp, stray, refused, exitFailed>>,
         \/ loop.at = "book" /\ loop' = IdleLoop /\ poller' = poller
         \/ poller.at = "book" /\ poller' = IdlePoller /\ loop' = loop
  PROVE  OwnerInv'
<1>1. /\ LiveOwned /\ PlacedOnce /\ CancelsFirst /\ CancelledOnWay /\ Entered /\ GivenFirst
  BY DEF OwnerInv
<1>2. /\ \A c \in Children : Dealt(c)
      /\ row \in {"FILLED", "CLOSED"}
  <2>1. CASE loop.at = "book"
    <3>1. loop.task = "exit"
      BY <1>1, <2>1 DEF Entered, IInv, BookingInv, FillInv, TypeOK
    <3> QED BY <1>1, <2>1, <3>1 DEF Entered, CancelsFirst, Children
  <2>2. CASE poller.at = "book"
    BY <1>1, <2>2 DEF Entered, CancelsFirst
  <2> QED BY <2>1, <2>2
<1>3. row' = "CLOSED"
  BY <1>2 DEF Finalize, Known, IInv, BookingInv, ExitBookedOnce
<1>4. \A c \in Children : Dealt(c)'
  BY <1>2 DEF Dealt, Status
<1>5. CancelsFirst' /\ CancelledOnWay'
  BY <1>1, <1>3, <1>4 DEF CancelsFirst, CancelledOnWay, IdleLoop, IdlePoller, Children, Status
<1>6. LiveOwned' /\ PlacedOnce' /\ Entered' /\ GivenFirst'
  BY <1>1, <1>2, <1>3 DEF LiveOwned, PlacedOnce, Entered, GivenFirst, Ids, Status, Given, IdleLoop, IdlePoller
<1> QED BY <1>5, <1>6 DEF OwnerInv

LEMMA FirstFilled ==
  ASSUME FillInv, FilledChildren # {}
  PROVE  (CHOOSE c \in FilledChildren : \A d \in FilledChildren : c <= d) \in FilledChildren
<1>1. \E e \in FilledChildren : \A d \in FilledChildren : e <= d
  <2> DEFINE s == children.stop
             t == children.target
  <2>1. \A d \in FilledChildren : d = s \/ d = t
    BY DEF FilledChildren
  <2>2. s \in Int /\ t \in Int
    BY DEF FillInv, TypeOK, Ids
  <2>3. s \in FilledChildren \/ t \in FilledChildren
    BY <2>1
  <2> HIDE DEF s, t
  <2>4. CASE s \in FilledChildren /\ (s <= t \/ t \notin FilledChildren)
    BY <2>1, <2>2, <2>4
  <2>5. CASE t \in FilledChildren /\ (t <= s \/ s \notin FilledChildren)
    BY <2>1, <2>2, <2>5
  <2> QED BY <2>2, <2>3, <2>4, <2>5
<1> QED BY <1>1

\* The poller looks at the children; what it found is filled, and it deals with
\* the counterpart before it books.
LEMMA LookOwns ==
  ASSUME IInv, FillInv, OwnerInv, Fetch \/ Scan
  PROVE  OwnerInv'
<1>1. UNCHANGED <<orders, children, loop, row, givenUp, stray, refused, exitFailed>>
  BY DEF Fetch, Scan
<1>2. /\ LiveOwned /\ PlacedOnce /\ CancelsFirst /\ CancelledOnWay /\ Entered /\ GivenFirst
  BY DEF OwnerInv
<1>3. LiveOwned' /\ PlacedOnce' /\ GivenFirst'
  BY <1>1, <1>2 DEF LiveOwned, PlacedOnce, GivenFirst, Ids, Status, Given
<1>4. held /\ poller.at # "book" => row = "FILLED"
  BY DEF IInv, BookingInv, ExitBookedOnce
<1>5. /\ Entered'
      /\ poller.at # "book"
      /\ poller'.at = "counterpart" =>
           \E c \in Children : poller'.child = children[c] /\ Status(children[c]) = "filled"
      /\ poller'.at = "book" => \A c \in Children : Dealt(c)
  <2>1. CASE Fetch
    <3>1. poller' = [poller EXCEPT !.at = "scan", !.filled = {i \in Ids : Status(i) = "filled"}]
          /\ held /\ poller.at = "sleep"
      BY <2>1 DEF Fetch, Active
    <3>2. poller'.at = "scan"
      BY <3>1 DEF FillInv, TypeOK
    <3> QED BY <1>1, <1>2, <1>4, <3>1, <3>2 DEF Entered
  <2>2. CASE Scan /\ poller' = IdlePoller
    BY <1>1, <1>2, <2>2 DEF Entered, IdlePoller, Scan
  <2>3. CASE Scan /\ poller' # IdlePoller
    <3> DEFINE c == CHOOSE c \in FilledChildren : \A d \in FilledChildren : c <= d
    <3>1. /\ held /\ FilledChildren # {} /\ poller.at = "scan"
          /\ poller' = [at |-> AfterFound(c), filled |-> {}, child |-> c]
      BY <2>3 DEF Scan, Active
    <3>2. c \in FilledChildren
      BY <3>1, FirstFilled
    <3> HIDE DEF c
    <3>3. Status(c) = "filled" /\ c \in {children.stop, children.target}
      BY <3>2 DEF FilledChildren, FillInv, PollerOwns
    <3>4. poller'.at = AfterFound(c) /\ poller'.child = c
      BY <3>1
    <3>5. AfterFound(c) = "book" => \A d \in Children : Dealt(d)
      BY <3>3 DEF AfterFound, Counterpart, Dealt, Children
    <3>6. \E d \in Children : c = children[d] /\ Status(children[d]) = "filled"
      BY <3>3 DEF Children
    <3>7. AfterFound(c) \in {"counterpart", "book"}
      BY DEF AfterFound
    <3>8. Entered'
      BY <1>1, <1>2, <1>4, <3>1, <3>4 DEF Entered
    <3> QED BY <3>1, <3>4, <3>5, <3>6, <3>8
  <2> QED BY <2>1, <2>2, <2>3
<1>6. CancelsFirst' /\ CancelledOnWay'
  BY <1>1, <1>2, <1>5 DEF CancelsFirst, CancelledOnWay, Dealt, Status
<1> QED BY <1>3, <1>5, <1>6 DEF OwnerInv

-----------------------------------------------------------------------------
(* Cancellations.                                                              *)

LEMMA CancelChildrenOwns ==
  ASSUME IInv, FillInv, OwnerInv, CancelChildren
  PROVE  OwnerInv'
<1>1. /\ LiveOwned /\ PlacedOnce /\ CancelsFirst /\ CancelledOnWay /\ Entered /\ GivenFirst
  BY DEF OwnerInv
<1>2. PICK c \in Children :
        /\ IF children[c] # 0 THEN Cancel(children[c]) ELSE UNCHANGED <<orders, stray>>
        /\ loop.at = (IF c = "stop" THEN "cancelStop" ELSE "cancelTarget")
        /\ At(IF c = "stop" THEN "cancelTarget" ELSE "quote")
  BY DEF CancelChildren, CancelChild, Children
<1>3. UNCHANGED <<children, poller, row, givenUp, refused, exitFailed>>
  BY DEF CancelChildren, CancelChild
<1>4. loop.task = "exit" /\ row \in {"FILLED", "CLOSED"} /\ loop'.task = "exit"
  BY <1>1, <1>2, Moves DEF Entered
<1>5. loop'.at = (IF c = "stop" THEN "cancelTarget" ELSE "quote")
  BY <1>2, Moves
<1>6. /\ Evolves /\ DOMAIN orders' = Ids
      /\ Dealt(c)'
  <2>1. CASE children[c] = 0
    BY <1>2, <1>3, <2>1, SameEvolves DEF Dealt
  <2>2. CASE children[c] # 0
    <3>1. children[c] \in Ids
      BY <2>2 DEF Children, FillInv, TypeOK
    <3> QED BY <1>2, <1>3, <2>2, <3>1, CancelEvolves DEF Dealt, Status
  <2> QED BY <2>1, <2>2
<1>7. \A d \in Children : Dealt(d) => Dealt(d)'
  BY <1>3, <1>6, DealtStays
<1>8. LiveOwned'
  BY <1>1, <1>2, <1>3, <1>6 DEF LiveOwned, Evolves, Ids, Status
<1>9. PlacedOnce' /\ Entered' /\ GivenFirst' /\ CancelledOnWay'
  BY <1>1, <1>3, <1>4, <1>5 DEF PlacedOnce, Entered, GivenFirst, CancelledOnWay, Given
<1>10. CancelsFirst'
  <2>1. poller'.at = "counterpart" =>
          \E d \in Children : poller'.child = children'[d] /\ Status(children[d])' = "filled"
    <3>1. \A d \in Children : Status(children[d]) = "filled" /\ children[d] = poller.child
             /\ poller.at = "counterpart" => children[d] \in Ids
      BY DEF FillInv, PollerOwns, Done, Own
    <3> QED BY <1>1, <1>3, <1>6, <3>1 DEF CancelsFirst, Evolves, Status
  <2> QED BY <1>1, <1>2, <1>3, <1>4, <1>5, <1>6, <1>7, <2>1 DEF CancelsFirst, Children
<1> QED BY <1>8, <1>9, <1>10 DEF OwnerInv

\* The loop gives up an attempt: an entry has no children yet, and an exit may
\* cancel what it likes.
LEMMA CancelAttemptOwns ==
  ASSUME IInv, FillInv, OwnerInv, CancelAttempt
  PROVE  OwnerInv'
<1>1. /\ LiveOwned /\ PlacedOnce /\ CancelsFirst /\ CancelledOnWay /\ Entered /\ GivenFirst
  BY DEF OwnerInv
<1>2. /\ loop.at = "cancel" /\ Cancel(loop.id) /\ loop.id \in Ids
      /\ UNCHANGED <<children, poller, row, givenUp, refused, exitFailed>>
  BY DEF CancelAttempt, FillInv, LoopOwns, Own
<1>3. loop'.at \in {"limit", "market"} /\ loop'.task = loop.task
  BY Moves DEF CancelAttempt
<1>4. /\ Evolves /\ DOMAIN orders' = Ids
      /\ orders'[loop.id].status # "live" \/ loop.id \in stray'
      /\ \A j \in Ids \ {loop.id} : orders'[j] = orders[j]
  BY <1>2, CancelEvolves
<1>5. \A d \in Children : Dealt(d) => Dealt(d)'
  BY <1>2, <1>4, DealtStays
<1>6. LiveOwned'
  BY <1>1, <1>2, <1>3, <1>4 DEF LiveOwned, Evolves, Ids, Status
<1>7. PlacedOnce' /\ Entered' /\ GivenFirst'
  BY <1>1, <1>2, <1>3 DEF PlacedOnce, Entered, GivenFirst, Given
<1>8. loop.task = "exit" \/ \A c \in Children : children[c] = 0
  BY <1>1, <1>2 DEF Entered, PlacedOnce, IInv, BookingInv, EntryUnanswered, FillInv, TypeOK, Children
<1>9. CancelledOnWay'
  BY <1>2, <1>3, <1>8 DEF CancelledOnWay
<1>10. CancelsFirst'
  <2>1. poller'.at = "counterpart" =>
          \E d \in Children : poller'.child = children'[d] /\ Status(children[d])' = "filled"
    <3>1. \A d \in Children : Status(children[d]) = "filled" /\ children[d] = poller.child
             /\ poller.at = "counterpart" => children[d] \in Ids
      BY DEF FillInv, PollerOwns, Done, Own
    <3> QED BY <1>1, <1>2, <1>4, <3>1 DEF CancelsFirst, Evolves, Status
  <2> QED BY <1>1, <1>2, <1>3, <1>5, <2>1 DEF CancelsFirst, Children
<1> QED BY <1>6, <1>7, <1>9, <1>10 DEF OwnerInv

\* The poller cancels the counterpart of a child that was filled.
LEMMA CounterpartOwns ==
  ASSUME IInv, FillInv, OwnerInv, CancelCounterpart
  PROVE  OwnerInv'
<1>1. /\ LiveOwned /\ PlacedOnce /\ CancelsFirst /\ CancelledOnWay /\ Entered /\ GivenFirst
  BY DEF OwnerInv
<1> DEFINE i == Counterpart(poller.child)
<1>2. /\ UNCHANGED <<loop, children, row, givenUp, refused, exitFailed>>
      /\ poller.at = "counterpart" /\ poller' = [poller EXCEPT !.at = "book"] /\ Cancel(i)
  BY DEF CancelCounterpart
<1>3. i \in Ids
  BY <1>2 DEF FillInv, PollerLate
<1>4. PICK c \in Children : poller.child = children[c] /\ Status(children[c]) = "filled"
  BY <1>1, <1>2 DEF CancelsFirst
<1>5. \A e \in Children : children[e] \in {children[c], i}
  BY <1>4 DEF Counterpart, Children
<1> HIDE DEF i
<1>6. /\ Evolves /\ DOMAIN orders' = Ids
      /\ orders'[i].status # "live" \/ i \in stray'
  BY <1>2, <1>3, CancelEvolves
<1>7. poller'.at = "book"
  BY <1>2 DEF FillInv, TypeOK
<1>8. Dealt(c) /\ (Dealt(c) => Dealt(c)')
  BY <1>2, <1>4, <1>6, DealtStays DEF Dealt
<1>9. \A e \in Children : Dealt(e)'
  BY <1>2, <1>5, <1>6, <1>8 DEF Dealt, Status
<1>10. LiveOwned'
  BY <1>1, <1>2, <1>6 DEF LiveOwned, Evolves, Ids, Status
<1>11. PlacedOnce' /\ Entered' /\ GivenFirst' /\ CancelledOnWay'
  BY <1>1, <1>2, <1>7 DEF PlacedOnce, Entered, GivenFirst, Given, CancelledOnWay
<1>12. CancelsFirst'
  BY <1>7, <1>9 DEF CancelsFirst, Children
<1> QED BY <1>10, <1>11, <1>12 DEF OwnerInv

-----------------------------------------------------------------------------
(* Placements.                                                                 *)

\* What a step that may place an order, and cancels none, leaves as it was.
LEMMA SpareKeeps ==
  ASSUME FillInv, OwnerInv, Evolves, Spares, UNCHANGED <<children, poller>>
  PROVE  /\ \A d \in Children : Dealt(d) => Dealt(d)'
         /\ (\E c \in Children : children'[c] # 0 /\ Status(children[c])' = "cancelled") =>
              \E c \in Children : children[c] # 0 /\ Status(children[c]) = "cancelled"
         /\ poller'.at = "counterpart" =>
              \E d \in Children : poller'.child = children'[d] /\ Status(children[d])' = "filled"
<1>1. \A d \in Children : Dealt(d) => Dealt(d)'
  BY DealtStays
<1>2. \A c \in Children : children[c] # 0 => children[c] \in Ids
  BY DealtStays
<1>3. \A c \in Children : children'[c] # 0 /\ Status(children[c])' = "cancelled" =>
         children[c] # 0 /\ Status(children[c]) = "cancelled"
  BY <1>2 DEF Spares, Status
<1>4. \A d \in Children : Status(children[d]) = "filled" /\ children[d] = poller.child
         /\ poller.at = "counterpart" => children[d] \in Ids
  BY DEF FillInv, PollerOwns, Done, Own
<1>5. poller'.at = "counterpart" =>
        \E d \in Children : poller'.child = children'[d] /\ Status(children[d])' = "filled"
  BY <1>4 DEF OwnerInv, CancelsFirst, Evolves, Status
<1> QED BY <1>1, <1>3, <1>5

\* An order of the loop, sent or lost.
LEMMA PlaceOrderOwns ==
  ASSUME IInv, FillInv, OwnerInv, PlaceLimit \/ PlaceMarket
  PROVE  OwnerInv'
<1>1. /\ LiveOwned /\ PlacedOnce /\ CancelsFirst /\ CancelledOnWay /\ Entered /\ GivenFirst
  BY DEF OwnerInv
<1>2. UNCHANGED <<poller, children, givenUp, refused>> /\ loop.at \in {"limit", "market"}
  BY DEF PlaceLimit, PlaceMarket
<1> DEFINE new == Len(orders) + 1
<1>3. /\ Evolves /\ Spares
      /\ \A j \in DOMAIN orders' \ Ids : j = new
      /\ \/ UNCHANGED orders
         \/ new \in stray'
         \/ loop' = [loop EXCEPT !.at = "check", !.id = new]
         \/ loop' = [loop EXCEPT !.at = "await", !.id = new]
  <2>1. stray \subseteq stray'
    BY DEF PlaceLimit, PlaceMarket
  <2>2. CASE UNCHANGED <<orders, stray>>
    BY <1>2, <2>2, SameEvolves
  <2>3. ASSUME NEW kind, Place(Side, kind)
        PROVE  Evolves /\ Spares /\ \A j \in DOMAIN orders' \ Ids : j = new
    BY <1>2, <2>1, <2>3, PlacedEvolves
  <2> QED BY <2>2, <2>3 DEF PlaceLimit, PlaceMarket
<1>4. \/ /\ loop'.at \in {"limit", "market", "check", "await"}
         /\ loop'.task = loop.task /\ UNCHANGED <<row, exitFailed>>
      \/ /\ loop' = IdleLoop
         /\ row' = (IF loop.task = "entry" THEN "FAILED" ELSE row)
         /\ exitFailed \/ loop.task = "exit" => exitFailed'
  <2>1. loop \in LoopTypes
    BY DEF FillInv, TypeOK, LoopTypes
  <2>2. CASE Raise
    BY <2>2, <1>2 DEF Raise, PlaceLimit, PlaceMarket
  <2>3. CASE UNCHANGED <<row, exitFailed>> /\ loop' = AfterAttempt(loop.attempt + 1)
    BY <2>3, Moves
  <2>4. CASE UNCHANGED <<row, exitFailed>> /\ \E place \in {"check", "await"} :
                loop' = [loop EXCEPT !.at = place, !.id = new]
    <3>1. PICK place \in {"check", "await"} : loop' = [loop EXCEPT !.at = place, !.id = new]
      BY <2>4
    <3> HIDE DEF new
    <3>2. loop'.at = place /\ loop'.task = loop.task
      BY <2>1, <3>1 DEF LoopTypes
    <3> QED BY <2>4, <3>2
  <2> QED BY <2>2, <2>3, <2>4 DEF PlaceLimit, PlaceMarket
<1>5. /\ loop' = [loop EXCEPT !.at = "check", !.id = new] => loop'.at = "check" /\ loop'.id = new
      /\ loop' = [loop EXCEPT !.at = "await", !.id = new] => loop'.at = "await" /\ loop'.id = new
  <2>1. loop \in LoopTypes
    BY DEF FillInv, TypeOK, LoopTypes
  <2> HIDE DEF new
  <2> QED BY <2>1 DEF LoopTypes
<1>6. loop.task = "entry" => row = "APPROVED" /\ poller.at = "sleep"
  BY DEF IInv, BookingInv, EntryUnanswered, FillInv, PollerLate
<1> HIDE DEF new
<1>7. LiveOwned'
  <2> SUFFICES ASSUME NEW j \in DOMAIN orders', orders'[j].status = "live"
               PROVE  \/ j \in stray' \cup givenUp'
                      \/ \E c \in Children : children'[c] = j
                      \/ loop'.at \in {"check", "cancel", "await"} /\ loop'.id = j
    BY DEF LiveOwned, Ids, Status
  <2>1. CASE j \in Ids
    BY <1>1, <1>2, <1>3, <2>1 DEF LiveOwned, Evolves, Status
  <2>2. CASE j \notin Ids
    BY <1>3, <1>5, <2>2 DEF Ids
  <2> QED BY <2>1, <2>2
<1>8. PlacedOnce' /\ Entered' /\ GivenFirst'
  BY <1>1, <1>2, <1>4, <1>6 DEF PlacedOnce, Entered, GivenFirst, Given, IdleLoop
<1>9. CancelsFirst' /\ CancelledOnWay'
  BY <1>1, <1>2, <1>3, <1>4, <1>6, SpareKeeps DEF CancelsFirst, CancelledOnWay, IdleLoop, Children
<1> QED BY <1>7, <1>8, <1>9 DEF OwnerInv

\* A child of the entry, placed, lost or refused.
LEMMA PlaceChildOwns ==
  ASSUME IInv, FillInv, OwnerInv, PlaceChildren
  PROVE  OwnerInv'
<1>1. /\ LiveOwned /\ PlacedOnce /\ CancelsFirst /\ CancelledOnWay /\ Entered /\ GivenFirst
  BY DEF OwnerInv
<1>2. PICK child \in Children : PlaceChild(child, child, IF child = "stop" THEN "target" ELSE "confirm")
  BY DEF PlaceChildren, Children
<1> DEFINE new == Len(orders) + 1
<1>3. /\ UNCHANGED <<poller, row, givenUp, exitFailed>> /\ loop.at = child
      /\ loop'.at = (IF child = "stop" THEN "target" ELSE "confirm") /\ loop'.task = loop.task
      /\ refused \subseteq refused' /\ stray \subseteq stray'
  BY <1>2, Moves DEF PlaceChild
<1>4. row = "APPROVED" /\ poller.at = "sleep" /\ loop.task = "entry"
  BY <1>3 DEF Children, IInv, BookingInv, EntryUnanswered, FillInv, PollerLate
<1>5. children["target"] = 0 /\ (child = "stop" => children["stop"] = 0)
  BY <1>1, <1>3, <1>4 DEF PlacedOnce, Children
<1>6. /\ Evolves /\ Spares /\ Ids \subseteq DOMAIN orders'
      /\ \A j \in DOMAIN orders' \ Ids : j = new /\ orders'[new].status = "live"
                                          /\ (new \in stray' \/ children'[child] = new)
      /\ \A d \in Children \ {child} : children'[d] = children[d]
      /\ \/ UNCHANGED children /\ child \in refused'
         \/ children'[child] = new /\ new \notin Ids /\ new # 0 /\ orders'[new].status = "live"
  <2>1. children \in [Children -> Nat]
    BY DEF FillInv, TypeOK, Children, Ids
  <2>2. CASE UNCHANGED <<orders, stray, children>> /\ child \in refused'
    BY <1>3, <2>2, SameEvolves DEF Ids
  <2>3. CASE Place("SELL", child)
    <3>1. /\ Evolves /\ Spares /\ new \notin Ids /\ new # 0
          /\ DOMAIN orders' = Ids \cup {new} /\ orders'[new].status = "live"
      BY <1>3, <2>3, PlacedEvolves
    <3> HIDE DEF new
    <3>2. CASE UNCHANGED children /\ child \in refused' /\ new \in stray'
      BY <3>1, <3>2 DEF Ids
    <3>3. CASE children' = [children EXCEPT ![child] = new]
      <4>1. children'[child] = new /\ \A d \in Children \ {child} : children'[d] = children[d]
        BY <2>1, <3>3
      <4> QED BY <3>1, <4>1 DEF Ids
    <3> QED BY <1>2, <2>2, <3>2, <3>3 DEF PlaceChild, new
  <2> QED BY <1>2, <2>2, <2>3 DEF PlaceChild
<1> HIDE DEF new
<1>7. \A c \in Children : children[c] = 0 \/ children[c] \in Ids
  BY DEF FillInv, TypeOK, Children
<1>8. LiveOwned'
  <2> SUFFICES ASSUME NEW j \in DOMAIN orders', orders'[j].status = "live"
               PROVE  j \in stray' \cup givenUp' \/ \E c \in Children : children'[c] = j
    BY DEF LiveOwned, Ids, Status
  <2>1. CASE j \in Ids
    <3>1. j \in stray \cup givenUp \/ \E c \in Children : children[c] = j
      BY <1>1, <1>3, <1>6, <2>1 DEF LiveOwned, Evolves, Status, Children
    <3>2. j # 0
      BY <2>1 DEF Ids, FillInv, TypeOK
    <3>3. \A c \in Children : children[c] = j => children'[c] = j
      BY <1>5, <1>6, <3>2 DEF Children
    <3> QED BY <1>3, <3>1, <3>3
  <2>2. CASE j \notin Ids
    BY <1>6, <2>2
  <2> QED BY <2>1, <2>2
<1>9. PlacedOnce' /\ Entered'
  BY <1>1, <1>3, <1>4, <1>5, <1>6 DEF PlacedOnce, Entered, Children
<1>10. GivenFirst'
  <2>1. \A c \in Children : Given(c) => Given(c)'
    BY <1>3, <1>6 DEF Given
  <2>2. Given(child)'
    BY <1>6 DEF Given
  <2> QED BY <1>1, <1>3, <1>4, <2>1, <2>2 DEF GivenFirst, Children
<1>11. \A c \in Children : children'[c] # 0 /\ Status(children[c])' = "cancelled" =>
          children[c] # 0 /\ Status(children[c]) = "cancelled"
  BY <1>6, <1>7 DEF Spares, Status
<1>12. CancelsFirst' /\ CancelledOnWay'
  BY <1>1, <1>3, <1>4, <1>11 DEF CancelsFirst, CancelledOnWay
<1> QED BY <1>8, <1>9, <1>10, <1>12 DEF OwnerInv

-----------------------------------------------------------------------------
(* The broker, and whoever asks for the exit.                                  *)

LEMMA OutsideOwns ==
  ASSUME IInv, FillInv, OwnerInv, AskExit \/ Broker \/ UNCHANGED vars
  PROVE  OwnerInv'
<1>1. /\ LiveOwned /\ PlacedOnce /\ CancelsFirst /\ CancelledOnWay /\ Entered /\ GivenFirst
  BY DEF OwnerInv
<1>2. UNCHANGED <<loop, poller, children, row, givenUp, stray, refused, exitFailed>>
  BY DEF AskExit, Broker, vars
<1>3. Evolves /\ Spares /\ DOMAIN orders' = Ids
  <2>1. CASE UNCHANGED orders
    BY <1>2, <2>1, SameEvolves
  <2>2. CASE Broker
    <3>1. PICK i \in Ids : Fill(i) \/ Reject(i)
      BY <2>2 DEF Broker
    <3>2. PICK s \in {"filled", "rejected"} :
            Status(i) = "live" /\ orders' = [orders EXCEPT ![i].status = s]
      BY <3>1 DEF Fill, Reject
    <3>3. /\ Evolves /\ DOMAIN orders' = Ids
          /\ orders'[i].status = s
          /\ \A j \in Ids \ {i} : orders'[j] = orders[j]
      BY <1>2, <3>2, MarkedEvolves
    <3> QED BY <3>3 DEF Spares, Status
  <2> QED BY <2>1, <2>2 DEF AskExit, vars
<1>4. LiveOwned'
  BY <1>1, <1>2, <1>3 DEF LiveOwned, Evolves, Ids, Status
<1>5. PlacedOnce' /\ Entered' /\ GivenFirst'
  BY <1>1, <1>2 DEF PlacedOnce, Entered, GivenFirst, Given
<1>6. CancelsFirst' /\ CancelledOnWay'
  BY <1>1, <1>2, <1>3, SpareKeeps DEF CancelsFirst, CancelledOnWay, Children
<1> QED BY <1>4, <1>5, <1>6 DEF OwnerInv

LEMMA NextOwns ==
  ASSUME IInv, FillInv, OwnerInv, [Next]_vars
  PROVE  OwnerInv'
<1>1. CASE LoopStep
  <2>1. CASE BookExit
    BY <2>1, BookingOwns DEF BookExit
  <2> QED BY <1>1, <2>1, QuietStepOwns, CancelChildrenOwns, CancelAttemptOwns, PlaceOrderOwns,
             PlaceChildOwns, RecordOwns DEF LoopStep
<1>2. CASE PollerStep
  <2>1. CASE BookChild
    BY <2>1, BookingOwns DEF BookChild
  <2> QED BY <1>2, <2>1, LookOwns, CounterpartOwns DEF PollerStep
<1> QED BY <1>1, <1>2, OutsideOwns DEF Next

LEMMA InitOwns == Init => OwnerInv
BY DEF Init, OwnerInv, LiveOwned, PlacedOnce, CancelsFirst, CancelledOnWay, Entered, GivenFirst,
       IdleLoop, IdlePoller, Ids, Children

(* The third inductive invariant, on top of the other two. *)
THEOREM OwnerInvariant == Spec => []OwnerInv
<1>1. Init => OwnerInv
  BY InitOwns
<1>2. IInv /\ FillInv /\ OwnerInv /\ [Next]_vars => OwnerInv'
  BY NextOwns
<1> QED BY <1>1, <1>2, InductiveInvariant, FillInvariant, PTL DEF Spec

\* Once the trade is closed and both coroutines are at rest no order of it is
\* live, but for those the executor lost sight of when a call raised or its
\* polling gave up: no forgotten stop or target sells what is no longer held.
THEOREM NoneLeftBehind == Spec => []NoOrphanOrders
<1>1. FillInv /\ OwnerInv => NoOrphanOrders
  <2>1. FillInv => 0 \notin Ids
    BY DEF FillInv, TypeOK, Ids
  <2> QED BY <2>1
          DEF OwnerInv, LiveOwned, CancelsFirst, NoOrphanOrders, Quiet, Dealt, Status, Children
<1> QED BY <1>1, FillInvariant, OwnerInvariant, PTL

\* A position at rest keeps the stop and the target it was given, whatever the
\* poller, the exits and the broker did, unless an exit failed half-way.
THEOREM ProtectionStays == Spec => []OpenIsProtected
<1>1. FillInv /\ IInv /\ OwnerInv => OpenIsProtected
  <2> SUFFICES ASSUME FillInv, IInv, OwnerInv, held, Quiet, ~exitFailed
               PROVE  /\ \A c \in DOMAIN children : children[c] # 0 => Status(children[c]) # "cancelled"
                      /\ givenUp = {} => \A c \in DOMAIN children : children[c] # 0 \/ c \in refused
    BY DEF OpenIsProtected
  <2>1. DOMAIN children = Children /\ row = "FILLED"
    BY DEF FillInv, TypeOK, Children, IInv, BookingInv, ExitBookedOnce
  <2>2. loop.task = "none" /\ poller.at = "sleep"
    BY DEF Quiet, OwnerInv, Entered
  <2>3. \A c \in Children : children[c] # 0 => Status(children[c]) # "cancelled"
    BY <2>1, <2>2 DEF OwnerInv, CancelledOnWay
  <2>4. givenUp = {} => \A c \in Children : children[c] # 0 \/ c \in refused
    BY <2>1 DEF OwnerInv, GivenFirst, Given
  <2> QED BY <2>1, <2>3, <2>4
<1> QED BY <1>1, InductiveInvariant, FillInvariant, OwnerInvariant, PTL
=============================================================================
