-------------------------------- MODULE Payments -------------------------------
(***************************************************************************)
(* How one order comes to be paid: its freight is quoted and a rate is     *)
(* accepted (ShippingQuoteService), a checkout is opened at Polar          *)
(* (PolarCheckoutService), and Polar reports by webhook what became of it  *)
(* (PolarWebhookService).  The services touch no other order, so one order *)
(* is enough.                                                              *)
(*                                                                         *)
(* Requests and webhook deliveries run side by side.  Each loads the order *)
(* it is about once, waits for other systems, and saves the whole row as   *)
(* it loaded it, with its own changes: the save writes back every column   *)
(* that differs from the row, so it undoes what others saved in between.   *)
(***************************************************************************)
EXTENDS Naturals, Sequences, FiniteSets

CONSTANTS
    Handlers,       \* requests and deliveries in progress at the same time
    Subtotal,       \* subtotal + tax - discount of the order
    Prices,         \* freight prices Skydropx quotes; all of them above zero
    Asked,          \* prices of the rate ids a client may send
    Unquoted,       \* no rate accepted yet: shipping_quoted_at is null
    PolarEvents,    \* event types Polar sends
    MayFail,        \* whether a request may fail, or the process die, midway
    MaxCheckouts,   \* bounds of the model: checkouts opened at Polar,
    MaxDeliveries,  \* deliveries of one event,
    MaxRequests     \* and requests in a behaviour

EventTypes == {"order.paid", "order.refunded", "checkout.updated", "checkout.expired"}

ASSUME PaymentsAssumption ==
    /\ Subtotal \in Nat \ {0}
    /\ Prices \subseteq Nat \ {0} /\ Prices \subseteq Asked
    /\ Unquoted \notin Nat
    /\ PolarEvents \subseteq EventTypes
    /\ MayFail \in BOOLEAN
    /\ MaxCheckouts \in Nat /\ MaxDeliveries \in Nat /\ MaxRequests \in Nat

Ids == 1..MaxCheckouts

Events == [type : EventTypes, id : Ids]

Order == [pay     : {"pending", "paid", "refunded"},
          freight : Prices \cup {Unquoted},
          rates   : SUBSET Prices]

(* orderGrandTotal of the row; it changes only together with the freight.  *)
Total(o) == Subtotal + (IF o.freight = Unquoted THEN 0 ELSE o.freight)

\* mutant: the two copies of the list have come to differ
TerminalWithOpen == {"succeeded", "confirmed", "expired", "failed", "open"}

(* TERMINAL_CHECKOUT_STATUSES.                                             *)
Terminal == {"succeeded", "confirmed", "expired", "failed"}

VARIABLES
    order,       \* the order row
    checkouts,   \* payments.polar_checkouts of the order, oldest first
    payments,    \* orders.order_payments, counted by transaction_ref
    inbox,       \* webhook_events: events recorded
    processed,   \* those with processed_at set
    polar,       \* external: the checkouts Polar knows and what they charge
    sent,        \* external: events Polar has sent
    acked,       \* external: events answered with 200
    deliveries,  \* how often each event was delivered
    req,         \* what each handler is doing
    started      \* requests begun so far

payVars == <<order, checkouts, payments, inbox, processed, polar, sent, acked,
             deliveries, req, started>>
server == <<order, checkouts, payments, inbox, processed>>
outside == <<polar, sent, acked, deliveries>>

NoReq == [pc |-> "idle"]

Request ==
    {NoReq}
        \cup [pc : {"checking", "creating", "saving"}, op : {"pay", "quote", "rate", "staff"},
              seen : Order, price : Asked \cup {Unquoted}, id : Ids \cup {0}]
        \cup [pc : {"received", "handled"}, event : Events]
        \cup [pc : {"loaded"}, event : Events, seen : Order, fresh : BOOLEAN]

PayInit ==
    /\ order = [pay |-> "pending", freight |-> Unquoted, rates |-> {}]
    /\ checkouts = <<>>
    /\ payments = [i \in Ids |-> 0]
    /\ inbox = {} /\ processed = {}
    /\ polar = <<>>
    /\ sent = {} /\ acked = {}
    /\ deliveries = [e \in Events |-> 0]
    /\ req = [h \in Handlers |-> NoReq]
    /\ started = 0

-------------------------------------------------------------------------------
(* Requests: load the order, look for an open checkout, save. *)

Begin(h, op, pc, price) ==
    /\ req[h] = NoReq
    /\ started < MaxRequests
    /\ started' = started + 1
    /\ req' = [req EXCEPT ![h] = [pc |-> pc, op |-> op, seen |-> order, price |-> price, id |-> 0]]
    /\ UNCHANGED <<server, outside>>

\* mutant: the freight guard is missing
BeginPayUnquoted(h) ==
    /\ order.pay # "paid"
    /\ Begin(h, "pay", "checking", Unquoted)

(* createForOrder.                                                         *)
BeginPay(h) ==
    /\ order.pay # "paid"
    /\ order.freight # Unquoted
    /\ Begin(h, "pay", "checking", Unquoted)

(* quoteForOrder.                                                          *)
BeginQuote(h) ==
    /\ order.pay # "paid"
    /\ Begin(h, "quote", "checking", Unquoted)

\* mutant: the client names its own freight
BeginRateUnchecked(h, price) ==
    /\ order.pay # "paid"
    /\ Begin(h, "rate", "checking", price)

(* selectRate: the rate must be among those quoted last.                   *)
BeginRate(h, price) ==
    /\ order.pay # "paid"
    /\ price \in order.rates
    /\ Begin(h, "rate", "checking", price)

(* Confirm, prepare, cancel, PATCH and the shipment calls change columns   *)
(* that are not modelled here and save the row they loaded.                *)
BeginStaff(h) == Begin(h, "staff", "saving", Unquoted)

Answer(h) == req' = [req EXCEPT ![h] = NoReq]

Open == \E i \in DOMAIN checkouts : checkouts[i].status \notin Terminal

\* mutant: only createForOrder looks for an open checkout
CheckPayOnly(h) ==
    /\ req[h].pc = "checking"
    /\ IF Open /\ req[h].op = "pay"
       THEN Answer(h)
       ELSE req' = [req EXCEPT ![h].pc = IF req[h].op = "pay" THEN "creating" ELSE "saving"]
    /\ UNCHANGED <<server, outside, started>>

(* The open-checkout query of createForOrder and of assertRepriceable.     *)
Check(h) ==
    /\ req[h].pc = "checking"
    /\ IF Open
       THEN Answer(h)
       ELSE req' = [req EXCEPT ![h].pc = IF req[h].op = "pay" THEN "creating" ELSE "saving"]
    /\ UNCHANGED <<server, outside, started>>

CreateAtPolar(h) ==
    /\ req[h].pc = "creating"
    /\ Len(polar) < MaxCheckouts
    /\ polar' = Append(polar, [amount |-> Total(req[h].seen), state |-> "live"])
    /\ req' = [req EXCEPT ![h].pc = "saving", ![h].id = Len(polar) + 1]
    /\ UNCHANGED <<server, sent, acked, deliveries, started>>

Saving(h, op) == req[h].pc = "saving" /\ req[h].op = op /\ Answer(h)

SaveCheckout(h) ==
    /\ Saving(h, "pay")
    /\ checkouts' = Append(checkouts, [id |-> req[h].id, status |-> "open"])
    /\ UNCHANGED <<order, payments, inbox, processed, outside, started>>

SaveOrder(row) ==
    /\ order' = row
    /\ UNCHANGED <<checkouts, payments, inbox, processed, outside, started>>

SaveQuote(h) ==
    /\ Saving(h, "quote")
    /\ \E rates \in (SUBSET Prices) \ {{}} : SaveOrder([req[h].seen EXCEPT !.rates = rates])

SaveRate(h) ==
    /\ Saving(h, "rate")
    /\ SaveOrder([req[h].seen EXCEPT !.freight = req[h].price])

SaveStaff(h) ==
    /\ Saving(h, "staff")
    /\ SaveOrder(req[h].seen)

-------------------------------------------------------------------------------
(* Polar, as the code relies on it: it charges the amount a checkout was   *)
(* opened with, and delivers an event until it is answered, maybe again    *)
(* after that, in any order.                                               *)

Tell(type, i) ==
    /\ type \in PolarEvents
    /\ sent' = sent \cup {[type |-> type, id |-> i]}
    /\ UNCHANGED <<server, acked, deliveries, req, started>>

Becomes(i, from, to) == polar[i].state = from /\ polar' = [polar EXCEPT ![i].state = to]

CustomerPays(i) == Becomes(i, "live", "paid") /\ Tell("order.paid", i)
CheckoutExpires(i) == Becomes(i, "live", "expired") /\ Tell("checkout.expired", i)
StaffRefunds(i) == Becomes(i, "paid", "refunded") /\ Tell("order.refunded", i)
CheckoutChanges(i) ==
    /\ [type |-> "checkout.updated", id |-> i] \notin sent
    /\ Tell("checkout.updated", i)
    /\ UNCHANGED polar

-------------------------------------------------------------------------------
(* Webhooks. *)

\* mutant: the event is recorded, but nobody looks whether it already was
DeliverUnrecorded(h, e) ==
    /\ req[h] = NoReq
    /\ e \in sent /\ deliveries[e] < MaxDeliveries
    /\ deliveries' = [deliveries EXCEPT ![e] = @ + 1]
    /\ inbox' = inbox \cup {e}
    /\ req' = [req EXCEPT ![h] = [pc |-> "received", event |-> e]]
    /\ UNCHANGED <<order, checkouts, payments, processed, polar, sent, acked, started>>

\* mutant: the key is the id alone, without the type
DeliverByCheckout(h, e) ==
    /\ req[h] = NoReq
    /\ e \in sent /\ deliveries[e] < MaxDeliveries
    /\ deliveries' = [deliveries EXCEPT ![e] = @ + 1]
    /\ IF \E f \in inbox : f.id = e.id
       THEN acked' = acked \cup {e} /\ UNCHANGED <<inbox, req>>
       ELSE /\ inbox' = inbox \cup {e}
            /\ req' = [req EXCEPT ![h] = [pc |-> "received", event |-> e]]
            /\ UNCHANGED acked
    /\ UNCHANGED <<order, checkouts, payments, processed, polar, sent, started>>

(* insertIfNew: the first delivery gets to process the event; any other    *)
(* is answered with 200 at once.                                           *)
Deliver(h, e) ==
    /\ req[h] = NoReq
    /\ e \in sent /\ deliveries[e] < MaxDeliveries
    /\ deliveries' = [deliveries EXCEPT ![e] = @ + 1]
    /\ IF e \in inbox
       THEN acked' = acked \cup {e} /\ UNCHANGED <<inbox, req>>
       ELSE /\ inbox' = inbox \cup {e}
            /\ req' = [req EXCEPT ![h] = [pc |-> "received", event |-> e]]
            /\ UNCHANGED acked
    /\ UNCHANGED <<order, checkouts, payments, processed, polar, sent, started>>

(* What handleOrderPaid and handleOrderRefunded read before they write.    *)
LoadOrder(h) ==
    /\ req[h].pc = "received"
    /\ LET e == req[h].event
       IN  /\ e.type \in {"order.paid", "order.refunded"}
           /\ req' = [req EXCEPT ![h] = [pc |-> "loaded", event |-> e, seen |-> order,
                                        fresh |-> payments[e.id] = 0]]
    /\ UNCHANGED <<server, outside, started>>

Handled(h) == req' = [req EXCEPT ![h] = [pc |-> "handled", event |-> req[h].event]]

Rows(id) == {i \in DOMAIN checkouts : checkouts[i].id = id}

Mark(rowset, to) ==
    checkouts' = [i \in DOMAIN checkouts |->
                     IF i \in rowset THEN [checkouts[i] EXCEPT !.status = to] ELSE checkouts[i]]

(* The transaction of handleOrderPaid: the order, its checkout - the       *)
(* latest one when the one paid has no row - and the payment.              *)
HookPaid(h) ==
    /\ req[h].pc = "loaded"
    /\ LET e == req[h].event
           seen == req[h].seen
       IN  /\ e.type = "order.paid"
           /\ order' = IF seen.pay = "paid" THEN order ELSE [seen EXCEPT !.pay = "paid"]
           /\ Mark(IF Rows(e.id) # {} THEN Rows(e.id) ELSE DOMAIN checkouts \cap {Len(checkouts)},
                   "succeeded")
           /\ payments' = [payments EXCEPT ![e.id] = IF req[h].fresh THEN @ + 1 ELSE @]
    /\ Handled(h)
    /\ UNCHANGED <<inbox, processed, outside, started>>

HookRefunded(h) ==
    /\ req[h].pc = "loaded"
    /\ req[h].event.type = "order.refunded"
    /\ order' = [req[h].seen EXCEPT !.pay = "refunded"]
    /\ Handled(h)
    /\ UNCHANGED <<checkouts, payments, inbox, processed, outside, started>>

(* handleCheckoutStatus: no row, nothing to do; anything but an expiry     *)
(* makes the checkout open, whatever it was.                               *)
HookCheckout(h) ==
    /\ req[h].pc = "received"
    /\ LET e == req[h].event
       IN  /\ e.type \in {"checkout.updated", "checkout.expired"}
           /\ Mark(Rows(e.id), IF e.type = "checkout.expired" THEN "expired" ELSE "open")
    /\ Handled(h)
    /\ UNCHANGED <<order, payments, inbox, processed, outside, started>>

(* processed_at, and the answer.                                           *)
HookDone(h) ==
    /\ req[h].pc = "handled"
    /\ processed' = processed \cup {req[h].event}
    /\ acked' = acked \cup {req[h].event}
    /\ Answer(h)
    /\ UNCHANGED <<order, checkouts, payments, inbox, polar, sent, deliveries, started>>

(* A call fails or the process dies; what was committed stays, the inbox   *)
(* row included, and a delivery is answered with an error or not at all.   *)
Fail(h) ==
    /\ MayFail
    /\ req[h] # NoReq
    /\ Answer(h)
    /\ UNCHANGED <<server, outside, started>>

-------------------------------------------------------------------------------

RequestStep(h) ==
    \/ Check(h) \/ CreateAtPolar(h)
    \/ SaveCheckout(h) \/ SaveQuote(h) \/ SaveRate(h) \/ SaveStaff(h)

HookStep(h) ==
    \/ LoadOrder(h) \/ HookPaid(h) \/ HookRefunded(h) \/ HookCheckout(h) \/ HookDone(h)

PayNext ==
    \/ \E h \in Handlers :
          \/ BeginPay(h) \/ BeginQuote(h) \/ BeginStaff(h)
          \/ \E price \in Asked : BeginRate(h, price)
          \/ RequestStep(h) \/ HookStep(h) \/ Fail(h)
          \/ \E e \in Events : Deliver(h, e)
    \/ \E i \in DOMAIN polar :
          \/ CustomerPays(i) \/ CheckoutExpires(i) \/ StaffRefunds(i) \/ CheckoutChanges(i)

PaySpec == PayInit /\ [][PayNext]_payVars

(* A request that was begun goes on, and Polar delivers what it has sent.  *)
FairPaySpec ==
    /\ PaySpec
    /\ \A h \in Handlers : WF_payVars(RequestStep(h)) /\ WF_payVars(HookStep(h))
    /\ \A e \in Events : WF_payVars(\E h \in Handlers : Deliver(h, e))

-------------------------------------------------------------------------------

PayTypeOK ==
    /\ order \in Order
    /\ checkouts \in Seq([id : Ids, status : {"open", "expired", "succeeded"}])
    /\ payments \in [Ids -> Nat]
    /\ inbox \subseteq Events /\ processed \subseteq inbox
    /\ polar \in Seq([amount : Nat, state : {"live", "paid", "expired", "refunded"}])
    /\ sent \subseteq Events /\ acked \subseteq sent
    /\ deliveries \in [Events -> 0..MaxDeliveries]
    /\ req \in [Handlers -> Request]
    /\ started \in 0..MaxRequests

(* However often an event is delivered, and however many deliveries run at *)
(* once or fail midway, one payment is recorded for it at most.            *)
NoDuplicatePayment == \A i \in Ids : payments[i] <= 1

(* Nobody is charged without a freight Skydropx quoted for the order:      *)
(* "skipping the quote screen entirely" does not ship for free, whatever   *)
(* runs at the same time.                                                  *)
ChargedWithFreight ==
    \A i \in DOMAIN polar : \E price \in Prices : polar[i].amount = Subtotal + price

(* No customer can be charged an amount that matches nothing in the        *)
(* database: what a live checkout charges is the order's grand total.      *)
ChargeMatchesOrder ==
    \A i \in DOMAIN polar : polar[i].state = "live" => polar[i].amount = Total(order)

(* The order can be paid through one checkout at a time.                   *)
OneLiveCheckout ==
    Cardinality({i \in DOMAIN polar : polar[i].state = "live"}) <= 1

(* An event Polar need not deliver again was processed, or still is being. *)
AnsweredIsProcessed ==
    \A e \in acked : e \in processed \/ \E h \in Handlers : req[h] # NoReq /\ req[h].pc \in
        {"received", "loaded", "handled"} /\ req[h].event = e

(* Money Polar has taken is on record in the end.                          *)
PaidIsRecorded ==
    \A i \in Ids : (i \in DOMAIN polar /\ polar[i].state = "paid") ~> (payments[i] = 1)
===============================================================================
