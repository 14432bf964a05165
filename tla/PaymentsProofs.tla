----------------------------- MODULE PaymentsProofs -----------------------------
(***************************************************************************)
(* Proofs about Payments: what is recorded and charged, for any number of  *)
(* requests, deliveries, prices and failures.                              *)
(***************************************************************************)
EXTENDS Payments, FiniteSetTheorems, SequenceTheorems, TLAPS

(* A finite set has one element at most when any two of them are the same. *)
LEMMA AtMostOne ==
    ASSUME NEW S, IsFiniteSet(S)
    PROVE  Cardinality(S) <= 1 <=> \A x, y \in S : x = y
<1>1. Cardinality(S) \in Nat
  BY FS_CardinalityType
<1>2. ASSUME Cardinality(S) <= 1 PROVE \A x, y \in S : x = y
  <2>1. Cardinality(S) = 0 \/ Cardinality(S) = 1
    BY <1>1, <1>2
  <2>2. S = {} \/ \E x : S = {x}
    BY <2>1, FS_EmptySet, FS_Singleton
  <2> QED
    BY <2>2
<1>3. ASSUME \A x, y \in S : x = y PROVE Cardinality(S) <= 1
  <2>1. S = {} \/ \E x : S = {x}
    BY <1>3
  <2>2. Cardinality(S) = 0 \/ Cardinality(S) = 1
    BY <2>1, FS_EmptySet, FS_Singleton
  <2> QED
    BY <2>2
<1> QED
  BY <1>2, <1>3

(* Appending adds one element at the end and keeps the others.             *)
LEMMA AppendTo ==
    ASSUME NEW S, NEW s \in Seq(S), NEW e \in S
    PROVE  /\ Append(s, e) \in Seq(S)
           /\ DOMAIN Append(s, e) = DOMAIN s \cup {Len(s) + 1}
           /\ Len(Append(s, e)) = Len(s) + 1
           /\ Len(s) \in Nat /\ DOMAIN s = 1..Len(s)
           /\ Append(s, e)[Len(s) + 1] = e
           /\ \A i \in DOMAIN s : Append(s, e)[i] = s[i]
  OBVIOUS

(* A sequence stays one when its elements change within their set.         *)
LEMMA ChangedInPlace ==
    ASSUME NEW S, NEW s \in Seq(S), NEW t \in [DOMAIN s -> S]
    PROVE  t \in Seq(S) /\ Len(t) = Len(s) /\ DOMAIN t = DOMAIN s
<1>1. Len(s) \in Nat /\ DOMAIN s = 1..Len(s)
  BY LenProperties
<1>2. t \in [1..Len(s) -> S]
  BY <1>1
<1>3. t \in Seq(S)
  BY <1>1, <1>2
<1> QED
  BY <1>1, <1>2, <1>3, LenProperties

Checkout == [id : Ids, status : {"open", "expired", "succeeded"}]
AtPolar == [amount : Nat, state : {"live", "paid", "expired", "refunded"}]

Asking == {"checking", "creating", "saving"}
Hooked == {"received", "loaded", "handled"}

(* The rows and what Polar knows, with their types.                        *)
RowsOK ==
    /\ order \in Order
    /\ checkouts \in Seq(Checkout)
    /\ payments \in [Ids -> Nat]
    /\ polar \in Seq(AtPolar) /\ Len(polar) <= MaxCheckouts
    /\ sent \subseteq Events /\ acked \subseteq sent /\ inbox \subseteq sent /\ processed \subseteq inbox
    /\ deliveries \in [Events -> 0..MaxDeliveries]
    /\ req \in [Handlers -> Request]
    /\ started \in 0..MaxRequests

(* A request that goes for a checkout loaded an order with a freight, one  *)
(* that sets a rate has a quoted price, and an open one is at Polar.       *)
AskedInv ==
    \A h \in Handlers : req[h].pc \in Asking =>
        /\ req[h].op = "pay" => req[h].seen.freight # Unquoted
        /\ req[h].op = "rate" => req[h].price \in Prices
        /\ req[h].pc = "creating" => req[h].op = "pay"
        /\ req[h].pc = "saving" /\ req[h].op = "pay" => req[h].id \in DOMAIN polar

(* A delivery at work has its event in the inbox, and to itself.           *)
HookedInv ==
    /\ \A h \in Handlers : req[h].pc \in Hooked => req[h].event \in inbox
    /\ \A g, h \in Handlers :
          req[g].pc \in Hooked /\ req[h].pc \in Hooked /\ req[g].event = req[h].event => g = h

PaidEvent(i) == [type |-> "order.paid", id |-> i]

(* Until its delivery has written it, a payment is not on record.          *)
Unwritten(i) ==
    \/ PaidEvent(i) \notin inbox
    \/ \E h \in Handlers : req[h].pc \in {"received", "loaded"} /\ req[h].event = PaidEvent(i)

PaymentInv == \A i \in Ids : payments[i] <= 1 /\ (Unwritten(i) => payments[i] = 0)

PayInv == RowsOK /\ AskedInv /\ HookedInv /\ PaymentInv /\ ChargedWithFreight

-------------------------------------------------------------------------------
(* Initially *)

LEMMA PayInitially == PayInit => PayInv
<1> SUFFICES ASSUME PayInit PROVE PayInv
  OBVIOUS
<1> USE PaymentsAssumption DEF PayInit
<1>1. RowsOK
  BY DEF RowsOK, Order, Request, NoReq
<1>2. AskedInv /\ HookedInv
  BY DEF AskedInv, HookedInv, NoReq, Asking, Hooked
<1>3. PaymentInv
  BY DEF PaymentInv
<1>4. ChargedWithFreight
  BY DEF ChargedWithFreight
<1> QED
  BY <1>1, <1>2, <1>3, <1>4 DEF PayInv

-------------------------------------------------------------------------------
(* Requests *)

(* What a request is, by where it is.                                      *)
LEMMA RequestIs ==
    ASSUME NEW q \in Request
    PROVE  /\ q.pc \in {"idle"} \cup Asking \cup Hooked
           /\ q.pc \in Asking =>
                 /\ q \in [pc : Asking, op : {"pay", "quote", "rate", "staff"}, seen : Order,
                           price : Asked \cup {Unquoted}, id : Ids \cup {0}]
           /\ q.pc \in {"received", "handled"} => q \in [pc : {"received", "handled"}, event : Events]
           /\ q.pc = "loaded" => q \in [pc : {"loaded"}, event : Events, seen : Order, fresh : BOOLEAN]
           /\ q = NoReq <=> q.pc = "idle"
  BY DEF Request, NoReq, Asking, Hooked

(* A step of one handler that touches neither the inbox nor the payments   *)
(* keeps what is known of the deliveries, when it does not start one.      *)
LEMMA HooksApart ==
    ASSUME HookedInv, PaymentInv, req \in [Handlers -> Request], NEW h \in Handlers, NEW q,
           req' = [req EXCEPT ![h] = q], UNCHANGED <<inbox, payments>>,
           q.pc \in Hooked => req[h].pc \in Hooked /\ q.event = req[h].event,
           q.pc \in {"received", "loaded"} => req[h].pc \in {"received", "loaded"}
    PROVE  HookedInv' /\ PaymentInv'
<1>1. req'[h] = q /\ \A g \in Handlers \ {h} : req'[g] = req[g]
  OBVIOUS
<1>2. HookedInv'
  BY <1>1 DEF HookedInv
<1>3. \A i \in Ids : Unwritten(i)' => Unwritten(i)
  BY <1>1 DEF Unwritten, Hooked
<1>4. PaymentInv'
  BY <1>3 DEF PaymentInv
<1> QED
  BY <1>2, <1>4

(* The same for the requests.                                              *)
LEMMA AsksApart ==
    ASSUME AskedInv, req \in [Handlers -> Request], NEW h \in Handlers, NEW q,
           req' = [req EXCEPT ![h] = q], DOMAIN polar \subseteq DOMAIN polar',
           q.pc \in Asking =>
              /\ q.op = "pay" => q.seen.freight # Unquoted
              /\ q.op = "rate" => q.price \in Prices
              /\ q.pc = "creating" => q.op = "pay"
              /\ q.pc = "saving" /\ q.op = "pay" => q.id \in DOMAIN polar'
    PROVE  AskedInv'
  BY DEF AskedInv

LEMMA BeginKeeps ==
    ASSUME PayInv, NEW h \in Handlers,
           \/ BeginPay(h) \/ BeginQuote(h) \/ BeginStaff(h)
           \/ \E price \in Asked : BeginRate(h, price)
    PROVE  PayInv'
<1>1. PICK op \in {"pay", "quote", "rate", "staff"}, pc \in {"checking", "saving"}, price \in Asked \cup {Unquoted} :
        /\ Begin(h, op, pc, price)
        /\ op = "pay" => order.freight # Unquoted /\ pc = "checking"
        /\ op = "rate" => price \in order.rates
  BY DEF BeginPay, BeginQuote, BeginStaff, BeginRate
<1> DEFINE q == [pc |-> pc, op |-> op, seen |-> order, price |-> price, id |-> 0]
<1>2. /\ req[h] = NoReq /\ req' = [req EXCEPT ![h] = q]
      /\ started' \in 0..MaxRequests /\ UNCHANGED <<server, outside>>
  BY <1>1, PaymentsAssumption DEF Begin, PayInv, RowsOK
<1>3. q \in Request
  BY DEF Request, PayInv, RowsOK
<1>4. q.pc \in Asking /\ q.op = op /\ q.pc = pc /\ q.seen = order /\ q.price = price /\ q.pc \notin Hooked
  BY DEF Asking, Hooked
<1>5. op = "rate" => price \in Prices
  BY <1>1 DEF PayInv, RowsOK, Order
<1> HIDE DEF q
<1>6. RowsOK'
  BY <1>2, <1>3 DEF PayInv, RowsOK, server, outside
<1>7. HookedInv' /\ PaymentInv'
  BY <1>2, <1>4, HooksApart DEF PayInv, RowsOK, server, Hooked
<1>8. AskedInv'
  BY <1>1, <1>2, <1>4, <1>5, AsksApart DEF PayInv, RowsOK, outside
<1>9. ChargedWithFreight'
  BY <1>2 DEF PayInv, ChargedWithFreight, outside
<1> QED
  BY <1>6, <1>7, <1>8, <1>9 DEF PayInv

(* A request or a delivery that ends leaves nothing to know about it.      *)
LEMMA AnswerApart ==
    ASSUME PayInv, NEW h \in Handlers, Answer(h), UNCHANGED <<inbox, payments, polar>>
    PROVE  AskedInv' /\ HookedInv' /\ PaymentInv' /\ req' \in [Handlers -> Request]
<1>1. req \in [Handlers -> Request] /\ NoReq \in Request /\ NoReq.pc = "idle"
  BY DEF PayInv, RowsOK, Request, NoReq
<1>2. req' = [req EXCEPT ![h] = NoReq]
  BY DEF Answer
<1>3. HookedInv' /\ PaymentInv'
  BY <1>1, <1>2, HooksApart DEF PayInv, Hooked
<1>4. AskedInv'
  BY <1>1, <1>2, AsksApart DEF PayInv, Asking
<1> QED
  BY <1>1, <1>2, <1>3, <1>4

LEMMA CheckKeeps ==
    ASSUME PayInv, NEW h \in Handlers, Check(h) PROVE PayInv'
<1>1. UNCHANGED <<server, outside, started>> /\ req[h].pc = "checking"
  BY DEF Check
<1>2. AskedInv' /\ HookedInv' /\ PaymentInv' /\ req' \in [Handlers -> Request]
  <2>1. CASE Answer(h)
    BY <1>1, <2>1, AnswerApart DEF server, outside
  <2>2. CASE ~Answer(h)
    <3>1. PICK pc \in {"creating", "saving"} :
            req' = [req EXCEPT ![h].pc = pc] /\ (pc = "creating" <=> req[h].op = "pay")
      BY <2>2 DEF Check
    <3>2. PICK q : q = [req[h] EXCEPT !.pc = pc]
      OBVIOUS
    <3>3. req[h] \in [pc : Asking, op : {"pay", "quote", "rate", "staff"}, seen : Order,
                      price : Asked \cup {Unquoted}, id : Ids \cup {0}]
      BY <1>1, RequestIs DEF PayInv, RowsOK, Asking
    <3>4. /\ q \in Request /\ q.pc = pc /\ q.op = req[h].op
          /\ q.seen = req[h].seen /\ q.price = req[h].price
      BY <3>2, <3>3 DEF Request
    <3>5. req' = [req EXCEPT ![h] = q] /\ req \in [Handlers -> Request]
      BY <3>1, <3>2 DEF PayInv, RowsOK
    <3>6. HookedInv' /\ PaymentInv'
      BY <1>1, <3>4, <3>5, HooksApart DEF PayInv, server, Hooked
    <3>7. AskedInv'
      BY <1>1, <3>1, <3>4, <3>5, AsksApart DEF PayInv, AskedInv, Asking, outside
    <3> QED
      BY <3>4, <3>5, <3>6, <3>7
  <2> QED
    BY <2>1, <2>2
<1>3. RowsOK'
  BY <1>1, <1>2 DEF PayInv, RowsOK, server, outside
<1>4. ChargedWithFreight'
  BY <1>1 DEF PayInv, ChargedWithFreight, outside
<1> QED
  BY <1>2, <1>3, <1>4 DEF PayInv

(* What is opened at Polar charges the total of the order as it was        *)
(* loaded, which has a freight.                                            *)
LEMMA TotalWithFreight ==
    ASSUME NEW o \in Order, o.freight # Unquoted
    PROVE  Total(o) \in Nat /\ \E price \in Prices : Total(o) = Subtotal + price
<1>1. o.freight \in Prices /\ o.freight \in Nat
  BY PaymentsAssumption DEF Order
<1>2. Total(o) = Subtotal + o.freight
  BY DEF Total
<1> QED
  BY <1>1, <1>2, PaymentsAssumption

LEMMA CreateKeeps ==
    ASSUME PayInv, NEW h \in Handlers, CreateAtPolar(h) PROVE PayInv'
<1> DEFINE n == Len(polar) + 1
           new == [amount |-> Total(req[h].seen), state |-> "live"]
<1>1. /\ req[h].pc = "creating" /\ Len(polar) < MaxCheckouts
      /\ polar' = Append(polar, new)
      /\ UNCHANGED <<server, sent, acked, deliveries, started>>
  BY DEF CreateAtPolar
<1>2. req[h] \in [pc : Asking, op : {"pay", "quote", "rate", "staff"}, seen : Order,
                  price : Asked \cup {Unquoted}, id : Ids \cup {0}]
  BY <1>1, RequestIs DEF PayInv, RowsOK, Asking
<1>3. req[h].op = "pay" /\ req[h].seen.freight # Unquoted /\ req[h].seen \in Order
  BY <1>1, <1>2 DEF PayInv, AskedInv, Asking
<1>4. new \in AtPolar /\ \E price \in Prices : new.amount = Subtotal + price
  BY <1>3, TotalWithFreight DEF AtPolar
<1>5. polar \in Seq(AtPolar)
  BY DEF PayInv, RowsOK
<1> HIDE DEF new
<1>6. /\ polar' \in Seq(AtPolar) /\ DOMAIN polar' = DOMAIN polar \cup {n}
      /\ Len(polar') = n /\ Len(polar) \in Nat
      /\ polar'[n] = new /\ \A i \in DOMAIN polar : polar'[i] = polar[i]
  BY <1>1, <1>4, <1>5, AppendTo
<1>7. n \in Ids
  BY <1>1, <1>6, PaymentsAssumption DEF Ids
<1>8. PICK q : q = [req[h] EXCEPT !.pc = "saving", !.id = n]
  OBVIOUS
<1>9. q \in Request /\ q.pc = "saving" /\ q.op = "pay" /\ q.seen = req[h].seen /\ q.id = n
  BY <1>2, <1>3, <1>7, <1>8 DEF Request
<1>10. req' = [req EXCEPT ![h] = q] /\ req \in [Handlers -> Request]
  BY <1>8 DEF CreateAtPolar, PayInv, RowsOK
<1>11. RowsOK'
  <2>1. Len(polar') <= MaxCheckouts
    BY <1>1, <1>6, PaymentsAssumption
  <2> QED
    BY <1>1, <1>6, <1>9, <1>10, <2>1 DEF PayInv, RowsOK, server
<1>12. HookedInv' /\ PaymentInv'
  BY <1>1, <1>9, <1>10, HooksApart DEF PayInv, server, Hooked
<1>13. AskedInv'
  BY <1>3, <1>6, <1>9, <1>10, AsksApart DEF PayInv
<1>14. ChargedWithFreight'
  BY <1>4, <1>6 DEF PayInv, ChargedWithFreight
<1> QED
  BY <1>11, <1>12, <1>13, <1>14 DEF PayInv

LEMMA SaveKeeps ==
    ASSUME PayInv, NEW h \in Handlers,
           SaveCheckout(h) \/ SaveQuote(h) \/ SaveRate(h) \/ SaveStaff(h)
    PROVE  PayInv'
<1>1. /\ req[h].pc = "saving" /\ Answer(h)
      /\ UNCHANGED <<payments, inbox, processed, polar, sent, acked, deliveries, started>>
  BY DEF SaveCheckout, SaveQuote, SaveRate, SaveStaff, Saving, SaveOrder, outside
<1>2. req[h] \in [pc : Asking, op : {"pay", "quote", "rate", "staff"}, seen : Order,
                  price : Asked \cup {Unquoted}, id : Ids \cup {0}]
  BY <1>1, RequestIs DEF PayInv, RowsOK, Asking
<1>3. AskedInv' /\ HookedInv' /\ PaymentInv' /\ req' \in [Handlers -> Request]
  BY <1>1, AnswerApart
<1>4. order' \in Order /\ checkouts' \in Seq(Checkout)
  <2>1. order \in Order /\ checkouts \in Seq(Checkout) /\ req[h].seen \in Order
    BY <1>2 DEF PayInv, RowsOK
  <2>2. CASE SaveCheckout(h)
    <3>1. req[h].id \in DOMAIN polar /\ order' = order
          /\ checkouts' = Append(checkouts, [id |-> req[h].id, status |-> "open"])
      BY <1>1, <2>2 DEF SaveCheckout, Saving, PayInv, AskedInv, Asking
    <3>2. req[h].id \in Ids
      BY <3>1, LenProperties, PaymentsAssumption DEF PayInv, RowsOK, Ids
    <3>3. [id |-> req[h].id, status |-> "open"] \in Checkout
      BY <3>2 DEF Checkout
    <3> QED
      BY <2>1, <3>1, <3>3, AppendTo
  <2>3. CASE SaveQuote(h)
    <3>1. PICK rates \in SUBSET Prices : order' = [req[h].seen EXCEPT !.rates = rates] /\ checkouts' = checkouts
      BY <2>3 DEF SaveQuote, SaveOrder
    <3> QED
      BY <2>1, <3>1 DEF Order
  <2>4. CASE SaveRate(h)
    <3>1. req[h].price \in Prices
      BY <1>1, <2>4 DEF SaveRate, Saving, PayInv, AskedInv, Asking
    <3>2. order' = [req[h].seen EXCEPT !.freight = req[h].price] /\ checkouts' = checkouts
      BY <2>4 DEF SaveRate, SaveOrder
    <3> QED
      BY <2>1, <3>1, <3>2 DEF Order
  <2>5. CASE SaveStaff(h)
    BY <2>1, <2>5 DEF SaveStaff, SaveOrder
  <2> QED
    BY <2>2, <2>3, <2>4, <2>5
<1>5. RowsOK'
  BY <1>1, <1>3, <1>4 DEF PayInv, RowsOK
<1>6. ChargedWithFreight'
  BY <1>1 DEF PayInv, ChargedWithFreight
<1> QED
  BY <1>3, <1>5, <1>6 DEF PayInv

-------------------------------------------------------------------------------
(* Polar *)

LEMMA PolarKeeps ==
    ASSUME PayInv, NEW i \in DOMAIN polar,
           CustomerPays(i) \/ CheckoutExpires(i) \/ StaffRefunds(i) \/ CheckoutChanges(i)
    PROVE  PayInv'
<1>1. PICK type \in EventTypes : Tell(type, i)
  BY DEF CustomerPays, CheckoutExpires, StaffRefunds, CheckoutChanges, EventTypes
<1>2. /\ sent' = sent \cup {[type |-> type, id |-> i]}
      /\ UNCHANGED <<server, acked, deliveries, req, started>>
  BY <1>1 DEF Tell
<1>3. polar \in Seq(AtPolar) /\ i \in 1..Len(polar) /\ DOMAIN polar = 1..Len(polar) /\ Len(polar) \in Nat
  BY LenProperties DEF PayInv, RowsOK
<1>4. /\ polar' \in Seq(AtPolar) /\ Len(polar') = Len(polar) /\ DOMAIN polar' = DOMAIN polar
      /\ \A j \in DOMAIN polar : polar'[j].amount = polar[j].amount
  <2>1. CASE polar' = polar
    BY <1>3, <2>1
  <2>2. CASE polar' # polar
    <3>1. PICK to \in {"paid", "expired", "refunded"} : polar' = [polar EXCEPT ![i].state = to]
      BY <2>2 DEF CustomerPays, CheckoutExpires, StaffRefunds, CheckoutChanges, Becomes
    <3>2. polar[i] \in AtPolar
      BY <1>3, ElementOfSeq
    <3>3. PICK e : e = [polar[i] EXCEPT !.state = to]
      OBVIOUS
    <3>4. e \in AtPolar /\ e.amount = polar[i].amount
      BY <3>2, <3>3 DEF AtPolar
    <3>5. polar' = [polar EXCEPT ![i] = e]
      BY <3>1, <3>3
    <3>6. polar' \in Seq(AtPolar) /\ Len(polar') = Len(polar)
          /\ \A j \in 1..Len(polar) : polar'[j] = IF j = i THEN e ELSE polar[j]
      BY <1>3, <3>4, <3>5, ExceptSeq
    <3> QED
      BY <1>3, <3>4, <3>6, LenProperties
  <2> QED
    BY <2>1, <2>2
<1>5. i \in Ids
  BY <1>3, PaymentsAssumption DEF Ids, PayInv, RowsOK
<1>6. sent' \subseteq Events
  BY <1>2, <1>5 DEF Events, PayInv, RowsOK
<1>7. RowsOK'
  BY <1>2, <1>4, <1>6 DEF PayInv, RowsOK, server
<1>8. AskedInv'
  BY <1>2, <1>4 DEF PayInv, AskedInv
<1>9. HookedInv' /\ PaymentInv'
  BY <1>2 DEF PayInv, HookedInv, PaymentInv, Unwritten, server
<1>10. ChargedWithFreight'
  BY <1>4 DEF PayInv, ChargedWithFreight
<1> QED
  BY <1>7, <1>8, <1>9, <1>10 DEF PayInv

-------------------------------------------------------------------------------
(* Deliveries *)

LEMMA DeliverKeeps ==
    ASSUME PayInv, NEW h \in Handlers, NEW e \in Events, Deliver(h, e) PROVE PayInv'
<1>1. /\ req[h] = NoReq /\ e \in sent
      /\ deliveries' = [deliveries EXCEPT ![e] = @ + 1] /\ deliveries[e] < MaxDeliveries
      /\ UNCHANGED <<order, checkouts, payments, processed, polar, sent, started>>
  BY DEF Deliver
<1>2. deliveries' \in [Events -> 0..MaxDeliveries]
  BY <1>1, PaymentsAssumption DEF PayInv, RowsOK
<1>3. CASE e \in inbox
  <2>1. acked' = acked \cup {e} /\ UNCHANGED <<inbox, req>>
    BY <1>3 DEF Deliver
  <2> QED
    BY <1>1, <1>2, <2>1 DEF PayInv, RowsOK, AskedInv, HookedInv, PaymentInv, Unwritten, ChargedWithFreight
<1>4. CASE e \notin inbox
  <2> DEFINE q == [pc |-> "received", event |-> e]
  <2>1. inbox' = inbox \cup {e} /\ req' = [req EXCEPT ![h] = q] /\ acked' = acked
    BY <1>4 DEF Deliver
  <2>2. q \in Request /\ q.pc = "received" /\ q.event = e
    BY DEF Request
  <2>3. req \in [Handlers -> Request] /\ req[h].pc = "idle"
    BY <1>1 DEF PayInv, RowsOK, NoReq
  <2> HIDE DEF q
  <2>4. req'[h] = q /\ \A g \in Handlers \ {h} : req'[g] = req[g]
    BY <2>1, <2>3
  <2>5. RowsOK'
    BY <1>1, <1>2, <2>1, <2>2, <2>3 DEF PayInv, RowsOK
  <2>6. AskedInv'
    BY <1>1, <2>1, <2>2, <2>3, AsksApart DEF PayInv, Asking
  <2>7. HookedInv'
    BY <1>4, <2>1, <2>2, <2>4 DEF PayInv, HookedInv
  <2>8. PaymentInv'
    <3> SUFFICES ASSUME NEW i \in Ids PROVE payments[i] <= 1 /\ (Unwritten(i)' => payments[i] = 0)
      BY <1>1 DEF PaymentInv
    <3>1. Unwritten(i)' => Unwritten(i)
      BY <1>4, <2>1, <2>2, <2>3, <2>4 DEF Unwritten
    <3> QED
      BY <3>1 DEF PayInv, PaymentInv
  <2>9. ChargedWithFreight'
    BY <1>1 DEF PayInv, ChargedWithFreight
  <2> QED
    BY <2>5, <2>6, <2>7, <2>8, <2>9 DEF PayInv
<1> QED
  BY <1>3, <1>4

LEMMA LoadKeeps ==
    ASSUME PayInv, NEW h \in Handlers, LoadOrder(h) PROVE PayInv'
<1> DEFINE e == req[h].event
           q == [pc |-> "loaded", event |-> e, seen |-> order, fresh |-> payments[e.id] = 0]
<1>1. req[h].pc = "received" /\ req' = [req EXCEPT ![h] = q] /\ UNCHANGED <<server, outside, started>>
  BY DEF LoadOrder
<1>2. req \in [Handlers -> Request] /\ e \in Events /\ order \in Order
  BY <1>1, RequestIs DEF PayInv, RowsOK, Hooked
<1>3. q \in Request /\ q.pc = "loaded" /\ q.event = e
  BY <1>2 DEF Request
<1> HIDE DEF q
<1>4. RowsOK'
  BY <1>1, <1>2, <1>3 DEF PayInv, RowsOK, server, outside
<1>5. HookedInv' /\ PaymentInv'
  BY <1>1, <1>2, <1>3, HooksApart DEF PayInv, server, Hooked
<1>6. AskedInv'
  BY <1>1, <1>2, <1>3, AsksApart DEF PayInv, Asking, outside
<1>7. ChargedWithFreight'
  BY <1>1 DEF PayInv, ChargedWithFreight, outside
<1> QED
  BY <1>4, <1>5, <1>6, <1>7 DEF PayInv

(* Marking checkouts keeps their rows.                                     *)
LEMMA MarkKeeps ==
    ASSUME checkouts \in Seq(Checkout), NEW S, NEW to \in {"open", "expired", "succeeded"}, Mark(S, to)
    PROVE  checkouts' \in Seq(Checkout) /\ DOMAIN checkouts' = DOMAIN checkouts
<1>1. \A i \in DOMAIN checkouts : checkouts[i] \in Checkout
  BY LenProperties
<1>2. \A c \in Checkout : [c EXCEPT !.status = to] \in Checkout
  BY DEF Checkout
<1>3. checkouts' \in [DOMAIN checkouts -> Checkout]
  BY <1>1, <1>2 DEF Mark
<1> QED
  BY <1>3, ChangedInPlace

LEMMA HookPaidKeeps ==
    ASSUME PayInv, NEW h \in Handlers, HookPaid(h) PROVE PayInv'
<1> DEFINE e == req[h].event
           q == [pc |-> "handled", event |-> e]
<1>1. /\ req[h].pc = "loaded" /\ e.type = "order.paid" /\ req' = [req EXCEPT ![h] = q]
      /\ payments' = [payments EXCEPT ![e.id] = IF req[h].fresh THEN @ + 1 ELSE @]
      /\ UNCHANGED <<inbox, processed, outside, started>>
  BY DEF HookPaid, Handled
<1>2. /\ req \in [Handlers -> Request] /\ e \in Events /\ req[h].seen \in Order /\ order \in Order
      /\ e \in inbox
  BY <1>1, RequestIs DEF PayInv, RowsOK, HookedInv, Hooked
<1>3. q \in Request /\ q.pc = "handled" /\ q.event = e
  BY <1>2 DEF Request
<1> HIDE DEF q
<1>4. req'[h] = q /\ \A g \in Handlers \ {h} : req'[g] = req[g]
  BY <1>1, <1>2
<1>5. order' \in Order
  <2>1. \A o \in Order : [o EXCEPT !.pay = "paid"] \in Order
    BY DEF Order
  <2> QED
    BY <1>2, <2>1 DEF HookPaid
<1>6. checkouts' \in Seq(Checkout)
  BY MarkKeeps DEF HookPaid, PayInv, RowsOK
<1>7. e.id \in Ids /\ e = PaidEvent(e.id)
  BY <1>1, <1>2 DEF Events, PaidEvent
<1>8. Unwritten(e.id) /\ payments[e.id] = 0 /\ payments \in [Ids -> Nat]
  BY <1>1, <1>7 DEF Unwritten, PayInv, PaymentInv, RowsOK
<1>9. payments' \in [Ids -> Nat] /\ payments'[e.id] <= 1
      /\ \A i \in Ids \ {e.id} : payments'[i] = payments[i]
  BY <1>1, <1>7, <1>8
<1>10. RowsOK'
  BY <1>1, <1>2, <1>3, <1>5, <1>6, <1>9 DEF PayInv, RowsOK, outside
<1>11. HookedInv'
  BY <1>1, <1>3, <1>4 DEF PayInv, HookedInv, Hooked
<1>12. AskedInv'
  BY <1>1, <1>2, <1>3, AsksApart DEF PayInv, Asking, outside
<1>13. PaymentInv'
  <2>1. PICK n \in Ids : n = e.id /\ e = PaidEvent(n)
    BY <1>7
  <2>2. ~Unwritten(n)'
    <3>1. \A g \in Handlers : req'[g].pc \in Hooked /\ req'[g].event = PaidEvent(n) => g = h
      BY <1>3, <1>4, <1>11, <2>1 DEF HookedInv, Hooked
    <3> QED
      BY <1>1, <1>2, <1>3, <1>4, <2>1, <3>1 DEF Unwritten, Hooked
  <2> SUFFICES ASSUME NEW i \in Ids PROVE payments'[i] <= 1 /\ (Unwritten(i)' => payments'[i] = 0)
    BY DEF PaymentInv
  <2>3. CASE i = n
    BY <1>9, <2>1, <2>2, <2>3
  <2>4. CASE i # n
    <3>1. Unwritten(i)' => Unwritten(i)
      BY <1>1, <1>3, <1>4 DEF Unwritten
    <3> QED
      BY <1>9, <2>1, <2>4, <3>1 DEF PayInv, PaymentInv
  <2> QED
    BY <2>3, <2>4
<1>14. ChargedWithFreight'
  BY <1>1 DEF PayInv, ChargedWithFreight, outside
<1> QED
  BY <1>10, <1>11, <1>12, <1>13, <1>14 DEF PayInv

LEMMA HookKeeps ==
    ASSUME PayInv, NEW h \in Handlers, HookRefunded(h) \/ HookCheckout(h) PROVE PayInv'
<1> DEFINE e == req[h].event
           q == [pc |-> "handled", event |-> e]
<1>1. /\ req[h].pc \in {"received", "loaded"} /\ req' = [req EXCEPT ![h] = q]
      /\ UNCHANGED <<payments, inbox, processed, outside, started>>
  BY DEF HookRefunded, HookCheckout, Handled
<1>2. req \in [Handlers -> Request] /\ e \in Events
  BY <1>1, RequestIs DEF PayInv, RowsOK, Hooked
<1>3. q \in Request /\ q.pc = "handled" /\ q.event = e
  BY <1>2 DEF Request
<1> HIDE DEF q
<1>4. order' \in Order /\ checkouts' \in Seq(Checkout)
  <2>1. CASE HookRefunded(h)
    <3>1. req[h].seen \in Order
      BY <2>1, <1>2, RequestIs DEF HookRefunded
    <3>2. order' = [req[h].seen EXCEPT !.pay = "refunded"] /\ checkouts' = checkouts
      BY <2>1 DEF HookRefunded
    <3> QED
      BY <3>1, <3>2 DEF Order, PayInv, RowsOK
  <2>2. CASE HookCheckout(h)
    BY <2>2, MarkKeeps DEF HookCheckout, PayInv, RowsOK
  <2> QED
    BY <2>1, <2>2
<1>5. RowsOK'
  BY <1>1, <1>2, <1>3, <1>4 DEF PayInv, RowsOK, outside
<1>6. HookedInv' /\ PaymentInv'
  BY <1>1, <1>2, <1>3, HooksApart DEF PayInv, Hooked
<1>7. AskedInv'
  BY <1>1, <1>2, <1>3, AsksApart DEF PayInv, Asking, outside
<1>8. ChargedWithFreight'
  BY <1>1 DEF PayInv, ChargedWithFreight, outside
<1> QED
  BY <1>5, <1>6, <1>7, <1>8 DEF PayInv

LEMMA EndKeeps ==
    ASSUME PayInv, NEW h \in Handlers, HookDone(h) \/ Fail(h) PROVE PayInv'
<1>1. Answer(h) /\ UNCHANGED <<order, checkouts, payments, inbox, polar, sent, deliveries, started>>
  BY DEF HookDone, Fail, server, outside
<1>2. AskedInv' /\ HookedInv' /\ PaymentInv' /\ req' \in [Handlers -> Request]
  BY <1>1, AnswerApart
<1>3. processed' \subseteq inbox /\ acked' \subseteq sent
  <2>1. CASE Fail(h)
    BY <2>1 DEF Fail, server, outside, PayInv, RowsOK
  <2>2. CASE HookDone(h)
    <3>1. req[h].event \in inbox
      BY <2>2 DEF HookDone, PayInv, HookedInv, Hooked
    <3> QED
      BY <2>2, <3>1 DEF HookDone, PayInv, RowsOK
  <2> QED
    BY <2>1, <2>2
<1>4. RowsOK'
  BY <1>1, <1>2, <1>3 DEF PayInv, RowsOK
<1>5. ChargedWithFreight'
  BY <1>1 DEF PayInv, ChargedWithFreight
<1> QED
  BY <1>2, <1>4, <1>5 DEF PayInv

-------------------------------------------------------------------------------
(* The theorems *)

LEMMA PayStepKeeps == PayInv /\ [PayNext]_payVars => PayInv'
<1> SUFFICES ASSUME PayInv, [PayNext]_payVars PROVE PayInv'
  OBVIOUS
<1>1. ASSUME NEW h \in Handlers, BeginPay(h) \/ BeginQuote(h) \/ BeginStaff(h) PROVE PayInv'
  BY <1>1, BeginKeeps
<1>2. ASSUME NEW h \in Handlers, NEW price \in Asked, BeginRate(h, price) PROVE PayInv'
  BY <1>2, BeginKeeps
<1>3. ASSUME NEW h \in Handlers, RequestStep(h) PROVE PayInv'
  BY <1>3, CheckKeeps, CreateKeeps, SaveKeeps DEF RequestStep
<1>4. ASSUME NEW h \in Handlers, HookStep(h) \/ Fail(h) PROVE PayInv'
  BY <1>4, LoadKeeps, HookPaidKeeps, HookKeeps, EndKeeps DEF HookStep
<1>5. ASSUME NEW h \in Handlers, NEW e \in Events, Deliver(h, e) PROVE PayInv'
  BY <1>5, DeliverKeeps
<1>6. ASSUME NEW i \in DOMAIN polar,
             CustomerPays(i) \/ CheckoutExpires(i) \/ StaffRefunds(i) \/ CheckoutChanges(i)
      PROVE  PayInv'
  BY <1>6, PolarKeeps
<1>7. CASE UNCHANGED payVars
  BY <1>7 DEF payVars, PayInv, RowsOK, AskedInv, HookedInv, PaymentInv, Unwritten, ChargedWithFreight
<1> QED
  BY <1>1, <1>2, <1>3, <1>4, <1>5, <1>6, <1>7 DEF PayNext

(* The strengthening holds in every behaviour of the payment services.     *)
THEOREM PayInvariant == PaySpec => []PayInv
<1> QED
  BY PayInitially, PayStepKeeps, PTL DEF PaySpec

(* The rows, the requests and what Polar knows have the shapes they are    *)
(* declared with.                                                          *)
THEOREM PaymentsTyped == PaySpec => []PayTypeOK
<1>1. PayInv => PayTypeOK
  BY DEF PayInv, RowsOK, PayTypeOK, Checkout, AtPolar
<1> QED
  BY <1>1, PayInvariant, PTL

(* However often and however concurrently Polar delivers that an order was *)
(* paid, PolarWebhookService records one payment for it at most.           *)
THEOREM PaymentsOnce == PaySpec => []NoDuplicatePayment
<1>1. PayInv => NoDuplicatePayment
  BY DEF PayInv, PaymentInv, NoDuplicatePayment
<1> QED
  BY <1>1, PayInvariant, PTL

(* PolarCheckoutService never has anybody charged without a freight that   *)
(* was quoted, whatever the client asks for.                               *)
THEOREM PaymentsWithFreight == PaySpec => []ChargedWithFreight
<1>1. PayInv => ChargedWithFreight
  BY DEF PayInv
<1> QED
  BY <1>1, PayInvariant, PTL

-------------------------------------------------------------------------------
(* Nothing fails: what is answered is dealt with, what is paid arrives *)

AtWork(e) == \E h \in Handlers : req[h].pc \in Hooked /\ req[h].event = e

(* An event in the inbox was processed or is at work, and only those are   *)
(* answered.                                                               *)
AnsweredInv ==
    /\ acked \subseteq inbox
    /\ \A e \in inbox : e \in processed \/ AtWork(e)

Settled(i) == polar[i].state \in {"paid", "refunded"}

(* Polar tells of what it has taken.                                       *)
ToldInv == \A i \in DOMAIN polar : Settled(i) => PaidEvent(i) \in sent

(* A payment that is not to be written any more is on record, since a      *)
(* delivery that is to write it has found none.                            *)
WrittenInv ==
    /\ \A i \in Ids : ~Unwritten(i) => payments[i] = 1
    /\ \A h \in Handlers : req[h].pc = "loaded" /\ req[h].event.type = "order.paid" => req[h].fresh

MoneyInv == AnsweredInv /\ ToldInv /\ WrittenInv

LEMMA MoneyInitially == PayInit => MoneyInv
<1> SUFFICES ASSUME PayInit PROVE MoneyInv
  OBVIOUS
<1>1. \A i \in Ids : Unwritten(i)
  BY DEF PayInit, Unwritten
<1> QED
  BY <1>1 DEF PayInit, MoneyInv, AnsweredInv, ToldInv, WrittenInv, NoReq

(* A step of one handler that leaves the inbox and the payments alone and  *)
(* goes on with the event it is at, if any.                                *)
LEMMA AtWorkStays ==
    ASSUME AnsweredInv, req \in [Handlers -> Request], NEW h \in Handlers, NEW q,
           req' = [req EXCEPT ![h] = q], UNCHANGED <<inbox, processed, acked>>,
           req[h].pc \in Hooked => q.pc \in Hooked /\ q.event = req[h].event
    PROVE  AnsweredInv'
<1>1. req'[h] = q /\ \A g \in Handlers \ {h} : req'[g] = req[g]
  OBVIOUS
<1>2. \A e \in inbox : AtWork(e) => AtWork(e)'
  BY <1>1 DEF AtWork
<1> QED
  BY <1>2 DEF AnsweredInv

LEMMA WrittenStays ==
    ASSUME WrittenInv, req \in [Handlers -> Request], NEW h \in Handlers, NEW q,
           req' = [req EXCEPT ![h] = q], UNCHANGED <<inbox, payments>>,
           req[h].pc \in {"received", "loaded"} =>
              \/ req[h].event.type # "order.paid"
              \/ q.pc \in {"received", "loaded"} /\ q.event = req[h].event,
           q.pc = "loaded" /\ q.event.type = "order.paid" => q.fresh
    PROVE  WrittenInv'
<1>1. req'[h] = q /\ \A g \in Handlers \ {h} : req'[g] = req[g]
  OBVIOUS
<1>2. ASSUME NEW i \in Ids, Unwritten(i) PROVE Unwritten(i)'
  <2>1. CASE PaidEvent(i) \notin inbox
    BY <2>1 DEF Unwritten
  <2>2. CASE \E g \in Handlers : req[g].pc \in {"received", "loaded"} /\ req[g].event = PaidEvent(i)
    <3>1. PICK g \in Handlers : req[g].pc \in {"received", "loaded"} /\ req[g].event = PaidEvent(i)
      BY <2>2
    <3>2. req[g].event.type = "order.paid"
      BY <3>1 DEF PaidEvent
    <3>3. req'[g].pc \in {"received", "loaded"} /\ req'[g].event = PaidEvent(i)
      BY <1>1, <3>1, <3>2
    <3> QED
      BY <3>3 DEF Unwritten
  <2> QED
    BY <1>2, <2>1, <2>2 DEF Unwritten
<1>3. \A i \in Ids : ~Unwritten(i)' => payments'[i] = 1
  BY <1>2 DEF WrittenInv
<1>4. \A g \in Handlers : req'[g].pc = "loaded" /\ req'[g].event.type = "order.paid" => req'[g].fresh
  BY <1>1 DEF WrittenInv
<1> QED
  BY <1>3, <1>4 DEF WrittenInv

(* A request is at no event; what it opens at Polar is not paid yet.       *)
LEMMA AskingKeepsMoney ==
    ASSUME PayInv, MoneyInv, NEW h \in Handlers, NEW q,
           req' = [req EXCEPT ![h] = q], req[h].pc \notin Hooked, q.pc \notin Hooked,
           UNCHANGED <<inbox, processed, payments, sent, acked>>,
           \A i \in DOMAIN polar' :
              polar'[i].state = "live" \/ (i \in DOMAIN polar /\ polar'[i] = polar[i])
    PROVE  MoneyInv'
<1>1. req \in [Handlers -> Request]
  BY DEF PayInv, RowsOK
<1>2. AnsweredInv'
  BY <1>1, AtWorkStays DEF MoneyInv
<1>3. WrittenInv'
  BY <1>1, WrittenStays DEF MoneyInv, Hooked
<1>4. ToldInv'
  BY DEF MoneyInv, ToldInv, Settled
<1> QED
  BY <1>2, <1>3, <1>4 DEF MoneyInv

LEMMA BeginKeepsMoney ==
    ASSUME PayInv, MoneyInv, NEW h \in Handlers,
           \/ BeginPay(h) \/ BeginQuote(h) \/ BeginStaff(h)
           \/ \E price \in Asked : BeginRate(h, price)
    PROVE  MoneyInv'
<1>1. PICK op \in {"pay", "quote", "rate", "staff"}, pc \in {"checking", "saving"}, price \in Asked \cup {Unquoted} :
        Begin(h, op, pc, price)
  BY DEF BeginPay, BeginQuote, BeginStaff, BeginRate
<1>2. PICK q : q = [pc |-> pc, op |-> op, seen |-> order, price |-> price, id |-> 0]
  OBVIOUS
<1>3. req[h] = NoReq /\ req' = [req EXCEPT ![h] = q] /\ UNCHANGED <<server, outside>>
  BY <1>1, <1>2 DEF Begin
<1>4. q.pc \notin Hooked /\ req[h].pc \notin Hooked
  BY <1>2, <1>3 DEF Hooked, NoReq
<1> QED
  BY <1>3, <1>4, AskingKeepsMoney DEF server, outside

LEMMA RequestKeepsMoney ==
    ASSUME PayInv, MoneyInv, NEW h \in Handlers, RequestStep(h) PROVE MoneyInv'
<1>1. /\ req[h].pc \in Asking /\ req[h].pc \notin Hooked
      /\ UNCHANGED <<inbox, processed, payments, sent, acked>>
  BY DEF RequestStep, Check, CreateAtPolar, SaveCheckout, SaveQuote, SaveRate, SaveStaff, SaveOrder,
         Saving, Asking, Hooked, server, outside
<1>2. CASE CreateAtPolar(h)
  <2>1. PICK q : q = [req[h] EXCEPT !.pc = "saving", !.id = Len(polar) + 1]
    OBVIOUS
  <2>2. req[h] \in [pc : Asking, op : {"pay", "quote", "rate", "staff"}, seen : Order,
                    price : Asked \cup {Unquoted}, id : Ids \cup {0}]
    BY <1>1, RequestIs DEF PayInv, RowsOK
  <2>3. q.pc \notin Hooked /\ req[h].seen \in Order
    BY <2>1, <2>2 DEF Hooked
  <2>4. req[h].op = "pay" /\ req[h].seen.freight # Unquoted
    BY <1>1, <1>2 DEF CreateAtPolar, PayInv, AskedInv, Asking
  <2>5. PICK new : new = [amount |-> Total(req[h].seen), state |-> "live"]
    OBVIOUS
  <2>6. new \in AtPolar /\ new.state = "live"
    BY <2>3, <2>4, <2>5, TotalWithFreight DEF AtPolar
  <2>7. polar \in Seq(AtPolar) /\ polar' = Append(polar, new)
    BY <1>2, <2>5 DEF CreateAtPolar, PayInv, RowsOK
  <2>8. \A i \in DOMAIN polar' :
           polar'[i].state = "live" \/ (i \in DOMAIN polar /\ polar'[i] = polar[i])
    BY <2>6, <2>7, AppendTo
  <2>9. req' = [req EXCEPT ![h] = q]
    BY <1>2, <2>1 DEF CreateAtPolar, PayInv, RowsOK
  <2> QED
    BY <1>1, <2>3, <2>8, <2>9, AskingKeepsMoney
<1>3. CASE ~CreateAtPolar(h)
  <2>1. UNCHANGED polar
    BY <1>3 DEF RequestStep, Check, SaveCheckout, SaveQuote, SaveRate, SaveStaff, SaveOrder, outside
  <2>2. CASE Answer(h)
    <3>1. req' = [req EXCEPT ![h] = NoReq] /\ NoReq.pc \notin Hooked
      BY <2>2 DEF Answer, NoReq, Hooked
    <3> QED
      BY <1>1, <2>1, <3>1, AskingKeepsMoney
  <2>3. CASE ~Answer(h)
    <3>1. PICK pc \in {"creating", "saving"} : req' = [req EXCEPT ![h].pc = pc]
      BY <1>3, <2>3 DEF RequestStep, Check, SaveCheckout, SaveQuote, SaveRate, SaveStaff, Saving
    <3>2. PICK q : q = [req[h] EXCEPT !.pc = pc]
      OBVIOUS
    <3>3. req[h] \in [pc : Asking, op : {"pay", "quote", "rate", "staff"}, seen : Order,
                      price : Asked \cup {Unquoted}, id : Ids \cup {0}]
      BY <1>1, RequestIs DEF PayInv, RowsOK
    <3>4. q.pc \notin Hooked
      BY <3>1, <3>2, <3>3 DEF Hooked
    <3>5. req' = [req EXCEPT ![h] = q]
      BY <3>1, <3>2 DEF PayInv, RowsOK
    <3> QED
      BY <1>1, <2>1, <3>4, <3>5, AskingKeepsMoney
  <2> QED
    BY <2>2, <2>3
<1> QED
  BY <1>2, <1>3

(* A checkout is paid once Polar says so, and refunded only after that.    *)
LEMMA PolarKeepsMoney ==
    ASSUME PayInv, MoneyInv, NEW i \in DOMAIN polar,
           CustomerPays(i) \/ CheckoutExpires(i) \/ StaffRefunds(i) \/ CheckoutChanges(i)
    PROVE  MoneyInv'
<1>1. sent \subseteq sent' /\ UNCHANGED <<server, acked, req>>
  BY DEF CustomerPays, CheckoutExpires, StaffRefunds, CheckoutChanges, Tell
<1>2. AnsweredInv' /\ WrittenInv'
  BY <1>1 DEF MoneyInv, AnsweredInv, AtWork, WrittenInv, Unwritten, server
<1>3. polar \in Seq(AtPolar) /\ polar[i] \in AtPolar
  BY LenProperties, ElementOfSeq DEF PayInv, RowsOK
<1>4. ASSUME NEW j \in DOMAIN polar', Settled(j)' PROVE PaidEvent(j) \in sent'
  <2>1. CASE CustomerPays(i)
    <3>1. PaidEvent(i) \in sent'
      BY <2>1 DEF CustomerPays, Tell, PaidEvent
    <3>2. j \in DOMAIN polar /\ (j # i => polar'[j] = polar[j])
      BY <2>1, <1>3 DEF CustomerPays, Becomes
    <3>3. j # i => Settled(j)
      BY <1>4, <3>2 DEF Settled
    <3> QED
      BY <1>1, <3>1, <3>2, <3>3 DEF MoneyInv, ToldInv
  <2>2. CASE CheckoutExpires(i)
    <3>1. j \in DOMAIN polar /\ (j # i => polar'[j] = polar[j]) /\ (j = i => polar'[j].state = "expired")
      BY <2>2, <1>3 DEF CheckoutExpires, Becomes, AtPolar
    <3>2. Settled(j)
      BY <1>4, <3>1 DEF Settled
    <3> QED
      BY <1>1, <3>1, <3>2 DEF MoneyInv, ToldInv
  <2>3. CASE StaffRefunds(i)
    <3>1. j \in DOMAIN polar /\ (j # i => polar'[j] = polar[j]) /\ polar[i].state = "paid"
      BY <2>3, <1>3 DEF StaffRefunds, Becomes
    <3>2. Settled(j)
      BY <1>4, <3>1 DEF Settled
    <3> QED
      BY <1>1, <3>1, <3>2 DEF MoneyInv, ToldInv
  <2>4. CASE CheckoutChanges(i)
    <3>1. polar' = polar
      BY <2>4 DEF CheckoutChanges
    <3> QED
      BY <1>1, <1>4, <3>1 DEF MoneyInv, ToldInv, Settled
  <2> QED
    BY <2>1, <2>2, <2>3, <2>4
<1>5. ToldInv'
  BY <1>4 DEF ToldInv
<1> QED
  BY <1>2, <1>5 DEF MoneyInv

LEMMA DeliverKeepsMoney ==
    ASSUME PayInv, MoneyInv, NEW h \in Handlers, NEW e \in Events, Deliver(h, e) PROVE MoneyInv'
<1>1. req[h] = NoReq /\ UNCHANGED <<payments, processed, polar, sent>>
  BY DEF Deliver
<1>2. ToldInv'
  BY <1>1 DEF MoneyInv, ToldInv, Settled
<1>3. CASE e \in inbox
  <2>1. acked' = acked \cup {e} /\ UNCHANGED <<inbox, req>>
    BY <1>3 DEF Deliver
  <2>2. AnsweredInv' /\ WrittenInv'
    BY <1>1, <1>3, <2>1 DEF MoneyInv, AnsweredInv, AtWork, WrittenInv, Unwritten
  <2> QED
    BY <1>2, <2>2 DEF MoneyInv
<1>4. CASE e \notin inbox
  <2>1. PICK q : q = [pc |-> "received", event |-> e]
    OBVIOUS
  <2>2. inbox' = inbox \cup {e} /\ req' = [req EXCEPT ![h] = q] /\ acked' = acked
    BY <1>4, <2>1 DEF Deliver
  <2>3. q.pc = "received" /\ q.event = e /\ req[h].pc = "idle" /\ req \in [Handlers -> Request]
    BY <1>1, <2>1 DEF PayInv, RowsOK, NoReq
  <2>4. req'[h] = q /\ \A g \in Handlers \ {h} : req'[g] = req[g]
    BY <2>2, <2>3
  <2>5. AnsweredInv'
    <3>1. AtWork(e)'
      BY <2>3, <2>4 DEF AtWork, Hooked
    <3>2. \A f \in inbox : AtWork(f) => AtWork(f)'
      BY <2>3, <2>4 DEF AtWork, Hooked
    <3> QED
      BY <1>1, <2>2, <3>1, <3>2 DEF MoneyInv, AnsweredInv
  <2>6. \A i \in Ids : Unwritten(i) => Unwritten(i)'
    <3> SUFFICES ASSUME NEW i \in Ids, Unwritten(i) PROVE Unwritten(i)'
      OBVIOUS
    <3>1. CASE PaidEvent(i) = e
      BY <2>3, <2>4, <3>1 DEF Unwritten
    <3>2. CASE PaidEvent(i) # e
      BY <2>2, <2>3, <2>4, <3>2 DEF Unwritten
    <3> QED
      BY <3>1, <3>2
  <2>7. WrittenInv'
    BY <1>1, <2>3, <2>4, <2>6 DEF MoneyInv, WrittenInv
  <2> QED
    BY <1>2, <2>5, <2>7 DEF MoneyInv
<1> QED
  BY <1>3, <1>4

(* The delivery that loads the order is the one that has the event, and no *)
(* payment is on record for it yet.                                        *)
LEMMA LoadKeepsMoney ==
    ASSUME PayInv, MoneyInv, NEW h \in Handlers, LoadOrder(h) PROVE MoneyInv'
<1>1. PICK e : e = req[h].event
  OBVIOUS
<1>2. PICK q : q = [pc |-> "loaded", event |-> e, seen |-> order, fresh |-> payments[e.id] = 0]
  OBVIOUS
<1>3. /\ req[h].pc = "received" /\ req' = [req EXCEPT ![h] = q]
      /\ UNCHANGED <<server, outside, started>>
  BY <1>1, <1>2 DEF LoadOrder
<1>4. req \in [Handlers -> Request] /\ e \in Events
  BY <1>1, <1>3, RequestIs DEF PayInv, RowsOK
<1>5. q.pc = "loaded" /\ q.event = e /\ (payments[e.id] = 0 => q.fresh)
  BY <1>2
<1>6. e.type = "order.paid" => q.fresh
  <2> SUFFICES ASSUME e.type = "order.paid" PROVE payments[e.id] = 0
    BY <1>5
  <2>1. e.id \in Ids /\ e = PaidEvent(e.id)
    BY <1>4 DEF Events, PaidEvent
  <2>2. Unwritten(e.id)
    BY <1>1, <1>3, <2>1 DEF Unwritten
  <2> QED
    BY <2>1, <2>2 DEF PayInv, PaymentInv
<1>7. AnsweredInv'
  BY <1>1, <1>3, <1>4, <1>5, AtWorkStays DEF MoneyInv, server, outside, Hooked
<1>8. WrittenInv'
  BY <1>1, <1>3, <1>4, <1>5, <1>6, WrittenStays DEF MoneyInv, server
<1>9. ToldInv'
  BY <1>3 DEF MoneyInv, ToldInv, Settled, outside
<1> QED
  BY <1>7, <1>8, <1>9 DEF MoneyInv

LEMMA HookPaidKeepsMoney ==
    ASSUME PayInv, MoneyInv, NEW h \in Handlers, HookPaid(h) PROVE MoneyInv'
<1>1. PICK e : e = req[h].event
  OBVIOUS
<1>2. PICK q : q = [pc |-> "handled", event |-> e]
  OBVIOUS
<1>3. /\ req[h].pc = "loaded" /\ e.type = "order.paid" /\ req' = [req EXCEPT ![h] = q]
      /\ payments' = [payments EXCEPT ![e.id] = IF req[h].fresh THEN @ + 1 ELSE @]
      /\ UNCHANGED <<inbox, processed, outside>>
  BY <1>1, <1>2 DEF HookPaid, Handled
<1>4. req \in [Handlers -> Request] /\ e \in Events
  BY <1>1, <1>3, RequestIs DEF PayInv, RowsOK
<1>5. q.pc = "handled" /\ q.event = e
  BY <1>2
<1>6. e.id \in Ids /\ e = PaidEvent(e.id)
  BY <1>3, <1>4 DEF Events, PaidEvent
<1>7. req[h].fresh /\ payments[e.id] = 0 /\ payments \in [Ids -> Nat]
  <2>1. Unwritten(e.id)
    BY <1>1, <1>3, <1>6 DEF Unwritten
  <2> QED
    BY <1>1, <1>3, <1>6, <2>1 DEF MoneyInv, WrittenInv, PayInv, PaymentInv, RowsOK
<1>8. payments'[e.id] = 1 /\ \A i \in Ids \ {e.id} : payments'[i] = payments[i]
  BY <1>3, <1>6, <1>7
<1>9. req'[h] = q /\ \A g \in Handlers \ {h} : req'[g] = req[g]
  BY <1>3, <1>4
<1>10. AnsweredInv'
  BY <1>1, <1>3, <1>4, <1>5, AtWorkStays DEF MoneyInv, outside, Hooked
<1>11. ASSUME NEW i \in Ids, ~Unwritten(i)' PROVE payments'[i] = 1
  <2>1. CASE i = e.id
    BY <1>8, <2>1
  <2>2. CASE i # e.id
    <3>1. PaidEvent(i) # e
      BY <1>6, <2>2 DEF PaidEvent
    <3>2. ~Unwritten(i)
      BY <1>1, <1>3, <1>9, <1>11, <3>1 DEF Unwritten
    <3> QED
      BY <1>8, <2>2, <3>2 DEF MoneyInv, WrittenInv
  <2> QED
    BY <2>1, <2>2
<1>12. WrittenInv'
  BY <1>5, <1>9, <1>11 DEF MoneyInv, WrittenInv
<1>13. ToldInv'
  BY <1>3 DEF MoneyInv, ToldInv, Settled, outside
<1> QED
  BY <1>10, <1>12, <1>13 DEF MoneyInv

LEMMA HookKeepsMoney ==
    ASSUME PayInv, MoneyInv, NEW h \in Handlers, HookRefunded(h) \/ HookCheckout(h) PROVE MoneyInv'
<1>1. PICK e : e = req[h].event
  OBVIOUS
<1>2. PICK q : q = [pc |-> "handled", event |-> e]
  OBVIOUS
<1>3. /\ req[h].pc \in {"received", "loaded"} /\ e.type # "order.paid"
      /\ req' = [req EXCEPT ![h] = q] /\ UNCHANGED <<payments, inbox, processed, outside>>
  BY <1>1, <1>2 DEF HookRefunded, HookCheckout, Handled
<1>4. req \in [Handlers -> Request] /\ q.pc = "handled" /\ q.event = e
  BY <1>2 DEF PayInv, RowsOK
<1>5. AnsweredInv'
  BY <1>1, <1>3, <1>4, AtWorkStays DEF MoneyInv, outside, Hooked
<1>6. WrittenInv'
  BY <1>1, <1>3, <1>4, WrittenStays DEF MoneyInv
<1>7. ToldInv'
  BY <1>3 DEF MoneyInv, ToldInv, Settled, outside
<1> QED
  BY <1>5, <1>6, <1>7 DEF MoneyInv

LEMMA DoneKeepsMoney ==
    ASSUME PayInv, MoneyInv, NEW h \in Handlers, HookDone(h) PROVE MoneyInv'
<1>1. PICK e : e = req[h].event
  OBVIOUS
<1>2. /\ req[h].pc = "handled" /\ processed' = processed \cup {e} /\ acked' = acked \cup {e}
      /\ req' = [req EXCEPT ![h] = NoReq] /\ UNCHANGED <<payments, inbox, polar, sent>>
  BY <1>1 DEF HookDone, Answer
<1>3. req \in [Handlers -> Request] /\ NoReq.pc = "idle" /\ e \in inbox
  BY <1>1, <1>2 DEF PayInv, RowsOK, HookedInv, Hooked, NoReq
<1>4. req'[h] = NoReq /\ \A g \in Handlers \ {h} : req'[g] = req[g]
  BY <1>2, <1>3
<1>5. ASSUME NEW f \in inbox PROVE f \in processed' \/ AtWork(f)'
  <2>1. CASE f = e
    BY <1>2, <2>1
  <2>2. CASE f # e
    <3>1. AtWork(f) => AtWork(f)'
      BY <1>1, <1>4, <2>2 DEF AtWork
    <3> QED
      BY <1>2, <3>1 DEF MoneyInv, AnsweredInv
  <2> QED
    BY <2>1, <2>2
<1>6. AnsweredInv'
  BY <1>2, <1>3, <1>5 DEF MoneyInv, AnsweredInv
<1>7. WrittenInv'
  BY <1>2, <1>3, WrittenStays DEF MoneyInv
<1>8. ToldInv'
  BY <1>2 DEF MoneyInv, ToldInv, Settled
<1> QED
  BY <1>6, <1>7, <1>8 DEF MoneyInv

LEMMA MoneyStep ==
    ASSUME MayFail = FALSE
    PROVE  PayInv /\ MoneyInv /\ [PayNext]_payVars => MoneyInv'
<1> SUFFICES ASSUME PayInv, MoneyInv, [PayNext]_payVars PROVE MoneyInv'
  OBVIOUS
<1>1. ASSUME NEW h \in Handlers, BeginPay(h) \/ BeginQuote(h) \/ BeginStaff(h) PROVE MoneyInv'
  BY <1>1, BeginKeepsMoney
<1>2. ASSUME NEW h \in Handlers, NEW price \in Asked, BeginRate(h, price) PROVE MoneyInv'
  BY <1>2, BeginKeepsMoney
<1>3. ASSUME NEW h \in Handlers, RequestStep(h) PROVE MoneyInv'
  BY <1>3, RequestKeepsMoney
<1>4. ASSUME NEW h \in Handlers, HookStep(h) PROVE MoneyInv'
  BY <1>4, LoadKeepsMoney, HookPaidKeepsMoney, HookKeepsMoney, DoneKeepsMoney DEF HookStep
<1>5. ASSUME NEW h \in Handlers, Fail(h) PROVE MoneyInv'
  BY <1>5 DEF Fail
<1>6. ASSUME NEW h \in Handlers, NEW e \in Events, Deliver(h, e) PROVE MoneyInv'
  BY <1>6, DeliverKeepsMoney
<1>7. ASSUME NEW i \in DOMAIN polar,
             CustomerPays(i) \/ CheckoutExpires(i) \/ StaffRefunds(i) \/ CheckoutChanges(i)
      PROVE  MoneyInv'
  BY <1>7, PolarKeepsMoney
<1>8. CASE UNCHANGED payVars
  BY <1>8 DEF payVars, MoneyInv, AnsweredInv, AtWork, ToldInv, Settled, WrittenInv, Unwritten
<1> QED
  BY <1>1, <1>2, <1>3, <1>4, <1>5, <1>6, <1>7, <1>8 DEF PayNext

(* As long as no delivery fails midway, an event that handle answered with *)
(* 200 was processed or still is being: the events the code loses are lost *)
(* to failures alone.                                                      *)
THEOREM PaymentsAnswered ==
    ASSUME MayFail = FALSE
    PROVE  PaySpec => []AnsweredIsProcessed
<1>1. PayInv /\ MoneyInv => AnsweredIsProcessed
  BY DEF MoneyInv, AnsweredInv, AtWork, AnsweredIsProcessed, Hooked, NoReq
<1>2. PayInv /\ MoneyInv /\ [PayNext]_payVars => MoneyInv'
  BY MoneyStep
<1> QED
  BY <1>1, <1>2, MoneyInitially, PayInvariant, PTL DEF PaySpec

(* Money Polar has taken is on record, or it is going to be: its event is  *)
(* still to be delivered, or the one delivery that has it has not written  *)
(* the payment yet.                                                        *)
OnRecordOrDue ==
    \A i \in DOMAIN polar : Settled(i) =>
        \/ payments[i] = 1
        \/ PaidEvent(i) \in sent \ (inbox \cup acked)
        \/ \E h \in Handlers : req[h].pc \in {"received", "loaded"} /\ req[h].event = PaidEvent(i)

(* As long as no delivery fails midway, a payment is never forgotten,      *)
(* however the deliveries and the requests about the order interleave.     *)
THEOREM PaymentsNotForgotten ==
    ASSUME MayFail = FALSE
    PROVE  PaySpec => []OnRecordOrDue
<1>1. PayInv /\ MoneyInv => OnRecordOrDue
  <2> SUFFICES ASSUME PayInv, MoneyInv, NEW i \in DOMAIN polar, Settled(i)
               PROVE  \/ payments[i] = 1
                      \/ PaidEvent(i) \in sent \ (inbox \cup acked)
                      \/ \E h \in Handlers :
                            req[h].pc \in {"received", "loaded"} /\ req[h].event = PaidEvent(i)
    BY DEF OnRecordOrDue
  <2>1. i \in Ids
    BY LenProperties, PaymentsAssumption DEF PayInv, RowsOK, Ids
  <2>2. PaidEvent(i) \in sent /\ acked \subseteq inbox
    BY DEF MoneyInv, ToldInv, AnsweredInv
  <2>3. ~Unwritten(i) => payments[i] = 1
    BY <2>1 DEF MoneyInv, WrittenInv
  <2> QED
    BY <2>2, <2>3 DEF Unwritten
<1>2. PayInv /\ MoneyInv /\ [PayNext]_payVars => MoneyInv'
  BY MoneyStep
<1> QED
  BY <1>1, <1>2, MoneyInitially, PayInvariant, PTL DEF PaySpec

-------------------------------------------------------------------------------
(* One request or delivery at a time, and none that fails *)

Live(i) == i \in DOMAIN polar /\ polar[i].state = "live"

(* What Polar has said of a checkout still holds of it.                    *)
Heard ==
    /\ \A e \in sent : e.id \in DOMAIN polar
    /\ \A e \in sent : e.type \in {"order.paid", "order.refunded", "checkout.expired"} => ~Live(e.id)

(* Every checkout at Polar has its row or is about to get it, and the row  *)
(* of one that can be paid is open.                                        *)
RowsKnown(h) ==
    /\ \A k \in DOMAIN checkouts : checkouts[k].id \in DOMAIN polar
    /\ \A i \in DOMAIN polar :
          Rows(i) # {} \/ (req[h].pc = "saving" /\ req[h].op = "pay" /\ req[h].id = i)
    /\ \A k \in DOMAIN checkouts : Live(checkouts[k].id) => checkouts[k].status = "open"

(* The request at work has the order as it is, and has made sure that      *)
(* nothing can be paid before it opens a checkout or reprices.             *)
Alone(h) ==
    /\ req[h].pc \in Asking \cup {"loaded"} => req[h].seen = order
    /\ req[h].pc = "creating" => \A i \in DOMAIN polar : ~Live(i)
    /\ req[h].pc = "saving" /\ req[h].op \in {"quote", "rate"} => \A i \in DOMAIN polar : ~Live(i)

OneLive == \A i, j \in DOMAIN polar : Live(i) /\ Live(j) => i = j

SerialInv(h) ==
    PayInv /\ Heard /\ RowsKnown(h) /\ Alone(h) /\ OneLive /\ ChargeMatchesOrder

LEMMA SerialInitially == ASSUME NEW h \in Handlers, PayInit PROVE SerialInv(h)
<1>1. PayInv
  BY PayInitially
<1>2. DOMAIN polar = {} /\ DOMAIN checkouts = {} /\ sent = {} /\ req[h].pc = "idle"
  BY DEF PayInit, NoReq
<1> QED
  BY <1>1, <1>2 DEF SerialInv, Heard, RowsKnown, Alone, OneLive, ChargeMatchesOrder, Asking

(* A step that leaves Polar, the rows and the order alone.                 *)
LEMMA QuietKeeps ==
    ASSUME NEW h \in Handlers, SerialInv(h), PayInv', UNCHANGED <<polar, sent, checkouts, order>>,
           req'[h].pc # req[h].pc => req[h].pc # "saving",
           Alone(h)',
           req'[h].pc = req[h].pc => req'[h] = req[h]
    PROVE  SerialInv(h)'
<1>1. Heard' /\ OneLive' /\ ChargeMatchesOrder'
  BY DEF SerialInv, Heard, OneLive, ChargeMatchesOrder, Live, Total
<1>2. RowsKnown(h)'
  BY DEF SerialInv, RowsKnown, Rows, Live
<1> QED
  BY <1>1, <1>2 DEF SerialInv

LEMMA SerialBegin ==
    ASSUME NEW h \in Handlers, SerialInv(h),
           \/ BeginPay(h) \/ BeginQuote(h) \/ BeginStaff(h)
           \/ \E price \in Asked : BeginRate(h, price)
    PROVE  SerialInv(h)'
<1>1. PayInv'
  BY BeginKeeps DEF SerialInv
<1>2. PICK op, pc, price :
        /\ Begin(h, op, pc, price)
        /\ pc = "checking" \/ (pc = "saving" /\ op = "staff")
  BY DEF BeginPay, BeginQuote, BeginStaff, BeginRate
<1>3. /\ req[h].pc = "idle" /\ UNCHANGED <<server, outside>>
      /\ req'[h] = [pc |-> pc, op |-> op, seen |-> order, price |-> price, id |-> 0]
  BY <1>2 DEF Begin, NoReq, SerialInv, PayInv, RowsOK
<1>4. Alone(h)'
  BY <1>2, <1>3 DEF Alone, server
<1> QED
  BY <1>1, <1>2, <1>3, <1>4, QuietKeeps DEF server, outside

(* Nothing open among the rows means nothing that can be paid.             *)
LEMMA ClosedIsDead ==
    ASSUME NEW h \in Handlers, RowsKnown(h), req[h].pc # "saving", ~Open, NEW i \in DOMAIN polar
    PROVE  ~Live(i)
<1>1. PICK k \in DOMAIN checkouts : checkouts[k].id = i
  BY DEF RowsKnown, Rows
<1>2. checkouts[k].status # "open"
  BY <1>1 DEF Open, Terminal
<1> QED
  BY <1>1, <1>2 DEF RowsKnown

LEMMA SerialCheck ==
    ASSUME NEW h \in Handlers, SerialInv(h), Check(h) PROVE SerialInv(h)'
<1>1. PayInv' /\ req[h].pc = "checking" /\ UNCHANGED <<server, outside>> /\ req \in [Handlers -> Request]
  BY CheckKeeps DEF SerialInv, Check, PayInv, RowsOK
<1>2. CASE Open
  <2>1. req'[h] = NoReq
    BY <1>1, <1>2 DEF Check, Answer
  <2>2. Alone(h)'
    BY <2>1 DEF Alone, Asking, NoReq
  <2> QED
    BY <1>1, <2>1, <2>2, QuietKeeps DEF server, outside, NoReq
<1>3. CASE ~Open
  <2>1. PICK pc \in {"creating", "saving"} : req'[h] = [req[h] EXCEPT !.pc = pc]
    BY <1>1, <1>3 DEF Check
  <2>2. req[h] \in [pc : Asking, op : {"pay", "quote", "rate", "staff"}, seen : Order,
                    price : Asked \cup {Unquoted}, id : Ids \cup {0}]
    BY <1>1, RequestIs DEF Asking
  <2>3. req'[h].pc = pc /\ req'[h].op = req[h].op /\ req'[h].seen = req[h].seen
    BY <2>1, <2>2
  <2>4. \A i \in DOMAIN polar : ~Live(i)
    BY <1>1, <1>3, ClosedIsDead DEF SerialInv
  <2>5. req[h].seen = order
    BY <1>1 DEF SerialInv, Alone, Asking
  <2>6. Alone(h)'
    BY <1>1, <2>3, <2>4, <2>5 DEF Alone, server, outside, Live
  <2> QED
    BY <1>1, <2>3, <2>6, QuietKeeps DEF server, outside
<1> QED
  BY <1>2, <1>3

LEMMA SerialCreate ==
    ASSUME NEW h \in Handlers, SerialInv(h), CreateAtPolar(h) PROVE SerialInv(h)'
<1> DEFINE n == Len(polar) + 1
           new == [amount |-> Total(req[h].seen), state |-> "live"]
<1>1. /\ PayInv' /\ req[h].pc = "creating" /\ polar' = Append(polar, new)
      /\ UNCHANGED <<server, sent>> /\ req \in [Handlers -> Request]
  BY CreateKeeps DEF SerialInv, CreateAtPolar, PayInv, RowsOK
<1>2. req[h] \in [pc : Asking, op : {"pay", "quote", "rate", "staff"}, seen : Order,
                  price : Asked \cup {Unquoted}, id : Ids \cup {0}]
  BY <1>1, RequestIs DEF Asking
<1>3. /\ req[h].op = "pay" /\ req[h].seen = order /\ req[h].seen \in Order
      /\ req[h].seen.freight # Unquoted /\ \A i \in DOMAIN polar : ~Live(i)
  BY <1>1, <1>2 DEF SerialInv, PayInv, AskedInv, Alone, Asking
<1>4. new \in AtPolar /\ new.state = "live" /\ new.amount = Total(order)
  BY <1>3, TotalWithFreight DEF AtPolar
<1>5. polar \in Seq(AtPolar)
  BY DEF SerialInv, PayInv, RowsOK
<1>6. /\ req'[h].pc = "saving" /\ req'[h].op = "pay" /\ req'[h].seen = req[h].seen /\ req'[h].id = n
  BY <1>1, <1>2, <1>3 DEF CreateAtPolar
<1> HIDE DEF new
<1>7. /\ DOMAIN polar' = DOMAIN polar \cup {n} /\ n \notin DOMAIN polar
      /\ polar'[n] = new /\ \A i \in DOMAIN polar : polar'[i] = polar[i]
  BY <1>1, <1>4, <1>5, AppendTo
<1> HIDE DEF n
<1>8. (\A i \in DOMAIN polar : ~Live(i)') /\ order' = order /\ checkouts' = checkouts
  BY <1>1, <1>3, <1>7 DEF Live, server
<1>9. Heard'
  BY <1>1, <1>7, <1>8 DEF SerialInv, Heard
<1>10. RowsKnown(h)'
  <2>1. \A k \in DOMAIN checkouts : checkouts[k].id \in DOMAIN polar
    BY DEF SerialInv, RowsKnown
  <2>2. \A i \in DOMAIN polar : Rows(i) # {} /\ Rows(i)' = Rows(i)
    BY <1>1, <1>8 DEF SerialInv, RowsKnown, Rows
  <2> QED
    BY <1>6, <1>7, <1>8, <2>1, <2>2 DEF RowsKnown
<1>11. Alone(h)' /\ OneLive'
  BY <1>3, <1>6, <1>7, <1>8 DEF Alone, OneLive
<1>12. ChargeMatchesOrder'
  <2>1. Total(order)' = Total(order)
    BY <1>8 DEF Total
  <2> QED
    BY <1>4, <1>7, <1>8, <2>1 DEF ChargeMatchesOrder, Live
<1> QED
  BY <1>1, <1>9, <1>10, <1>11, <1>12 DEF SerialInv

LEMMA SerialSaveCheckout ==
    ASSUME NEW h \in Handlers, SerialInv(h), SaveCheckout(h) PROVE SerialInv(h)'
<1> DEFINE row == [id |-> req[h].id, status |-> "open"]
<1>1. /\ PayInv' /\ req[h].pc = "saving" /\ req[h].op = "pay" /\ req'[h] = NoReq
      /\ checkouts' = Append(checkouts, row)
      /\ UNCHANGED <<order, polar, sent>>
  BY SaveKeeps DEF SerialInv, SaveCheckout, Saving, Answer, outside, PayInv, RowsOK
<1>2. req[h].id \in DOMAIN polar /\ checkouts \in Seq(Checkout) /\ req[h].id \in Ids
  <2>1. req[h].id \in DOMAIN polar
    BY <1>1 DEF SerialInv, PayInv, AskedInv, Asking
  <2>2. DOMAIN polar = 1..Len(polar) /\ Len(polar) \in Nat /\ Len(polar) <= MaxCheckouts
    BY LenProperties DEF SerialInv, PayInv, RowsOK
  <2> QED
    BY <2>1, <2>2, PaymentsAssumption DEF SerialInv, PayInv, RowsOK, Ids
<1>3. row \in Checkout /\ row.id = req[h].id /\ row.status = "open"
  BY <1>2 DEF Checkout
<1> HIDE DEF row
<1>4. PICK n : /\ DOMAIN checkouts' = DOMAIN checkouts \cup {n} /\ checkouts'[n] = row
               /\ \A k \in DOMAIN checkouts : checkouts'[k] = checkouts[k]
  BY <1>1, <1>2, <1>3, AppendTo
<1>5. RowsKnown(h)'
  <2>1. \A i \in DOMAIN polar : Rows(i)' # {}
    BY <1>1, <1>3, <1>4 DEF SerialInv, RowsKnown, Rows
  <2>2. \A k \in DOMAIN checkouts' : checkouts'[k].id \in DOMAIN polar
                                      /\ (Live(checkouts'[k].id) => checkouts'[k].status = "open")
    BY <1>2, <1>3, <1>4 DEF SerialInv, RowsKnown
  <2> QED
    BY <1>1, <2>1, <2>2 DEF RowsKnown, Live
<1>6. Heard' /\ OneLive' /\ ChargeMatchesOrder'
  BY <1>1 DEF SerialInv, Heard, OneLive, ChargeMatchesOrder, Live, Total
<1>7. Alone(h)'
  BY <1>1 DEF Alone, NoReq, Asking
<1> QED
  BY <1>1, <1>5, <1>6, <1>7 DEF SerialInv

(* An order whose total changes can be paid nowhere.                       *)
LEMMA SerialSaveOrder ==
    ASSUME NEW h \in Handlers, SerialInv(h), SaveQuote(h) \/ SaveRate(h) \/ SaveStaff(h)
    PROVE  SerialInv(h)'
<1>1. /\ PayInv' /\ req[h].pc = "saving" /\ req[h].op # "pay" /\ req'[h] = NoReq
      /\ UNCHANGED <<checkouts, polar, sent>> /\ req[h].seen = order /\ order \in Order
  BY SaveKeeps DEF SerialInv, SaveQuote, SaveRate, SaveStaff, Saving, SaveOrder, Answer, outside,
       PayInv, RowsOK, Alone, Asking
<1>2. (\A i \in DOMAIN polar : ~Live(i)) \/ Total(order') = Total(order)
  <2>1. CASE SaveStaff(h)
    BY <1>1, <2>1 DEF SaveStaff, SaveOrder
  <2>2. CASE SaveQuote(h) \/ SaveRate(h)
    BY <1>1, <2>2 DEF SaveQuote, SaveRate, Saving, SerialInv, Alone
  <2> QED
    BY <1>1, <2>1, <2>2
<1>3. RowsKnown(h)' /\ Heard' /\ OneLive'
  BY <1>1 DEF SerialInv, RowsKnown, Heard, OneLive, Live, Rows
<1>4. ChargeMatchesOrder'
  BY <1>1, <1>2 DEF SerialInv, ChargeMatchesOrder, Live
<1>5. Alone(h)'
  BY <1>1 DEF Alone, NoReq, Asking
<1> QED
  BY <1>1, <1>3, <1>4, <1>5 DEF SerialInv

LEMMA SerialPolar ==
    ASSUME NEW h \in Handlers, SerialInv(h), NEW i \in DOMAIN polar,
           CustomerPays(i) \/ CheckoutExpires(i) \/ StaffRefunds(i) \/ CheckoutChanges(i)
    PROVE  SerialInv(h)'
<1>1. PayInv' /\ UNCHANGED <<server, req>>
  BY PolarKeeps DEF SerialInv, CustomerPays, CheckoutExpires, StaffRefunds, CheckoutChanges, Tell
<1>2. /\ DOMAIN polar' = DOMAIN polar
      /\ \A j \in DOMAIN polar : polar'[j].amount = polar[j].amount /\ (Live(j)' => Live(j))
      /\ \A e \in sent' : e \in sent \/ (e.id = i /\ (e.type = "checkout.updated" \/ ~Live(i)'))
  <2>1. \A j \in DOMAIN polar : polar[j] \in AtPolar
    BY LenProperties DEF SerialInv, PayInv, RowsOK
  <2>2. CASE CustomerPays(i) \/ CheckoutExpires(i) \/ StaffRefunds(i)
    <3>1. PICK to \in {"paid", "expired", "refunded"} : polar' = [polar EXCEPT ![i].state = to]
      BY <2>2 DEF CustomerPays, CheckoutExpires, StaffRefunds, Becomes
    <3>2. PICK type : sent' = sent \cup {[type |-> type, id |-> i]}
      BY <2>2 DEF CustomerPays, CheckoutExpires, StaffRefunds, Tell
    <3>3. /\ DOMAIN polar' = DOMAIN polar
          /\ polar'[i].state = to /\ polar'[i].amount = polar[i].amount
          /\ \A j \in DOMAIN polar : j # i => polar'[j] = polar[j]
      BY <2>1, <3>1 DEF AtPolar
    <3> QED
      BY <3>2, <3>3 DEF Live
  <2>3. CASE CheckoutChanges(i)
    BY <2>3 DEF CheckoutChanges, Tell, Live
  <2> QED
    BY <2>2, <2>3
<1>3. Heard'
  BY <1>2 DEF SerialInv, Heard
<1>4. RowsKnown(h)' /\ Alone(h)'
  BY <1>1, <1>2 DEF SerialInv, RowsKnown, Alone, Rows, server
<1>5. OneLive'
  BY <1>2 DEF SerialInv, OneLive
<1>6. ChargeMatchesOrder'
  <2>1. Total(order)' = Total(order)
    BY <1>1 DEF server, Total
  <2> QED
    BY <1>2, <2>1 DEF SerialInv, ChargeMatchesOrder, Live
<1> QED
  BY <1>1, <1>3, <1>4, <1>5, <1>6 DEF SerialInv

LEMMA SerialDeliver ==
    ASSUME NEW h \in Handlers, SerialInv(h), \/ \E e \in Events : Deliver(h, e)
                                             \/ LoadOrder(h) \/ HookDone(h)
    PROVE  SerialInv(h)'
<1>1. PayInv' /\ UNCHANGED <<polar, sent, checkouts, order>>
  BY DeliverKeeps, LoadKeeps, EndKeeps DEF SerialInv, Deliver, LoadOrder, HookDone, server, outside
<1>2. req \in [Handlers -> Request]
  BY DEF SerialInv, PayInv, RowsOK
<1>3. CASE req'[h] = req[h]
  <2>1. Alone(h)'
    BY <1>1, <1>3 DEF SerialInv, Alone, Live
  <2> QED
    BY <1>1, <1>3, <2>1, QuietKeeps
<1>4. CASE req'[h] # req[h]
  <2>1. /\ req[h].pc # "saving" /\ req'[h].pc # req[h].pc
        /\ req'[h].pc \notin Asking /\ (req'[h].pc = "loaded" => req'[h].seen = order)
    BY <1>2, <1>4 DEF Deliver, LoadOrder, HookDone, Answer, NoReq, Asking
  <2>2. Alone(h)'
    BY <1>1, <2>1 DEF Alone, Asking
  <2> QED
    BY <1>1, <2>1, <2>2, QuietKeeps
<1> QED
  BY <1>3, <1>4

(* Marking the rows of a checkout that cannot be paid, or as open.         *)
LEMMA MarkApart ==
    ASSUME NEW h \in Handlers, RowsKnown(h), checkouts \in Seq(Checkout),
           NEW i \in DOMAIN polar, NEW to \in {"open", "expired", "succeeded"},
           Mark(Rows(i), to), to = "open" \/ ~Live(i),
           UNCHANGED polar, req[h].pc # "saving"
    PROVE  RowsKnown(h)'
<1>1. \A k \in DOMAIN checkouts : checkouts[k] \in Checkout
  BY LenProperties
<1>2. /\ DOMAIN checkouts' = DOMAIN checkouts
      /\ \A k \in DOMAIN checkouts :
            /\ checkouts'[k].id = checkouts[k].id
            /\ checkouts[k].id # i => checkouts'[k] = checkouts[k]
            /\ checkouts[k].id = i => checkouts'[k].status = to
  BY <1>1 DEF Mark, Rows, Checkout
<1>3. \A j \in DOMAIN polar : Rows(j) # {} /\ Rows(j)' = Rows(j)
  BY <1>2 DEF RowsKnown, Rows
<1> QED
  BY <1>2, <1>3 DEF RowsKnown, Live

LEMMA SerialHook ==
    ASSUME NEW h \in Handlers, SerialInv(h), HookPaid(h) \/ HookRefunded(h) \/ HookCheckout(h)
    PROVE  SerialInv(h)'
<1> DEFINE e == req[h].event
<1>0. PayInv'
  BY HookPaidKeeps, HookKeeps DEF SerialInv
<1>1. /\ PayInv' /\ req[h].pc \in {"received", "loaded"} /\ UNCHANGED <<polar, sent>>
      /\ req \in [Handlers -> Request]
      /\ req'[h].pc = "handled"
  <2>1. Handled(h) /\ req[h].pc \in {"received", "loaded"} /\ UNCHANGED outside
    BY DEF HookPaid, HookRefunded, HookCheckout
  <2>2. req \in [Handlers -> Request]
    BY DEF SerialInv, PayInv, RowsOK
  <2> QED
    BY <1>0, <2>1, <2>2 DEF Handled, outside
<1>2. e \in sent /\ e \in Events /\ e.id \in DOMAIN polar
  BY <1>1, RequestIs DEF SerialInv, PayInv, HookedInv, RowsOK, Heard, Hooked
<1>3. Total(order') = Total(order)
  <2>1. CASE HookCheckout(h)
    BY <2>1 DEF HookCheckout
  <2>2. CASE HookPaid(h) \/ HookRefunded(h)
    <3>1. req[h].seen = order /\ order \in Order
      BY <2>2 DEF HookPaid, HookRefunded, SerialInv, Alone, PayInv, RowsOK
    <3>2. PICK pay \in {"paid", "refunded"} : order' = order \/ order' = [order EXCEPT !.pay = pay]
      BY <2>2, <3>1 DEF HookPaid, HookRefunded
    <3>3. order'.freight = order.freight
      BY <3>1, <3>2 DEF Order
    <3> QED
      BY <3>3 DEF Total
  <2> QED
    BY <2>1, <2>2
<1>4. RowsKnown(h)'
  <2>1. RowsKnown(h) /\ checkouts \in Seq(Checkout) /\ Heard
    BY DEF SerialInv, PayInv, RowsOK
  <2>2. CASE HookPaid(h)
    <3>1. Rows(e.id) # {}
      BY <1>1, <1>2, <2>1 DEF RowsKnown
    <3>2. Mark(Rows(e.id), "succeeded") /\ ~Live(e.id)
      BY <1>2, <2>1, <2>2, <3>1 DEF HookPaid, Heard
    <3> QED
      BY <1>1, <1>2, <2>1, <3>2, MarkApart
  <2>3. CASE HookCheckout(h)
    <3>1. PICK to \in {"open", "expired", "succeeded"} :
            Mark(Rows(e.id), to) /\ (to = "open" \/ ~Live(e.id))
      BY <1>2, <2>1, <2>3 DEF HookCheckout, Heard
    <3> QED
      BY <1>1, <1>2, <2>1, <3>1, MarkApart
  <2>4. CASE HookRefunded(h)
    <3>1. checkouts' = checkouts
      BY <2>4 DEF HookRefunded
    <3> QED
      BY <1>1, <2>1, <3>1 DEF RowsKnown, Rows, Live
  <2> QED
    BY <2>2, <2>3, <2>4
<1>5. Heard' /\ OneLive'
  BY <1>1 DEF SerialInv, Heard, OneLive, Live
<1>6. Alone(h)'
  BY <1>1 DEF Alone, Asking
<1>7. ChargeMatchesOrder'
  BY <1>1, <1>3 DEF SerialInv, ChargeMatchesOrder
<1> QED
  BY <1>1, <1>4, <1>5, <1>6, <1>7 DEF SerialInv

LEMMA SerialStep ==
    ASSUME NEW h, Handlers = {h}, MayFail = FALSE, SerialInv(h), [PayNext]_payVars
    PROVE  SerialInv(h)'
<1>1. h \in Handlers /\ \A g \in Handlers : g = h
  OBVIOUS
<1>2. CASE \/ BeginPay(h) \/ BeginQuote(h) \/ BeginStaff(h)
           \/ \E price \in Asked : BeginRate(h, price)
  BY <1>1, <1>2, SerialBegin
<1>3. CASE RequestStep(h)
  BY <1>1, <1>3, SerialCheck, SerialCreate, SerialSaveCheckout, SerialSaveOrder DEF RequestStep
<1>4. CASE HookStep(h) \/ \E e \in Events : Deliver(h, e)
  BY <1>1, <1>4, SerialDeliver, SerialHook DEF HookStep
<1>5. CASE \E i \in DOMAIN polar :
              CustomerPays(i) \/ CheckoutExpires(i) \/ StaffRefunds(i) \/ CheckoutChanges(i)
  BY <1>1, <1>5, SerialPolar
<1>6. CASE UNCHANGED payVars
  <2>1. PayInv'
    BY <1>6, PayStepKeeps DEF SerialInv
  <2>2. Alone(h)'
    BY <1>6 DEF payVars, SerialInv, Alone, Live
  <2> QED
    BY <1>1, <1>6, <2>1, <2>2, QuietKeeps DEF payVars
<1>7. ~Fail(h)
  BY DEF Fail
<1> QED
  BY <1>1, <1>2, <1>3, <1>4, <1>5, <1>6, <1>7 DEF PayNext

LEMMA SerialMeans ==
    ASSUME NEW h, SerialInv(h)
    PROVE  ChargeMatchesOrder /\ OneLiveCheckout
<1> DEFINE S == {i \in DOMAIN polar : polar[i].state = "live"}
<1>1. DOMAIN polar = 1..Len(polar) /\ Len(polar) \in Nat
  BY LenProperties DEF SerialInv, PayInv, RowsOK
<1>2. IsFiniteSet(S)
  <2>1. IsFiniteSet(1..Len(polar))
    BY <1>1, FS_Interval
  <2>2. S \subseteq 1..Len(polar)
    BY <1>1
  <2> QED
    BY <2>1, <2>2, FS_Subset
<1>3. \A i, j \in S : i = j
  BY DEF SerialInv, OneLive, Live
<1>4. Cardinality(S) <= 1
  BY <1>2, <1>3, AtMostOne
<1> QED
  BY <1>4 DEF SerialInv, OneLiveCheckout

(* When requests and deliveries come one after another and none fails, no  *)
(* customer can be charged an amount that matches nothing in the database: *)
(* what ShippingQuoteService checks before it changes a freight is then    *)
(* enough.                                                                 *)
THEOREM PaymentsSerial ==
    ASSUME NEW h, Handlers = {h}, MayFail = FALSE
    PROVE  PaySpec => []ChargeMatchesOrder
<1>1. PayInit => SerialInv(h)
  BY SerialInitially
<1>2. SerialInv(h) /\ [PayNext]_payVars => SerialInv(h)'
  BY SerialStep
<1>3. SerialInv(h) => ChargeMatchesOrder
  BY SerialMeans
<1> QED
  BY <1>1, <1>2, <1>3, PTL DEF PaySpec

(* And then the order can be paid through one checkout at a time: what     *)
(* PolarCheckoutService looks for before it opens one is enough.           *)
THEOREM PaymentsOneLive ==
    ASSUME NEW h, Handlers = {h}, MayFail = FALSE
    PROVE  PaySpec => []OneLiveCheckout
<1>1. PayInit => SerialInv(h)
  BY SerialInitially
<1>2. SerialInv(h) /\ [PayNext]_payVars => SerialInv(h)'
  BY SerialStep
<1>3. SerialInv(h) => OneLiveCheckout
  BY SerialMeans
<1> QED
  BY <1>1, <1>2, <1>3, PTL DEF PaySpec

================================================================================
