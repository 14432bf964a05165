------------------------------- MODULE Shipments -------------------------------
(***************************************************************************)
(* The shipments of one order: ShipmentService buys a label at Skydropx,   *)
(* cancels it and asks for its tracking; ShippingWebhookService applies    *)
(* what Skydropx reports.  No operation touches two orders, so one is      *)
(* enough.  Requests and deliveries run side by side and may die between   *)
(* any two of their awaits.                                                *)
(***************************************************************************)
EXTENDS Naturals, Sequences, FiniteSets

CONSTANTS
    Handlers,       \* requests and deliveries in progress at the same time
    Reported,       \* carrier statuses other than "cancelled"
    Unstated,       \* the status of a delivery that has none
    Envelope,       \* whether deliveries are JSON:API envelopes of the shipment
    MayFail,        \* whether a request may fail, or the process die, midway
    MaxLabels,      \* bounds of the model: labels bought at Skydropx,
    MaxReports,     \* events Skydropx reports,
    MaxDeliveries,  \* deliveries of one event,
    MaxRequests     \* and requests in a behaviour

Ids == 1..MaxLabels
Statuses == Reported \cup {"created", "cancelled"}

ASSUME ShipmentsAssumption ==
    /\ Unstated \notin Statuses /\ "cancelled" \notin Reported
    /\ Envelope \in BOOLEAN /\ MayFail \in BOOLEAN
    /\ MaxLabels \in Nat /\ MaxReports \in Nat /\ MaxDeliveries \in Nat /\ MaxRequests \in Nat

(* CANCELLABLE_STATUSES.                                                   *)
Cancellable == {"created", "pending", "label_generated", "ready"}

(* ORDER_STATUS_MAP: the carrier statuses that reach the order.            *)
Mapped == {"in_transit", "out_for_delivery", "delivered", "exception", "cancelled"}

Event == [label : Ids, status : Reported \cup {"cancelled", Unstated}]

\* mutant: a fingerprint of the delivery, which differs each time it is sent
KeyPerDelivery(e, n) == <<e.label, e.status, n>>

(* normalizeSkydropxEvent: the idempotency key is the type and the id of   *)
(* the resource.  A flat delivery has an id of its own; an envelope has    *)
(* that of the shipment, whatever its status.  (n, the delivery's number,  *)
(* plays no part in it.)                                                   *)
Key(e, n) == IF Envelope THEN <<e.label>> ELSE <<e.label, e.status>>

VARIABLES
    shipments,   \* shipping.shipments of the order, by created_at
    shipping,    \* orders.shipping_status
    trail,       \* shipment_tracking_events: the statuses on record per label
    inbox,       \* shipping.webhook_events: keys recorded
    processed,   \* those with processed_at set
    labels,      \* external: what each label is at Skydropx
    sent,        \* external: events Skydropx has reported
    acked,       \* external: events answered with 200
    deliveries,  \* how often each event was delivered
    req,         \* what each handler is doing
    started,     \* requests begun so far
    applied,     \* ghost: how often each event was applied
    blind        \* ghost: creations overlapped, or one died with a label bought

shipVars == <<shipments, shipping, trail, inbox, processed, labels, sent, acked,
              deliveries, req, started, applied, blind>>
server == <<shipments, shipping, trail, inbox, processed>>
outside == <<labels, sent, acked, deliveries>>
ghosts == <<applied, blind>>

Shipment == [label : Ids, status : Statuses, tracked : BOOLEAN]
Rows == DOMAIN shipments

NoReq == [pc |-> "idle"]

ShipInit ==
    /\ shipments = <<>> /\ shipping = "none"
    /\ trail = [i \in Ids |-> {}]
    /\ inbox = {} /\ processed = {}
    /\ labels = [i \in Ids |-> "none"]
    /\ sent = {} /\ acked = {}
    /\ deliveries = [e \in Event |-> 0]
    /\ req = [h \in Handlers |-> NoReq]
    /\ started = 0
    /\ applied = [e \in Event |-> 0]
    /\ blind = FALSE

Goto(h, r) == req' = [req EXCEPT ![h] = r]

-------------------------------------------------------------------------------
(* createForOrder *)

Creating(h) == req[h].pc \in {"buying", "bought"}

Take(h, r) ==
    /\ req[h] = NoReq
    /\ started < MaxRequests
    /\ started' = started + 1
    /\ Goto(h, r)

\* mutant: the order's column is tested, which is saved after the shipment
NoActiveShipmentByOrder == shipping \in {"none", "cancelled"}

(* The newest shipment of the order, if there is one, is cancelled.        *)
NoActiveShipment ==
    \A k \in Rows : k = Len(shipments) => shipments[k].status = "cancelled"

BeginCreate(h) ==
    /\ NoActiveShipment
    /\ Take(h, [pc |-> "buying"])
    /\ blind' = (blind \/ \E g \in Handlers : Creating(g))
    /\ UNCHANGED <<server, outside, applied>>

(* createShipment of the client: the label exists from here on.            *)
Buy(h) ==
    /\ req[h].pc = "buying"
    /\ \E i \in Ids, tracked \in BOOLEAN :
          /\ labels[i] = "none"
          /\ labels' = [labels EXCEPT ![i] = "live"]
          /\ Goto(h, [pc |-> "bought", label |-> i, tracked |-> tracked])
    /\ UNCHANGED <<server, sent, acked, deliveries, started, ghosts>>

SaveShipment(h) ==
    /\ req[h].pc = "bought"
    /\ shipments' = Append(shipments, [label |-> req[h].label, status |-> "created",
                                       tracked |-> req[h].tracked])
    /\ Goto(h, [pc |-> "ordering", status |-> "shipment_created"])
    /\ UNCHANGED <<shipping, trail, inbox, processed, outside, started, ghosts>>

(* The save of the order that ends createForOrder and cancel.              *)
SaveOrder(h) ==
    /\ req[h].pc = "ordering"
    /\ shipping' = req[h].status
    /\ Goto(h, NoReq)
    /\ UNCHANGED <<shipments, trail, inbox, processed, outside, started, ghosts>>

-------------------------------------------------------------------------------
(* cancel *)

BeginCancel(h, k) ==
    /\ shipments[k].status \in Cancellable
    /\ Take(h, [pc |-> "cancelling", row |-> k])
    /\ UNCHANGED <<server, outside, ghosts>>

(* cancelShipment of the client; a label already cancelled is refused.     *)
CancelAtSkydropx(h) ==
    /\ req[h].pc = "cancelling"
    /\ LET i == shipments[req[h].row].label
       IN /\ labels[i] = "live"
          /\ labels' = [labels EXCEPT ![i] = "cancelled"]
    /\ Goto(h, [req[h] EXCEPT !.pc = "cancelled"])
    /\ UNCHANGED <<server, sent, acked, deliveries, started, ghosts>>

SetStatus(k, s) == shipments' = [shipments EXCEPT ![k].status = s]

\* mutant: the row is saved before Skydropx is asked
SaveCancelledFirst(h) ==
    /\ req[h].pc \in {"cancelling", "cancelled"}
    /\ SetStatus(req[h].row, "cancelled")
    /\ Goto(h, [pc |-> "ordering", status |-> "cancelled"])
    /\ UNCHANGED <<shipping, trail, inbox, processed, outside, started, ghosts>>

SaveCancelled(h) ==
    /\ req[h].pc = "cancelled"
    /\ SetStatus(req[h].row, "cancelled")
    /\ Goto(h, [pc |-> "ordering", status |-> "cancelled"])
    /\ UNCHANGED <<shipping, trail, inbox, processed, outside, started, ghosts>>

-------------------------------------------------------------------------------
(* getTracking *)

(* What the carrier can say of a label: "cancelled" only of such a one.    *)
Sayable(i) ==
    CASE labels[i] = "none"      -> {}
      [] labels[i] = "live"      -> Reported
      [] labels[i] = "cancelled" -> Reported \cup {"cancelled"}

BeginTrack(h, k) ==
    /\ shipments[k].tracked
    /\ Take(h, [pc |-> "asking", row |-> k, status |-> shipments[k].status])
    /\ UNCHANGED <<server, outside, ghosts>>

(* The answer is compared with the row as it was loaded.                   *)
AskTracking(h) ==
    /\ req[h].pc = "asking"
    /\ \E s \in Sayable(shipments[req[h].row].label) :
          Goto(h, [req[h] EXCEPT !.status = s,
                                 !.pc = IF s = req[h].status THEN "adding" ELSE "updating"])
    /\ UNCHANGED <<server, outside, started, ghosts>>

(* The shipment is saved, the order is not.                                *)
SaveTracked(h) ==
    /\ req[h].pc = "updating"
    /\ SetStatus(req[h].row, req[h].status)
    /\ Goto(h, [req[h] EXCEPT !.pc = "adding"])
    /\ UNCHANGED <<shipping, trail, inbox, processed, outside, started, ghosts>>

Record(i, s) == trail' = [trail EXCEPT ![i] = @ \cup {s}]

AddTracked(h) ==
    /\ req[h].pc = "adding"
    /\ Record(shipments[req[h].row].label, req[h].status)
    /\ Goto(h, NoReq)
    /\ UNCHANGED <<shipments, shipping, inbox, processed, outside, started, ghosts>>

-------------------------------------------------------------------------------
(* The webhook *)

(* Skydropx reports a status, some time after it came about.               *)
Report(e) ==
    /\ e \notin sent /\ Cardinality(sent) < MaxReports
    /\ labels[e.label] # "none"
    /\ e.status \in Sayable(e.label) \cup {Unstated}
    /\ sent' = sent \cup {e}
    /\ UNCHANGED <<server, labels, acked, deliveries, req, started, ghosts>>

\* mutant: the event is looked up in the inbox and never put there
DeliverUnrecorded(h, e) ==
    /\ req[h] = NoReq
    /\ e \in sent /\ deliveries[e] < MaxDeliveries
    /\ deliveries' = [deliveries EXCEPT ![e] = @ + 1]
    /\ Key(e, deliveries[e]) \notin inbox
    /\ Goto(h, [pc |-> "received", event |-> e, key |-> Key(e, deliveries[e])])
    /\ UNCHANGED <<server, labels, sent, acked, started, ghosts>>

(* handle: insertIfNew, and the answer when the key is there already.      *)
Deliver(h, e) ==
    /\ req[h] = NoReq
    /\ e \in sent /\ deliveries[e] < MaxDeliveries
    /\ deliveries' = [deliveries EXCEPT ![e] = @ + 1]
    /\ LET key == Key(e, deliveries[e])
       IN \/ /\ key \in inbox
             /\ acked' = acked \cup {e}
             /\ UNCHANGED <<inbox, req>>
          \/ /\ key \notin inbox
             /\ inbox' = inbox \cup {key}
             /\ Goto(h, [pc |-> "received", event |-> e, key |-> key])
             /\ UNCHANGED acked
    /\ UNCHANGED <<shipments, shipping, trail, processed, labels, sent, started, ghosts>>

(* findShipment; an event of no shipment is dropped.                       *)
FindShipment(h) ==
    /\ req[h].pc = "received"
    /\ LET e == req[h].event
       IN \/ /\ \A k \in Rows : shipments[k].label # e.label
             /\ Goto(h, [req[h] EXCEPT !.pc = "applied"])
          \/ \E k \in Rows :
                /\ shipments[k].label = e.label
                /\ Goto(h, [pc |-> IF e.status = Unstated THEN "recording" ELSE "found",
                            event |-> e, key |-> req[h].key, row |-> k])
    /\ UNCHANGED <<server, outside, started, ghosts>>

HookShipment(h) ==
    /\ req[h].pc = "found"
    /\ LET s == req[h].event.status
       IN /\ SetStatus(req[h].row, s)
          /\ Goto(h, [req[h] EXCEPT !.pc = IF s \in Mapped THEN "telling" ELSE "recording"])
    /\ UNCHANGED <<shipping, trail, inbox, processed, outside, started, ghosts>>

HookOrder(h) ==
    /\ req[h].pc = "telling"
    /\ shipping' = req[h].event.status
    /\ Goto(h, [req[h] EXCEPT !.pc = "recording"])
    /\ UNCHANGED <<shipments, trail, inbox, processed, outside, started, ghosts>>

HookRecord(h) ==
    /\ req[h].pc = "recording"
    /\ Record(req[h].event.label, req[h].event.status)
    /\ applied' = [applied EXCEPT ![req[h].event] = @ + 1]
    /\ Goto(h, [pc |-> "applied", event |-> req[h].event, key |-> req[h].key])
    /\ UNCHANGED <<shipments, shipping, inbox, processed, outside, started, blind>>

HookDone(h) ==
    /\ req[h].pc = "applied"
    /\ processed' = processed \cup {req[h].key}
    /\ acked' = acked \cup {req[h].event}
    /\ Goto(h, NoReq)
    /\ UNCHANGED <<shipments, shipping, trail, inbox, labels, sent, deliveries,
                   started, ghosts>>

(* A request or a delivery ends where it is: an error of the database, of  *)
(* Skydropx, a deadline that passes although the call was carried out, or  *)
(* the process dies.                                                       *)
Fail(h) ==
    /\ MayFail /\ req[h] # NoReq
    /\ blind' = (blind \/ req[h].pc = "bought")
    /\ Goto(h, NoReq)
    /\ UNCHANGED <<server, outside, started, applied>>

-------------------------------------------------------------------------------

ShipNext ==
    \/ \E h \in Handlers :
          \/ BeginCreate(h) \/ Buy(h) \/ SaveShipment(h) \/ SaveOrder(h)
          \/ \E k \in Rows : BeginCancel(h, k) \/ BeginTrack(h, k)
          \/ CancelAtSkydropx(h) \/ SaveCancelled(h)
          \/ AskTracking(h) \/ SaveTracked(h) \/ AddTracked(h)
          \/ \E e \in Event : Deliver(h, e)
          \/ FindShipment(h) \/ HookShipment(h) \/ HookOrder(h) \/ HookRecord(h)
          \/ HookDone(h) \/ Fail(h)
    \/ \E e \in Event : Report(e)

ShipSpec == ShipInit /\ [][ShipNext]_shipVars

-------------------------------------------------------------------------------

(* Type correctness of the rows, the inbox and what Skydropx knows.        *)
ShipTypeOK ==
    /\ shipments \in Seq(Shipment)
    /\ shipping \in Statuses \cup {"none", "shipment_created"}
    /\ trail \in [Ids -> SUBSET (Statuses \cup {Unstated})]
    /\ labels \in [Ids -> {"none", "live", "cancelled"}]
    /\ sent \in SUBSET Event /\ acked \subseteq sent
    /\ processed \subseteq inbox
    /\ deliveries \in [Event -> 0..MaxDeliveries]
    /\ applied \in [Event -> Nat]
    /\ started \in 0..MaxRequests
    /\ blind \in BOOLEAN

(* A shipment is marked cancelled only when its label is cancelled at      *)
(* Skydropx, whoever marks it and wherever a request dies: a label that is *)
(* still charged for is never taken for cancelled.                         *)
CancelledIsReleased ==
    \A k \in Rows : shipments[k].status = "cancelled" => labels[shipments[k].label] = "cancelled"

(* An order has two live labels only when two creations overlapped or one  *)
(* died between the purchase and the save; no order of cancellations,      *)
(* polls and late reports does it.                                         *)
OneLiveLabel ==
    ~blind => \A i, j \in Ids : labels[i] = "live" /\ labels[j] = "live" => i = j

(* However often and however concurrently Skydropx delivers an event, it   *)
(* is applied once at most.                                                *)
AppliedOnce == \A e \in Event : applied[e] <= 1

(* An event answered with 200 has been applied, or is at work, or came     *)
(* before the shipment was saved: "Si llega `status`, se actualiza         *)
(* `shipping.shipments.status`".  With envelopes the code breaks it: every *)
(* status of a shipment after the first has the key of the first.          *)
AnsweredIsApplied ==
    \A e \in acked :
        \/ applied[e] > 0
        \/ \E h \in Handlers :
              req[h].pc \in {"received", "found", "telling", "recording"} /\ req[h].event = e
        \/ \A k \in Rows : shipments[k].label # e.label
===============================================================================
