---------------------------- MODULE ShipmentsProofs ----------------------------
(***************************************************************************)
(* Proofs about Shipments: what the rows say of the labels at Skydropx,    *)
(* for any number of requests, deliveries and failures.                    *)
(***************************************************************************)
EXTENDS Shipments, FiniteSetTheorems, SequenceTheorems, TLAPS

(* Appending adds one element at the end and keeps the others.             *)
LEMMA AppendTo ==
    ASSUME NEW S, NEW s \in Seq(S), NEW e \in S
    PROVE  /\ Append(s, e) \in Seq(S)
           /\ DOMAIN Append(s, e) = DOMAIN s \cup {Len(s) + 1}
           /\ Len(Append(s, e)) = Len(s) + 1
           /\ Len(s) \in Nat /\ DOMAIN s = 1..Len(s)
           /\ Append(s, e)[Len(s) + 1] = e
           /\ \A i \in DOMAIN s : Append(s, e)[i] = s[i]
  OBVIOUS

TheKey(e) == Key(e, 0)

Hooked == {"received", "found", "telling", "recording", "applied"}

(* What a handler carries, by what it is doing.                            *)
ShipRequest ==
    {NoReq}
        \cup [pc : {"buying"}]
        \cup [pc : {"bought"}, label : Ids, tracked : BOOLEAN]
        \cup [pc : {"ordering"}, status : {"shipment_created", "cancelled"}]
        \cup [pc : {"cancelling", "cancelled"}, row : Nat]
        \cup [pc : {"asking", "updating", "adding"}, row : Nat, status : Statuses]
        \cup [pc : {"received", "applied"}, event : Event, key : {TheKey(e) : e \in Event}]
        \cup [pc : {"found", "telling", "recording"}, event : Event,
              key : {TheKey(e) : e \in Event}, row : Nat]

TypesInv ==
    /\ shipments \in Seq(Shipment)
    /\ shipping \in Statuses \cup {"none", "shipment_created"}
    /\ trail \in [Ids -> SUBSET (Statuses \cup {Unstated})]
    /\ labels \in [Ids -> {"none", "live", "cancelled"}]
    /\ sent \in SUBSET Event /\ acked \subseteq sent
    /\ processed \subseteq inbox
    /\ deliveries \in [Event -> 0..MaxDeliveries]
    /\ applied \in [Event -> Nat]
    /\ started \in 0..MaxRequests
    /\ blind \in BOOLEAN
    /\ req \in [Handlers -> ShipRequest]

(* What the rows, the reports and the requests take for cancelled, is.     *)
LabelOf(k) == labels[shipments[k].label]

Honest(q) ==
    /\ q.pc \in {"cancelling", "cancelled", "asking", "updating", "adding", "found", "telling", "recording"}
         => q.row \in Rows
    /\ q.pc = "cancelled" => LabelOf(q.row) = "cancelled"
    /\ q.pc \in {"asking", "updating", "adding"} /\ q.status = "cancelled" => LabelOf(q.row) = "cancelled"
    /\ q.pc \in Hooked => q.event \in sent /\ q.key = TheKey(q.event)
    /\ q.pc \in {"found", "telling", "recording"} => shipments[q.row].label = q.event.label
    /\ q.pc \in {"found", "telling"} => q.event.status # Unstated

HonestInv ==
    /\ CancelledIsReleased
    /\ \A e \in sent : e.status = "cancelled" => labels[e.label] = "cancelled"
    /\ \A h \in Handlers : Honest(req[h])

(* A delivery at work has its key in the inbox, and to itself; until it is *)
(* through, its event has not been applied.                                *)
Unapplied(e) ==
    \/ TheKey(e) \notin inbox
    \/ \E h \in Handlers :
          req[h].pc \in {"received", "found", "telling", "recording"} /\ req[h].event = e

HookInv ==
    /\ \A h \in Handlers : req[h].pc \in Hooked => req[h].key \in inbox
    /\ \A g, h \in Handlers :
          req[g].pc \in Hooked /\ req[h].pc \in Hooked /\ req[g].key = req[h].key => g = h
    /\ \A e \in Event : applied[e] <= 1 /\ (Unapplied(e) => applied[e] = 0)

(* While creations have not overlapped, one label is live at most: that of *)
(* the creation at work, or else that of the newest shipment.              *)
LabelInv ==
    ~blind =>
        /\ \A g, h \in Handlers : Creating(g) /\ Creating(h) => g = h
        /\ \A h \in Handlers, i \in Ids :
              Creating(h) /\ labels[i] = "live" => req[h].pc = "bought" /\ req[h].label = i
        /\ \A i \in Ids : labels[i] = "live" /\ (\A h \in Handlers : ~Creating(h)) =>
              Len(shipments) \in Rows /\ shipments[Len(shipments)].label = i

ShipInv == TypesInv /\ HonestInv /\ HookInv /\ LabelInv

-------------------------------------------------------------------------------
(* Initially *)

LEMMA ShipInitially == ShipInit => ShipInv
<1> SUFFICES ASSUME ShipInit PROVE ShipInv
  OBVIOUS
<1> USE ShipmentsAssumption DEF ShipInit
<1>0. Rows = {} /\ \A h \in Handlers : req[h].pc = "idle" /\ req[h] = NoReq
  BY DEF Rows, NoReq
<1>1. TypesInv
  <2>1. shipments \in Seq(Shipment)
    BY EmptySeq
  <2>2. req \in [Handlers -> ShipRequest]
    BY DEF ShipRequest
  <2>3. deliveries \in [Event -> 0..MaxDeliveries] /\ started \in 0..MaxRequests
    OBVIOUS
  <2>4. trail \in [Ids -> SUBSET (Statuses \cup {Unstated})]
    OBVIOUS
  <2>5. applied \in [Event -> Nat] /\ labels \in [Ids -> {"none", "live", "cancelled"}]
    OBVIOUS
  <2>6. blind \in BOOLEAN /\ sent \in SUBSET Event /\ acked \subseteq sent /\ processed \subseteq inbox
    OBVIOUS
  <2>7. shipping \in Statuses \cup {"none", "shipment_created"}
    OBVIOUS
  <2> QED
    BY <2>1, <2>2, <2>3, <2>4, <2>5, <2>6, <2>7, Zenon DEF TypesInv
<1>2. HonestInv
  BY <1>0 DEF HonestInv, Honest, CancelledIsReleased, Hooked
<1>3. HookInv
  BY <1>0 DEF HookInv, Hooked
<1>4. LabelInv
  BY <1>0 DEF LabelInv, Creating
<1> QED
  BY <1>1, <1>2, <1>3, <1>4 DEF ShipInv

-------------------------------------------------------------------------------
(* What one handler does not disturb of the others *)

LEMMA ShipRequestIs ==
    ASSUME NEW q \in ShipRequest
    PROVE  /\ q.pc = "bought" => q.label \in Ids /\ q.tracked \in BOOLEAN
           /\ q.pc = "ordering" => q.status \in {"shipment_created", "cancelled"}
           /\ q.pc \in {"cancelling", "cancelled"} => q \in [pc : {"cancelling", "cancelled"}, row : Nat]
           /\ q.pc \in {"asking", "updating", "adding"} =>
                 q \in [pc : {"asking", "updating", "adding"}, row : Nat, status : Statuses]
           /\ q.pc \in {"received", "applied"} =>
                 q \in [pc : {"received", "applied"}, event : Event, key : {TheKey(e) : e \in Event}]
           /\ q.pc \in {"found", "telling", "recording"} =>
                 q \in [pc : {"found", "telling", "recording"}, event : Event,
                        key : {TheKey(e) : e \in Event}, row : Nat]
           /\ q = NoReq <=> q.pc = "idle"
  BY DEF ShipRequest, NoReq

(* The rows grow, labels do not change hands and stay cancelled, reports   *)
(* are not taken back: what was honest stays so.                           *)
LEMMA HonestApart ==
    ASSUME TypesInv, HonestInv, NEW h \in Handlers, NEW q, Goto(h, q),
           sent \subseteq sent', Rows \subseteq Rows',
           \A k \in Rows : shipments'[k].label = shipments[k].label,
           \A i \in Ids : labels[i] = "cancelled" => labels'[i] = "cancelled",
           Honest(q)', CancelledIsReleased',
           \A e \in sent' : e.status = "cancelled" => labels'[e.label] = "cancelled"
    PROVE  HonestInv'
<1>1. req'[h] = q /\ \A g \in Handlers \ {h} : req'[g] = req[g]
  BY DEF Goto, TypesInv
<1>2. \A k \in Rows : shipments[k].label \in Ids
  <2>1. \A k \in Rows : shipments[k] \in Shipment
    BY LenProperties DEF TypesInv, Rows
  <2> QED
    BY <2>1 DEF Shipment
<1>3. ASSUME NEW g \in Handlers \ {h} PROVE Honest(req[g])'
  <2>1. PICK p : p = req[g]
    OBVIOUS
  <2>2. Honest(p)
    BY <2>1 DEF HonestInv
  <2>3. Honest(p)'
    BY <1>2, <2>2 DEF Honest, LabelOf, Rows
  <2> QED
    BY <1>1, <2>1, <2>3
<1>4. Honest(req[h])'
  BY <1>1
<1> QED
  BY <1>3, <1>4 DEF HonestInv

(* A step of one handler keeps what is known of the deliveries when it     *)
(* starts none and applies none.                                           *)
LEMMA HooksApart ==
    ASSUME HookInv, req \in [Handlers -> ShipRequest], NEW h \in Handlers, NEW q, Goto(h, q),
           UNCHANGED <<inbox, applied>>,
           q.pc \in Hooked => req[h].pc \in Hooked /\ q.event = req[h].event /\ q.key = req[h].key,
           q.pc \in {"received", "found", "telling", "recording"} =>
              req[h].pc \in {"received", "found", "telling", "recording"}
    PROVE  HookInv'
<1>1. req'[h] = q /\ \A g \in Handlers \ {h} : req'[g] = req[g]
  BY DEF Goto
<1>2. \A e \in Event : Unapplied(e)' => Unapplied(e)
  BY <1>1 DEF Unapplied, Hooked
<1> QED
  BY <1>1, <1>2 DEF HookInv

(* A step of one handler keeps what is known of the labels when it starts  *)
(* no creation, makes no label live and leaves the newest shipment.        *)
LEMMA LabelsApart ==
    ASSUME LabelInv, req \in [Handlers -> ShipRequest], NEW h \in Handlers, NEW q, Goto(h, q),
           ~Creating(h), q.pc \notin {"buying", "bought"}, blind' = blind,
           \A i \in Ids : labels'[i] = "live" => labels[i] = "live",
           Len(shipments') = Len(shipments), DOMAIN shipments' = DOMAIN shipments,
           \A k \in Rows : shipments'[k].label = shipments[k].label
    PROVE  LabelInv'
<1>1. req'[h] = q /\ \A g \in Handlers \ {h} : req'[g] = req[g]
  BY DEF Goto
<1>2. \A g \in Handlers : Creating(g)' <=> Creating(g)
  BY <1>1 DEF Creating
<1>3. \A g \in Handlers : Creating(g) => req'[g] = req[g]
  BY <1>1
<1> QED
  BY <1>2, <1>3 DEF LabelInv, Rows

-------------------------------------------------------------------------------
(* Creation *)

LEMMA BeginCreateKeeps ==
    ASSUME ShipInv, NEW h \in Handlers, BeginCreate(h) PROVE ShipInv'
<1>1. PICK q : q = [pc |-> "buying"]
  OBVIOUS
<1>2. /\ req[h] = NoReq /\ Goto(h, q) /\ started < MaxRequests /\ started' = started + 1
      /\ blind' = (blind \/ \E g \in Handlers : Creating(g))
      /\ NoActiveShipment /\ UNCHANGED <<server, outside, applied>>
  BY <1>1 DEF BeginCreate, Take
<1>3. q \in ShipRequest /\ q.pc = "buying"
  BY <1>1 DEF ShipRequest
<1>4. TypesInv'
  <2>1. started' \in 0..MaxRequests
    BY <1>2, ShipmentsAssumption DEF ShipInv, TypesInv
  <2>2. blind' \in BOOLEAN
    BY <1>2
  <2>3. req' \in [Handlers -> ShipRequest]
    BY <1>2, <1>3 DEF ShipInv, TypesInv, Goto
  <2> QED
    BY <1>2, <2>1, <2>2, <2>3 DEF ShipInv, TypesInv, server, outside
<1>5. HonestInv'
  BY <1>2, <1>3, HonestApart DEF ShipInv, server, outside, Honest, Hooked, HonestInv, CancelledIsReleased, Rows
<1>6. HookInv'
  BY <1>2, <1>3, HooksApart DEF ShipInv, TypesInv, server, Hooked
<1>7. LabelInv'
  <2> SUFFICES ASSUME ~blind' PROVE LabelInv'
    BY DEF LabelInv
  <2>1. ~blind /\ \A g \in Handlers : ~Creating(g)
    BY <1>2
  <2>2. \A i \in Ids : labels[i] # "live"
    BY <1>2, <2>1 DEF ShipInv, LabelInv, NoActiveShipment, HonestInv, CancelledIsReleased
  <2>3. req'[h] = q /\ \A g \in Handlers \ {h} : req'[g] = req[g]
    BY <1>2 DEF ShipInv, TypesInv, Goto
  <2>4. labels' = labels
    BY <1>2 DEF outside
  <2>5. \A g \in Handlers \ {h} : ~Creating(g)'
    BY <2>1, <2>3 DEF Creating
  <2> QED
    BY <2>2, <2>3, <2>4, <2>5, <1>3 DEF LabelInv, Creating
<1> QED
  BY <1>4, <1>5, <1>6, <1>7 DEF ShipInv

LEMMA BuyKeeps ==
    ASSUME ShipInv, NEW h \in Handlers, Buy(h) PROVE ShipInv'
<1>1. PICK i \in Ids, tracked \in BOOLEAN :
        /\ labels[i] = "none" /\ labels' = [labels EXCEPT ![i] = "live"]
        /\ Goto(h, [pc |-> "bought", label |-> i, tracked |-> tracked])
  BY DEF Buy
<1>2. PICK q : q = [pc |-> "bought", label |-> i, tracked |-> tracked]
  OBVIOUS
<1>3. q \in ShipRequest /\ q.pc = "bought" /\ q.label = i
  BY <1>2 DEF ShipRequest
<1>4. req[h].pc = "buying" /\ Goto(h, q) /\ UNCHANGED <<server, sent, acked, deliveries, started, ghosts>>
  BY <1>1, <1>2 DEF Buy
<1>5. labels'[i] = "live" /\ \A j \in Ids \ {i} : labels'[j] = labels[j]
  BY <1>1 DEF ShipInv, TypesInv
<1>6. TypesInv'
  <2>1. labels' \in [Ids -> {"none", "live", "cancelled"}]
    BY <1>1 DEF ShipInv, TypesInv
  <2>2. req' \in [Handlers -> ShipRequest]
    BY <1>3, <1>4 DEF ShipInv, TypesInv, Goto
  <2> QED
    BY <1>4, <2>1, <2>2 DEF ShipInv, TypesInv, server, ghosts
<1>7. HonestInv'
  <2>1. \A j \in Ids : labels[j] = "cancelled" => labels'[j] = "cancelled"
    BY <1>1, <1>5
  <2>2. \A k \in Rows : shipments[k].label \in Ids
    <3>1. \A k \in Rows : shipments[k] \in Shipment
      BY LenProperties DEF ShipInv, TypesInv, Rows
    <3> QED
      BY <3>1 DEF Shipment
  <2>3. \A e \in sent : e.label \in Ids
    BY DEF ShipInv, TypesInv, Event
  <2>4. Honest(q)'
    BY <1>3 DEF Honest, Hooked
  <2>5. CancelledIsReleased'
    BY <1>4, <2>1, <2>2 DEF ShipInv, HonestInv, CancelledIsReleased, server, Rows
  <2>6. \A e \in sent' : e.status = "cancelled" => labels'[e.label] = "cancelled"
    BY <1>4, <2>1, <2>3 DEF ShipInv, HonestInv
  <2> QED
    BY <1>4, <2>1, <2>4, <2>5, <2>6, HonestApart DEF ShipInv, server, Rows
<1>8. HookInv'
  BY <1>3, <1>4, HooksApart DEF ShipInv, TypesInv, server, ghosts, Hooked
<1>9. LabelInv'
  <2> SUFFICES ASSUME ~blind' PROVE LabelInv'
    BY DEF LabelInv
  <2>1. ~blind /\ Creating(h)
    BY <1>4 DEF ghosts, Creating
  <2>2. req'[h] = q /\ \A g \in Handlers \ {h} : req'[g] = req[g]
    BY <1>4 DEF ShipInv, TypesInv, Goto
  <2>3. \A g \in Handlers \ {h} : ~Creating(g)'
    BY <2>1, <2>2 DEF ShipInv, LabelInv, Creating
  <2>4. \A j \in Ids \ {i} : labels'[j] # "live"
    BY <1>4, <1>5, <2>1 DEF ShipInv, LabelInv
  <2>5. Creating(h)'
    BY <1>3, <2>2 DEF Creating
  <2> QED
    BY <1>3, <2>2, <2>3, <2>4, <2>5 DEF LabelInv
<1> QED
  BY <1>6, <1>7, <1>8, <1>9 DEF ShipInv

LEMMA SaveShipmentKeeps ==
    ASSUME ShipInv, NEW h \in Handlers, SaveShipment(h) PROVE ShipInv'
<1>1. PICK q : q = [pc |-> "ordering", status |-> "shipment_created"]
  OBVIOUS
<1>2. PICK row : row = [label |-> req[h].label, status |-> "created", tracked |-> req[h].tracked]
  OBVIOUS
<1>3. /\ req[h].pc = "bought" /\ Goto(h, q) /\ shipments' = Append(shipments, row)
      /\ UNCHANGED <<shipping, trail, inbox, processed, outside, started, ghosts>>
  BY <1>1, <1>2 DEF SaveShipment
<1>4. q \in ShipRequest /\ q.pc = "ordering"
  BY <1>1 DEF ShipRequest
<1>5. row \in Shipment /\ row.label = req[h].label /\ row.status = "created"
  BY <1>2, <1>3, ShipRequestIs DEF ShipInv, TypesInv, Shipment, Statuses
<1>6. PICK n : /\ shipments' \in Seq(Shipment)
               /\ DOMAIN shipments' = DOMAIN shipments \cup {n} /\ n = Len(shipments')
               /\ shipments'[n] = row /\ \A k \in DOMAIN shipments : shipments'[k] = shipments[k]
  BY <1>3, <1>5, AppendTo DEF ShipInv, TypesInv
<1>7. TypesInv'
  <2>1. req' \in [Handlers -> ShipRequest]
    BY <1>3, <1>4 DEF ShipInv, TypesInv, Goto
  <2> QED
    BY <1>3, <1>6, <2>1 DEF ShipInv, TypesInv, outside, ghosts
<1>8. HonestInv'
  <2>1. CancelledIsReleased'
    BY <1>3, <1>5, <1>6 DEF ShipInv, HonestInv, CancelledIsReleased, Rows, outside
  <2>2. Honest(q)'
    BY <1>4 DEF Honest, Hooked
  <2> QED
    BY <1>3, <1>6, <2>1, <2>2, HonestApart DEF ShipInv, HonestInv, Rows, outside
<1>9. HookInv'
  BY <1>3, <1>4, HooksApart DEF ShipInv, TypesInv, ghosts, Hooked
<1>10. LabelInv'
  <2> SUFFICES ASSUME ~blind' PROVE LabelInv'
    BY DEF LabelInv
  <2>1. ~blind /\ Creating(h) /\ labels' = labels
    BY <1>3 DEF ghosts, Creating, outside
  <2>2. req'[h] = q /\ \A g \in Handlers \ {h} : req'[g] = req[g]
    BY <1>3 DEF ShipInv, TypesInv, Goto
  <2>3. \A g \in Handlers : ~Creating(g)'
    BY <1>4, <2>1, <2>2 DEF ShipInv, LabelInv, Creating
  <2>4. \A i \in Ids : labels[i] = "live" => i = req[h].label
    BY <2>1 DEF ShipInv, LabelInv
  <2> QED
    BY <1>5, <1>6, <2>1, <2>3, <2>4 DEF LabelInv, Rows
<1> QED
  BY <1>7, <1>8, <1>9, <1>10 DEF ShipInv

-------------------------------------------------------------------------------
(* Steps that change one row at most *)

(* A step that creates nothing, and leaves labels, reports and inbox.      *)
LEMMA StepApart ==
    ASSUME ShipInv, NEW h \in Handlers, NEW q \in ShipRequest, Goto(h, q),
           ~Creating(h), q.pc \notin {"buying", "bought"},
           UNCHANGED <<labels, sent, inbox, applied, blind>>,
           Len(shipments') = Len(shipments), DOMAIN shipments' = DOMAIN shipments,
           \A k \in Rows : shipments'[k].label = shipments[k].label,
           CancelledIsReleased', Honest(q)',
           q.pc \in Hooked => req[h].pc \in Hooked /\ q.event = req[h].event /\ q.key = req[h].key,
           q.pc \in {"received", "found", "telling", "recording"} =>
              req[h].pc \in {"received", "found", "telling", "recording"}
    PROVE  HonestInv' /\ HookInv' /\ LabelInv' /\ req' \in [Handlers -> ShipRequest]
<1>1. req' \in [Handlers -> ShipRequest]
  BY DEF ShipInv, TypesInv, Goto
<1>2. HonestInv'
  BY HonestApart DEF ShipInv, HonestInv, Rows
<1>3. HookInv'
  BY HooksApart DEF ShipInv, TypesInv
<1>4. LabelInv'
  BY LabelsApart DEF ShipInv, TypesInv
<1> QED
  BY <1>1, <1>2, <1>3, <1>4

LEMMA RowsTyped ==
    ASSUME TypesInv
    PROVE  \A k \in Rows : k \in Nat /\ shipments[k] \in Shipment /\ shipments[k].label \in Ids
                           /\ shipments[k].status \in Statuses
<1>1. \A k \in Rows : k \in Nat /\ shipments[k] \in Shipment
  BY LenProperties DEF TypesInv, Rows
<1> QED
  BY <1>1 DEF Shipment

(* The requests that only look, or save the order.                         *)
LEMMA LookKeeps ==
    ASSUME ShipInv, NEW h \in Handlers,
           \/ SaveOrder(h) \/ AskTracking(h) \/ AddTracked(h)
           \/ \E k \in Rows : BeginCancel(h, k) \/ BeginTrack(h, k)
    PROVE  ShipInv'
<1>1. /\ req[h] \in ShipRequest /\ NoReq \in ShipRequest
      /\ \A k \in Rows : k \in Nat /\ shipments[k] \in Shipment /\ shipments[k].label \in Ids
                         /\ shipments[k].status \in Statuses
  BY RowsTyped DEF ShipInv, TypesInv, ShipRequest
<1>2. PICK q \in ShipRequest :
        /\ Goto(h, q) /\ Honest(q)
        /\ q.pc \in {"idle", "cancelling", "asking", "updating", "adding"} /\ ~Creating(h)
  <2>1. CASE SaveOrder(h) \/ AddTracked(h)
    <3>1. Goto(h, NoReq) /\ NoReq.pc = "idle" /\ ~Creating(h)
      BY <2>1 DEF SaveOrder, AddTracked, NoReq, Creating
    <3>2. Honest(NoReq)
      BY <3>1 DEF Honest, Hooked
    <3> QED
      BY <1>1, <3>1, <3>2
  <2>2. ASSUME NEW k \in Rows, BeginCancel(h, k) PROVE \E q \in ShipRequest :
          /\ Goto(h, q) /\ Honest(q)
          /\ q.pc \in {"idle", "cancelling", "asking", "updating", "adding"} /\ ~Creating(h)
    <3>1. PICK q : q = [pc |-> "cancelling", row |-> k]
      OBVIOUS
    <3>2. Goto(h, q) /\ ~Creating(h)
      BY <2>2, <3>1 DEF BeginCancel, Take, NoReq, Creating
    <3>3. q \in ShipRequest /\ Honest(q)
      BY <1>1, <3>1 DEF ShipRequest, Honest, Hooked
    <3> QED
      BY <3>1, <3>2, <3>3
  <2>3. ASSUME NEW k \in Rows, BeginTrack(h, k) PROVE \E q \in ShipRequest :
          /\ Goto(h, q) /\ Honest(q)
          /\ q.pc \in {"idle", "cancelling", "asking", "updating", "adding"} /\ ~Creating(h)
    <3>1. PICK q : q = [pc |-> "asking", row |-> k, status |-> shipments[k].status]
      OBVIOUS
    <3>2. Goto(h, q) /\ ~Creating(h)
      BY <2>3, <3>1 DEF BeginTrack, Take, NoReq, Creating
    <3>3. q \in ShipRequest /\ q.row = k /\ q.status = shipments[k].status /\ q.pc = "asking"
      BY <1>1, <3>1 DEF ShipRequest
    <3>4. Honest(q)
      BY <3>3 DEF Honest, Hooked, LabelOf, ShipInv, HonestInv, CancelledIsReleased
    <3> QED
      BY <3>2, <3>3, <3>4
  <2>4. CASE AskTracking(h)
    <3>1. PICK s \in Sayable(shipments[req[h].row].label), pc \in {"adding", "updating"} :
            Goto(h, [req[h] EXCEPT !.status = s, !.pc = pc]) /\ req[h].pc = "asking"
      BY <2>4 DEF AskTracking
    <3>2. PICK q : q = [req[h] EXCEPT !.status = s, !.pc = pc]
      OBVIOUS
    <3>3. req[h] \in [pc : {"asking", "updating", "adding"}, row : Nat, status : Statuses]
          /\ req[h].row \in Rows
      BY <1>1, <3>1, ShipRequestIs DEF ShipInv, HonestInv, Honest
    <3>4. s \in Statuses /\ (s = "cancelled" => LabelOf(req[h].row) = "cancelled")
      <4>1. labels[shipments[req[h].row].label] \in {"none", "live", "cancelled"}
        BY <1>1, <3>3 DEF ShipInv, TypesInv
      <4> QED
        BY <4>1, ShipmentsAssumption DEF Sayable, LabelOf, Statuses
    <3>5. q \in ShipRequest /\ q.row = req[h].row /\ q.status = s /\ q.pc = pc
      BY <3>2, <3>3, <3>4 DEF ShipRequest
    <3>6. Honest(q)
      BY <3>3, <3>4, <3>5 DEF Honest, Hooked
    <3> QED
      BY <3>1, <3>2, <3>5, <3>6 DEF Creating
  <2> QED
    BY <2>1, <2>2, <2>3, <2>4
<1>3. UNCHANGED <<shipments, labels, sent, inbox, processed, acked, deliveries, applied, blind>>
  BY DEF SaveOrder, AskTracking, AddTracked, BeginCancel, BeginTrack, server, outside, ghosts
<1>4. HonestInv' /\ HookInv' /\ LabelInv' /\ req' \in [Handlers -> ShipRequest]
  <2>1. Honest(q)' /\ CancelledIsReleased'
    BY <1>2, <1>3 DEF ShipInv, HonestInv, Honest, LabelOf, CancelledIsReleased, Rows
  <2> QED
    BY <1>2, <1>3, <2>1, StepApart DEF Hooked
<1>5. TypesInv'
  <2>1. started' \in 0..MaxRequests
    <3>1. started' = started \/ (started < MaxRequests /\ started' = started + 1)
      BY DEF SaveOrder, AskTracking, AddTracked, BeginCancel, BeginTrack, Take
    <3> QED
      BY <3>1, ShipmentsAssumption DEF ShipInv, TypesInv
  <2>2. shipping' \in Statuses \cup {"none", "shipment_created"}
    <3>1. shipping' = shipping \/ (shipping' = req[h].status /\ req[h].pc = "ordering")
      BY DEF SaveOrder, AskTracking, AddTracked, BeginCancel, BeginTrack, server
    <3>2. req[h].pc = "ordering" => req[h].status \in {"shipment_created", "cancelled"}
      BY <1>1, ShipRequestIs
    <3> QED
      BY <3>1, <3>2 DEF ShipInv, TypesInv, Statuses
  <2>3. trail' \in [Ids -> SUBSET (Statuses \cup {Unstated})]
    <3>1. CASE AddTracked(h)
      <4>1. req[h].pc = "adding" /\ req[h].row \in Rows /\ req[h].status \in Statuses
        BY <1>1, <3>1, ShipRequestIs DEF AddTracked, ShipInv, HonestInv, Honest
      <4>2. PICK i \in Ids, s \in Statuses : trail' = [trail EXCEPT ![i] = @ \cup {s}]
        BY <1>1, <3>1, <4>1 DEF AddTracked, Record
      <4> QED
        BY <4>2 DEF ShipInv, TypesInv
    <3>2. CASE ~AddTracked(h)
      BY <3>2 DEF SaveOrder, AskTracking, BeginCancel, BeginTrack, server, ShipInv, TypesInv
    <3> QED
      BY <3>1, <3>2
  <2> QED
    BY <1>3, <1>4, <2>1, <2>2, <2>3 DEF ShipInv, TypesInv
<1> QED
  BY <1>4, <1>5 DEF ShipInv

(* The row of a shipment gets a status.                                    *)
LEMMA StatusSet ==
    ASSUME shipments \in Seq(Shipment), NEW k \in Rows, NEW s \in Statuses, SetStatus(k, s)
    PROVE  /\ shipments' \in Seq(Shipment) /\ Len(shipments') = Len(shipments)
           /\ DOMAIN shipments' = DOMAIN shipments
           /\ shipments'[k].status = s
           /\ \A j \in Rows : shipments'[j].label = shipments[j].label
           /\ \A j \in Rows : j # k => shipments'[j].status = shipments[j].status
<1>1. shipments[k] \in Shipment /\ k \in 1..Len(shipments) /\ DOMAIN shipments = 1..Len(shipments)
  BY LenProperties DEF Rows
<1>2. PICK row : row = [shipments[k] EXCEPT !.status = s]
  OBVIOUS
<1>3. row \in Shipment /\ row.status = s /\ row.label = shipments[k].label
  BY <1>1, <1>2 DEF Shipment
<1>4. shipments' = [shipments EXCEPT ![k] = row]
  BY <1>2 DEF SetStatus
<1>5. shipments' \in Seq(Shipment) /\ Len(shipments') = Len(shipments)
      /\ \A j \in 1..Len(shipments) : shipments'[j] = IF j = k THEN row ELSE shipments[j]
  BY <1>1, <1>3, <1>4, ExceptSeq
<1> QED
  BY <1>1, <1>3, <1>5, LenProperties DEF Rows

(* A row that is set to a status is set to what its label is.              *)
LEMMA SetKeeps ==
    ASSUME ShipInv, NEW h \in Handlers, NEW q \in ShipRequest, Goto(h, q), Honest(q),
           ~Creating(h), q.pc \notin {"buying", "bought"},
           NEW k \in Rows, NEW s \in Statuses, SetStatus(k, s), s = "cancelled" => LabelOf(k) = "cancelled",
           q.pc \in Hooked => req[h].pc \in Hooked /\ q.event = req[h].event /\ q.key = req[h].key,
           q.pc \in {"received", "found", "telling", "recording"} =>
              req[h].pc \in {"received", "found", "telling", "recording"},
           UNCHANGED <<shipping, trail, inbox, processed, outside, started, ghosts>>
    PROVE  ShipInv'
<1>1. /\ shipments' \in Seq(Shipment) /\ Len(shipments') = Len(shipments)
      /\ DOMAIN shipments' = DOMAIN shipments
      /\ shipments'[k].status = s
      /\ \A j \in Rows : shipments'[j].label = shipments[j].label
      /\ \A j \in Rows : j # k => shipments'[j].status = shipments[j].status
  BY StatusSet DEF ShipInv, TypesInv
<1>2. CancelledIsReleased'
  BY <1>1 DEF ShipInv, HonestInv, CancelledIsReleased, LabelOf, Rows, outside
<1>3. Honest(q)'
  BY <1>1 DEF Honest, LabelOf, Rows, outside
<1>4. HonestInv' /\ HookInv' /\ LabelInv' /\ req' \in [Handlers -> ShipRequest]
  BY <1>1, <1>2, <1>3, StepApart DEF outside, ghosts
<1>5. TypesInv'
  BY <1>1, <1>4 DEF ShipInv, TypesInv, outside, ghosts
<1> QED
  BY <1>4, <1>5 DEF ShipInv

LEMMA SaveStatusKeeps ==
    ASSUME ShipInv, NEW h \in Handlers, SaveCancelled(h) \/ SaveTracked(h) PROVE ShipInv'
<1>1. req[h] \in ShipRequest /\ Honest(req[h])
  BY DEF ShipInv, TypesInv, HonestInv
<1>2. CASE SaveCancelled(h)
  <2>1. PICK q : q = [pc |-> "ordering", status |-> "cancelled"]
    OBVIOUS
  <2>2. q \in ShipRequest /\ q.pc = "ordering"
    BY <2>1 DEF ShipRequest
  <2>3. Goto(h, q) /\ ~Creating(h) /\ req[h].row \in Rows /\ LabelOf(req[h].row) = "cancelled"
        /\ SetStatus(req[h].row, "cancelled")
    BY <1>1, <1>2, <2>1 DEF SaveCancelled, Creating, Honest
  <2>4. Honest(q)
    BY <2>2 DEF Honest, Hooked
  <2>5. "cancelled" \in Statuses /\ UNCHANGED <<shipping, trail, inbox, processed, outside, started, ghosts>>
    BY <1>2 DEF Statuses, SaveCancelled
  <2> QED
    BY <2>2, <2>3, <2>4, <2>5, SetKeeps DEF Hooked
<1>3. CASE SaveTracked(h)
  <2>1. PICK q : q = [req[h] EXCEPT !.pc = "adding"]
    OBVIOUS
  <2>2. req[h] \in [pc : {"asking", "updating", "adding"}, row : Nat, status : Statuses]
    BY <1>1, <1>3, ShipRequestIs DEF SaveTracked
  <2>3. q \in ShipRequest /\ q.pc = "adding" /\ q.row = req[h].row /\ q.status = req[h].status
    BY <2>1, <2>2 DEF ShipRequest
  <2>4. /\ Goto(h, q) /\ ~Creating(h) /\ req[h].row \in Rows /\ req[h].status \in Statuses
        /\ (req[h].status = "cancelled" => LabelOf(req[h].row) = "cancelled")
        /\ SetStatus(req[h].row, req[h].status)
    BY <1>1, <1>3, <2>1, <2>2 DEF SaveTracked, Creating, Honest
  <2>5. Honest(q)
    BY <2>3, <2>4 DEF Honest, Hooked
  <2>6. UNCHANGED <<shipping, trail, inbox, processed, outside, started, ghosts>>
    BY <1>3 DEF SaveTracked
  <2> QED
    BY <2>3, <2>4, <2>5, <2>6, SetKeeps DEF Hooked
<1> QED
  BY <1>2, <1>3

LEMMA CancelKeeps ==
    ASSUME ShipInv, NEW h \in Handlers, CancelAtSkydropx(h) PROVE ShipInv'
<1>1. req[h] \in ShipRequest /\ Honest(req[h]) /\ req[h].pc = "cancelling"
  BY DEF ShipInv, TypesInv, HonestInv, CancelAtSkydropx
<1>2. PICK k \in Rows : k = req[h].row /\ k \in Nat
  BY <1>1, LenProperties DEF Honest, ShipInv, TypesInv, Rows
<1>3. PICK i \in Ids : i = shipments[k].label
  BY RowsTyped DEF ShipInv
<1>4. labels[i] = "live" /\ labels' = [labels EXCEPT ![i] = "cancelled"]
  BY <1>2, <1>3 DEF CancelAtSkydropx
<1>5. labels'[i] = "cancelled" /\ \A j \in Ids \ {i} : labels'[j] = labels[j]
  BY <1>4 DEF ShipInv, TypesInv
<1>6. PICK q : q = [req[h] EXCEPT !.pc = "cancelled"]
  OBVIOUS
<1>7. q \in ShipRequest /\ q.pc = "cancelled" /\ q.row = k
  <2>1. req[h] \in [pc : {"cancelling", "cancelled"}, row : Nat]
    BY <1>1, ShipRequestIs
  <2> QED
    BY <1>2, <1>6, <2>1 DEF ShipRequest
<1>8. Goto(h, q) /\ UNCHANGED <<server, sent, acked, deliveries, started, ghosts>>
  BY <1>6 DEF CancelAtSkydropx
<1>9. TypesInv'
  BY <1>4, <1>7, <1>8 DEF ShipInv, TypesInv, server, ghosts, Goto
<1>10. HonestInv'
  <2>1. \A j \in Ids : labels[j] = "cancelled" => labels'[j] = "cancelled"
    BY <1>5
  <2>2. \A r \in Rows : shipments[r].label \in Ids
    BY RowsTyped DEF ShipInv
  <2>3. \A e \in sent : e.label \in Ids
    BY DEF ShipInv, TypesInv, Event
  <2>4. Honest(q)'
    BY <1>2, <1>3, <1>5, <1>7, <1>8 DEF Honest, Hooked, LabelOf, server, Rows
  <2>5. CancelledIsReleased'
    BY <1>8, <2>1, <2>2 DEF ShipInv, HonestInv, CancelledIsReleased, server, Rows
  <2>6. \A e \in sent' : e.status = "cancelled" => labels'[e.label] = "cancelled"
    BY <1>8, <2>1, <2>3 DEF ShipInv, HonestInv
  <2> QED
    BY <1>8, <2>1, <2>4, <2>5, <2>6, HonestApart DEF ShipInv, server, Rows
<1>11. HookInv'
  BY <1>7, <1>8, HooksApart DEF ShipInv, TypesInv, server, ghosts, Hooked
<1>12. LabelInv'
  <2>1. ~Creating(h)
    BY <1>1 DEF Creating
  <2>2. \A j \in Ids : labels'[j] = "live" => labels[j] = "live"
    BY <1>4, <1>5
  <2> QED
    BY <1>7, <1>8, <2>1, <2>2, LabelsApart DEF ShipInv, TypesInv, server, ghosts
<1> QED
  BY <1>9, <1>10, <1>11, <1>12 DEF ShipInv

-------------------------------------------------------------------------------
(* Reports and deliveries *)

LEMMA ReportKeeps ==
    ASSUME ShipInv, NEW e \in Event, Report(e) PROVE ShipInv'
<1>1. /\ sent' = sent \cup {e} /\ e.label \in Ids /\ e.status \in Sayable(e.label) \cup {Unstated}
      /\ UNCHANGED <<server, labels, acked, deliveries, req, started, ghosts>>
  BY DEF Report, Event
<1>2. TypesInv'
  BY <1>1 DEF ShipInv, TypesInv, server, ghosts
<1>3. e.status = "cancelled" => labels[e.label] = "cancelled"
  <2>1. labels[e.label] \in {"none", "live", "cancelled"}
    BY <1>1 DEF ShipInv, TypesInv
  <2> QED
    BY <1>1, <2>1, ShipmentsAssumption DEF Sayable, Statuses
<1>4. HonestInv'
  <2>1. CancelledIsReleased' /\ \A f \in sent' : f.status = "cancelled" => labels'[f.label] = "cancelled"
    BY <1>1, <1>3 DEF ShipInv, HonestInv, CancelledIsReleased, server, Rows
  <2>2. \A h \in Handlers : Honest(req[h])'
    BY <1>1 DEF ShipInv, HonestInv, Honest, LabelOf, server, Rows
  <2> QED
    BY <2>1, <2>2 DEF HonestInv
<1>5. HookInv' /\ LabelInv'
  BY <1>1 DEF ShipInv, HookInv, LabelInv, Unapplied, Creating, Rows, server, ghosts
<1> QED
  BY <1>2, <1>4, <1>5 DEF ShipInv

(* The key does not tell the deliveries of an event apart.                 *)
LEMMA OneKey == ASSUME NEW e, NEW n PROVE Key(e, n) = TheKey(e)
  BY DEF Key, TheKey

LEMMA DeliverKeeps ==
    ASSUME ShipInv, NEW h \in Handlers, NEW e \in Event, Deliver(h, e) PROVE ShipInv'
<1> DEFINE key == Key(e, deliveries[e])
<1>1. /\ req[h] = NoReq /\ e \in sent /\ deliveries[e] < MaxDeliveries
      /\ deliveries' = [deliveries EXCEPT ![e] = @ + 1]
      /\ UNCHANGED <<shipments, shipping, trail, processed, labels, sent, started, ghosts>>
  BY DEF Deliver
<1>2. deliveries' \in [Event -> 0..MaxDeliveries]
  BY <1>1, ShipmentsAssumption DEF ShipInv, TypesInv
<1>3. key = TheKey(e)
  BY OneKey
<1> HIDE DEF key
<1>4. CASE key \in inbox /\ acked' = acked \cup {e} /\ UNCHANGED <<inbox, req>>
  <2>1. TypesInv'
    BY <1>1, <1>2, <1>4 DEF ShipInv, TypesInv, ghosts
  <2>2. HonestInv'
    BY <1>1, <1>4 DEF ShipInv, HonestInv, CancelledIsReleased, Honest, LabelOf, Rows
  <2>3. HookInv' /\ LabelInv'
    BY <1>1, <1>4 DEF ShipInv, HookInv, LabelInv, Unapplied, Creating, Rows, ghosts
  <2> QED
    BY <2>1, <2>2, <2>3 DEF ShipInv
<1>5. CASE key \notin inbox /\ acked' = acked /\ inbox' = inbox \cup {key}
           /\ Goto(h, [pc |-> "received", event |-> e, key |-> key])
  <2>1. PICK q : q = [pc |-> "received", event |-> e, key |-> TheKey(e)]
    OBVIOUS
  <2>2. q \in ShipRequest /\ q.pc = "received" /\ q.event = e /\ q.key = TheKey(e)
    BY <2>1 DEF ShipRequest
  <2>3. Goto(h, q) /\ TheKey(e) \notin inbox /\ inbox' = inbox \cup {TheKey(e)} /\ acked' = acked
    BY <1>3, <1>5, <2>1
  <2>4. req'[h] = q /\ (\A g \in Handlers \ {h} : req'[g] = req[g]) /\ req[h].pc = "idle"
    BY <1>1, <2>3 DEF ShipInv, TypesInv, Goto, NoReq
  <2>5. TypesInv'
    BY <1>1, <1>2, <2>2, <2>3 DEF ShipInv, TypesInv, ghosts, Goto
  <2>6. HonestInv'
    <3>1. Honest(q)' /\ CancelledIsReleased'
      BY <1>1, <2>2 DEF Honest, Hooked, ShipInv, HonestInv, CancelledIsReleased, Rows
    <3> QED
      BY <1>1, <2>3, <3>1, HonestApart DEF ShipInv, HonestInv, Rows
  <2>7. HookInv'
    <3>1. \A g \in Handlers : req'[g].pc \in Hooked => req'[g].key \in inbox'
      BY <2>2, <2>3, <2>4 DEF ShipInv, HookInv
    <3>2. \A g, f \in Handlers :
             req'[g].pc \in Hooked /\ req'[f].pc \in Hooked /\ req'[g].key = req'[f].key => g = f
      BY <2>2, <2>3, <2>4 DEF ShipInv, HookInv
    <3>3. \A d \in Event : Unapplied(d)' => Unapplied(d)
      BY <2>2, <2>3, <2>4 DEF Unapplied
    <3> QED
      BY <1>1, <3>1, <3>2, <3>3 DEF ShipInv, HookInv, ghosts
  <2>8. LabelInv'
    <3>1. ~Creating(h)
      BY <2>4 DEF Creating
    <3> QED
      BY <1>1, <2>2, <2>3, <3>1, LabelsApart DEF ShipInv, TypesInv, ghosts
  <2> QED
    BY <2>5, <2>6, <2>7, <2>8 DEF ShipInv
<1> QED
  <2> USE DEF key
  <2> QED
    BY <1>4, <1>5 DEF Deliver

(* The steps of a delivery that leave the rows of the shipments.           *)
LEMMA FindKeeps ==
    ASSUME ShipInv, NEW h \in Handlers, FindShipment(h) PROVE ShipInv'
<1>1. req[h] \in ShipRequest /\ Honest(req[h]) /\ req[h].pc = "received"
      /\ UNCHANGED <<server, outside, started, ghosts>>
  BY DEF ShipInv, TypesInv, HonestInv, FindShipment
<1>2. req[h] \in [pc : {"received", "applied"}, event : Event, key : {TheKey(e) : e \in Event}]
  BY <1>1, ShipRequestIs
<1>3. PICK q \in ShipRequest :
        /\ Goto(h, q) /\ Honest(q) /\ q.pc \in {"applied", "recording", "found"}
        /\ q.event = req[h].event /\ q.key = req[h].key
  <2>1. CASE Goto(h, [req[h] EXCEPT !.pc = "applied"])
    <3>1. PICK q : q = [req[h] EXCEPT !.pc = "applied"]
      OBVIOUS
    <3>2. q \in ShipRequest /\ q.pc = "applied" /\ q.event = req[h].event /\ q.key = req[h].key
      BY <1>2, <3>1 DEF ShipRequest
    <3>3. Honest(q)
      BY <1>1, <3>2 DEF Honest, Hooked
    <3> QED
      BY <2>1, <3>1, <3>2, <3>3
  <2>2. ASSUME NEW k \in Rows, shipments[k].label = req[h].event.label,
               Goto(h, [pc |-> IF req[h].event.status = Unstated THEN "recording" ELSE "found",
                        event |-> req[h].event, key |-> req[h].key, row |-> k])
        PROVE  \E q \in ShipRequest :
                 /\ Goto(h, q) /\ Honest(q) /\ q.pc \in {"applied", "recording", "found"}
                 /\ q.event = req[h].event /\ q.key = req[h].key
    <3>1. PICK pc \in {"recording", "found"} :
            pc = IF req[h].event.status = Unstated THEN "recording" ELSE "found"
      OBVIOUS
    <3>2. PICK q : q = [pc |-> pc, event |-> req[h].event, key |-> req[h].key, row |-> k]
      OBVIOUS
    <3>3. k \in Nat
      BY RowsTyped DEF ShipInv
    <3>4. /\ q \in ShipRequest /\ q.pc = pc /\ q.event = req[h].event /\ q.key = req[h].key
          /\ q.row = k
      BY <1>2, <3>2, <3>3 DEF ShipRequest
    <3>5. Honest(q)
      BY <1>1, <2>2, <3>1, <3>4 DEF Honest, Hooked
    <3> QED
      BY <2>2, <3>1, <3>2, <3>4, <3>5
  <2> QED
    BY <2>1, <2>2 DEF FindShipment
<1>4. Honest(q)' /\ CancelledIsReleased' /\ ~Creating(h)
  BY <1>1, <1>3 DEF ShipInv, HonestInv, Honest, LabelOf, CancelledIsReleased, Rows, server, outside, Creating
<1>5. HonestInv' /\ HookInv' /\ LabelInv' /\ req' \in [Handlers -> ShipRequest]
  BY <1>1, <1>3, <1>4, StepApart DEF Hooked, server, outside, ghosts
<1>6. TypesInv'
  BY <1>1, <1>5 DEF ShipInv, TypesInv, server, outside, ghosts
<1> QED
  BY <1>5, <1>6 DEF ShipInv

LEMMA HookShipmentKeeps ==
    ASSUME ShipInv, NEW h \in Handlers, HookShipment(h) PROVE ShipInv'
<1> DEFINE s == req[h].event.status
<1>1. req[h] \in ShipRequest /\ Honest(req[h]) /\ req[h].pc = "found"
  BY DEF ShipInv, TypesInv, HonestInv, HookShipment
<1>2. req[h] \in [pc : {"found", "telling", "recording"}, event : Event,
                  key : {TheKey(e) : e \in Event}, row : Nat]
  BY <1>1, ShipRequestIs
<1>3. PICK pc \in {"telling", "recording"} : Goto(h, [req[h] EXCEPT !.pc = pc])
  BY DEF HookShipment
<1>4. PICK q : q = [req[h] EXCEPT !.pc = pc]
  OBVIOUS
<1>5. q \in ShipRequest /\ q.pc = pc /\ q.event = req[h].event /\ q.key = req[h].key /\ q.row = req[h].row
  BY <1>2, <1>4 DEF ShipRequest
<1>6. Honest(q)
  BY <1>1, <1>5 DEF Honest, Hooked
<1>7. /\ req[h].row \in Rows /\ s \in Statuses
      /\ (s = "cancelled" => LabelOf(req[h].row) = "cancelled")
      /\ SetStatus(req[h].row, s)
      /\ UNCHANGED <<shipping, trail, inbox, processed, outside, started, ghosts>>
  <2>1. req[h].event \in sent /\ shipments[req[h].row].label = req[h].event.label /\ s # Unstated
    BY <1>1 DEF Honest, Hooked
  <2>2. s \in Statuses
    BY <1>2, <2>1 DEF Event, Statuses
  <2>3. s = "cancelled" => LabelOf(req[h].row) = "cancelled"
    BY <2>1 DEF ShipInv, HonestInv, LabelOf
  <2> QED
    BY <1>1, <2>2, <2>3 DEF Honest, HookShipment
<1> HIDE DEF s
<1>8. Goto(h, q) /\ ~Creating(h)
  BY <1>1, <1>3, <1>4 DEF Creating
<1> QED
  BY <1>1, <1>5, <1>6, <1>7, <1>8, SetKeeps DEF Hooked

LEMMA HookOrderKeeps ==
    ASSUME ShipInv, NEW h \in Handlers, HookOrder(h) PROVE ShipInv'
<1>1. req[h] \in ShipRequest /\ Honest(req[h]) /\ req[h].pc = "telling"
      /\ UNCHANGED <<shipments, trail, inbox, processed, outside, started, ghosts>>
  BY DEF ShipInv, TypesInv, HonestInv, HookOrder
<1>2. req[h] \in [pc : {"found", "telling", "recording"}, event : Event,
                  key : {TheKey(e) : e \in Event}, row : Nat]
  BY <1>1, ShipRequestIs
<1>3. PICK q : q = [req[h] EXCEPT !.pc = "recording"]
  OBVIOUS
<1>4. q \in ShipRequest /\ q.pc = "recording" /\ q.event = req[h].event /\ q.key = req[h].key /\ q.row = req[h].row
  BY <1>2, <1>3 DEF ShipRequest
<1>5. Goto(h, q) /\ ~Creating(h) /\ Honest(q)
  BY <1>1, <1>3, <1>4 DEF HookOrder, Creating, Honest, Hooked
<1>6. Honest(q)' /\ CancelledIsReleased'
  BY <1>1, <1>5 DEF ShipInv, HonestInv, Honest, LabelOf, CancelledIsReleased, Rows, outside
<1>7. HonestInv' /\ HookInv' /\ LabelInv' /\ req' \in [Handlers -> ShipRequest]
  BY <1>1, <1>4, <1>5, <1>6, StepApart DEF Hooked, outside, ghosts
<1>8. shipping' \in Statuses
  <2>1. req[h].event.status # Unstated
    BY <1>1 DEF Honest
  <2> QED
    BY <1>2, <2>1 DEF HookOrder, Event, Statuses
<1>9. TypesInv'
  BY <1>1, <1>7, <1>8 DEF ShipInv, TypesInv, outside, ghosts
<1> QED
  BY <1>7, <1>9 DEF ShipInv

(* The event counts as applied here: its delivery is the only one at work. *)
LEMMA HookRecordKeeps ==
    ASSUME ShipInv, NEW h \in Handlers, HookRecord(h) PROVE ShipInv'
<1>1. req[h] \in ShipRequest /\ Honest(req[h]) /\ req[h].pc = "recording"
      /\ UNCHANGED <<shipments, shipping, inbox, processed, outside, started, blind>>
  BY DEF ShipInv, TypesInv, HonestInv, HookRecord
<1>2. req[h] \in [pc : {"found", "telling", "recording"}, event : Event,
                  key : {TheKey(e) : e \in Event}, row : Nat]
  BY <1>1, ShipRequestIs
<1>3. PICK e \in Event : e = req[h].event /\ e.label \in Ids /\ e.status \in Statuses \cup {Unstated}
  BY <1>2 DEF Event, Statuses
<1>4. PICK q : q = [pc |-> "applied", event |-> e, key |-> req[h].key]
  OBVIOUS
<1>5. q \in ShipRequest /\ q.pc = "applied" /\ q.event = e /\ q.key = req[h].key /\ q.key = TheKey(e)
  BY <1>1, <1>2, <1>3, <1>4 DEF ShipRequest, Honest, Hooked
<1>6. Goto(h, q) /\ ~Creating(h) /\ applied' = [applied EXCEPT ![e] = @ + 1]
      /\ trail' = [trail EXCEPT ![e.label] = @ \cup {e.status}]
  BY <1>1, <1>3, <1>4 DEF HookRecord, Record, Creating
<1>7. req'[h] = q /\ \A g \in Handlers \ {h} : req'[g] = req[g]
  BY <1>6 DEF ShipInv, TypesInv, Goto
<1>8. applied[e] = 0
  BY <1>1, <1>3 DEF ShipInv, HookInv, Unapplied
<1>9. /\ applied' \in [Event -> Nat] /\ applied'[e] = 1
      /\ \A d \in Event \ {e} : applied'[d] = applied[d]
  BY <1>6, <1>8 DEF ShipInv, TypesInv
<1>10. TypesInv'
  <2>1. trail' \in [Ids -> SUBSET (Statuses \cup {Unstated})]
    BY <1>3, <1>6 DEF ShipInv, TypesInv
  <2>2. req' \in [Handlers -> ShipRequest]
    BY <1>5, <1>6 DEF ShipInv, TypesInv, Goto
  <2> QED
    BY <1>1, <1>9, <2>1, <2>2 DEF ShipInv, TypesInv, outside
<1>11. HonestInv'
  <2>1. Honest(q)' /\ CancelledIsReleased'
    BY <1>1, <1>3, <1>5 DEF ShipInv, HonestInv, Honest, LabelOf, CancelledIsReleased, Rows, outside, Hooked
  <2> QED
    BY <1>1, <1>6, <2>1, HonestApart DEF ShipInv, HonestInv, Rows, outside
<1>12. HookInv'
  <2>1. \A g \in Handlers : req'[g].pc \in Hooked => req'[g].key \in inbox
    BY <1>1, <1>5, <1>7 DEF ShipInv, HookInv, Hooked
  <2>2. \A g, f \in Handlers :
           req'[g].pc \in Hooked /\ req'[f].pc \in Hooked /\ req'[g].key = req'[f].key => g = f
    <3>1. \A g \in Handlers : req'[g].pc \in Hooked => req[g].pc \in Hooked /\ req'[g].key = req[g].key
      BY <1>1, <1>5, <1>7 DEF Hooked
    <3> QED
      BY <3>1 DEF ShipInv, HookInv
  <2>3. \A d \in Event : Unapplied(d)' => Unapplied(d) /\ d # e
    <3> SUFFICES ASSUME NEW d \in Event, Unapplied(d)' PROVE Unapplied(d) /\ d # e
      OBVIOUS
    <3>1. CASE TheKey(d) \notin inbox
      <4>1. TheKey(e) \in inbox
        BY <1>1, <1>5 DEF ShipInv, HookInv, Hooked
      <4> QED
        BY <3>1, <4>1 DEF Unapplied
    <3>2. CASE TheKey(d) \in inbox
      <4>1. PICK g \in Handlers :
              req'[g].pc \in {"received", "found", "telling", "recording"} /\ req'[g].event = d
        BY <1>1, <3>2 DEF Unapplied
      <4>2. g # h
        BY <1>5, <1>7, <4>1
      <4>3. req[g] = req'[g] /\ req[g].pc \in Hooked
        BY <1>7, <4>1, <4>2 DEF Hooked
      <4>4. req[g].key = TheKey(d)
        BY <4>1, <4>3 DEF ShipInv, HonestInv, Honest
      <4>5. d # e
        BY <1>1, <1>5, <4>2, <4>3, <4>4 DEF ShipInv, HookInv, Hooked
      <4> QED
        BY <4>1, <4>3, <4>5 DEF Unapplied
    <3> QED
      BY <3>1, <3>2
  <2>4. \A d \in Event : applied'[d] <= 1 /\ (Unapplied(d)' => applied'[d] = 0)
    BY <1>9, <2>3 DEF ShipInv, HookInv
  <2> QED
    BY <1>1, <2>1, <2>2, <2>4 DEF HookInv
<1>13. LabelInv'
  BY <1>1, <1>5, <1>6, LabelsApart DEF ShipInv, TypesInv, outside
<1> QED
  BY <1>10, <1>11, <1>12, <1>13 DEF ShipInv

LEMMA DoneKeeps ==
    ASSUME ShipInv, NEW h \in Handlers, HookDone(h) PROVE ShipInv'
<1>1. req[h].pc = "applied" /\ Honest(req[h]) /\ Goto(h, NoReq)
      /\ UNCHANGED <<shipments, shipping, trail, inbox, labels, sent, deliveries, started, ghosts>>
  BY DEF ShipInv, HonestInv, HookDone
<1>2. NoReq \in ShipRequest /\ NoReq.pc = "idle" /\ Honest(NoReq)' /\ CancelledIsReleased' /\ ~Creating(h)
  BY <1>1 DEF ShipRequest, NoReq, Honest, Hooked, ShipInv, HonestInv, CancelledIsReleased, Rows, Creating
<1>3. HonestInv' /\ HookInv' /\ LabelInv' /\ req' \in [Handlers -> ShipRequest]
  BY <1>1, <1>2, StepApart DEF Hooked, ghosts
<1>4. processed' \subseteq inbox /\ acked' \subseteq sent
  BY <1>1 DEF HookDone, ShipInv, TypesInv, HookInv, Honest, Hooked
<1>5. TypesInv'
  BY <1>1, <1>3, <1>4 DEF ShipInv, TypesInv, ghosts
<1> QED
  BY <1>3, <1>5 DEF ShipInv

LEMMA FailKeeps ==
    ASSUME ShipInv, NEW h \in Handlers, Fail(h) PROVE ShipInv'
<1>1. Goto(h, NoReq) /\ blind' = (blind \/ req[h].pc = "bought")
      /\ UNCHANGED <<server, outside, started, applied>>
  BY DEF Fail
<1>2. NoReq \in ShipRequest /\ NoReq.pc = "idle" /\ Honest(NoReq)' /\ CancelledIsReleased'
  BY <1>1 DEF ShipRequest, NoReq, Honest, Hooked, ShipInv, HonestInv, CancelledIsReleased, Rows,
       server, outside
<1>3. req'[h] = NoReq /\ \A g \in Handlers \ {h} : req'[g] = req[g]
  BY <1>1 DEF ShipInv, TypesInv, Goto
<1>4. TypesInv'
  <2>1. req' \in [Handlers -> ShipRequest]
    BY <1>1, <1>2 DEF ShipInv, TypesInv, Goto
  <2>2. blind' \in BOOLEAN
    BY <1>1
  <2> QED
    BY <1>1, <2>1, <2>2 DEF ShipInv, TypesInv, server, outside
<1>5. HonestInv'
  BY <1>1, <1>2, HonestApart DEF ShipInv, HonestInv, Rows, server, outside
<1>6. HookInv'
  BY <1>1, <1>2, HooksApart DEF ShipInv, TypesInv, server, Hooked
<1>7. LabelInv'
  <2> SUFFICES ASSUME ~blind' PROVE LabelInv'
    BY DEF LabelInv
  <2>1. ~blind /\ req[h].pc # "bought" /\ labels' = labels /\ shipments' = shipments
    BY <1>1 DEF server, outside
  <2>2. \A g \in Handlers : Creating(g)' => Creating(g) /\ req'[g] = req[g]
    BY <1>2, <1>3 DEF Creating
  <2>3. CASE Creating(h)
    <3>1. \A i \in Ids : labels[i] # "live"
      BY <2>1, <2>3 DEF ShipInv, LabelInv
    <3> QED
      BY <2>1, <2>2, <3>1 DEF ShipInv, LabelInv
  <2>4. CASE ~Creating(h)
    <3>1. \A g \in Handlers : Creating(g) <=> Creating(g)'
      BY <1>3, <2>2, <2>4 DEF Creating
    <3> QED
      BY <2>1, <2>2, <3>1 DEF ShipInv, LabelInv, Rows
  <2> QED
    BY <2>3, <2>4
<1> QED
  BY <1>4, <1>5, <1>6, <1>7 DEF ShipInv

-------------------------------------------------------------------------------
(* The theorems *)

LEMMA ShipStepKeeps == ShipInv /\ [ShipNext]_shipVars => ShipInv'
<1> SUFFICES ASSUME ShipInv, [ShipNext]_shipVars PROVE ShipInv'
  OBVIOUS
<1>1. ASSUME NEW h \in Handlers, BeginCreate(h) \/ Buy(h) \/ SaveShipment(h) PROVE ShipInv'
  BY <1>1, BeginCreateKeeps, BuyKeeps, SaveShipmentKeeps
<1>2. ASSUME NEW h \in Handlers,
             \/ SaveOrder(h) \/ AskTracking(h) \/ AddTracked(h)
             \/ \E k \in Rows : BeginCancel(h, k) \/ BeginTrack(h, k)
      PROVE ShipInv'
  BY <1>2, LookKeeps
<1>3. ASSUME NEW h \in Handlers, SaveCancelled(h) \/ SaveTracked(h) \/ CancelAtSkydropx(h) PROVE ShipInv'
  BY <1>3, SaveStatusKeeps, CancelKeeps
<1>4. ASSUME NEW h \in Handlers, NEW e \in Event, Deliver(h, e) PROVE ShipInv'
  BY <1>4, DeliverKeeps
<1>5. ASSUME NEW h \in Handlers,
             FindShipment(h) \/ HookShipment(h) \/ HookOrder(h) \/ HookRecord(h) \/ HookDone(h) \/ Fail(h)
      PROVE ShipInv'
  BY <1>5, FindKeeps, HookShipmentKeeps, HookOrderKeeps, HookRecordKeeps, DoneKeeps, FailKeeps
<1>6. ASSUME NEW e \in Event, Report(e) PROVE ShipInv'
  BY <1>6, ReportKeeps
<1>7. CASE UNCHANGED shipVars
  <2>1. TypesInv' /\ LabelInv'
    BY <1>7 DEF shipVars, ShipInv, TypesInv, LabelInv, Creating, Rows
  <2>2. HonestInv'
    BY <1>7 DEF shipVars, ShipInv, HonestInv, CancelledIsReleased, Honest, LabelOf, Rows
  <2>3. HookInv'
    BY <1>7 DEF shipVars, ShipInv, HookInv, Unapplied
  <2> QED
    BY <2>1, <2>2, <2>3 DEF ShipInv
<1> QED
  BY <1>1, <1>2, <1>3, <1>4, <1>5, <1>6, <1>7 DEF ShipNext

(* The strengthening holds in every behaviour of the shipment services.    *)
THEOREM ShipInvariant == ShipSpec => []ShipInv
<1> QED
  BY ShipInitially, ShipStepKeeps, PTL DEF ShipSpec

(* The rows, the inbox and what Skydropx knows have the shapes they are    *)
(* declared with.                                                          *)
THEOREM ShipmentsTyped == ShipSpec => []ShipTypeOK
<1>1. ShipInv => ShipTypeOK
  BY DEF ShipInv, TypesInv, ShipTypeOK
<1> QED
  BY <1>1, ShipInvariant, PTL

(* ShipmentService and ShippingWebhookService mark a shipment cancelled    *)
(* only when Skydropx has cancelled its label, wherever a request dies.    *)
THEOREM ShipmentsReleased == ShipSpec => []CancelledIsReleased
<1>1. ShipInv => CancelledIsReleased
  BY DEF ShipInv, HonestInv
<1> QED
  BY <1>1, ShipInvariant, PTL

(* Skydropx may deliver an event any number of times, at once or not: it   *)
(* is applied once at most.                                                *)
THEOREM ShipmentsAppliedOnce == ShipSpec => []AppliedOnce
<1>1. ShipInv => AppliedOnce
  BY DEF ShipInv, HookInv, AppliedOnce
<1> QED
  BY <1>1, ShipInvariant, PTL

(* An order has two live labels only when two calls of createForOrder      *)
(* overlapped, or one died between the purchase and the save.              *)
THEOREM ShipmentsOneLabel == ShipSpec => []OneLiveLabel
<1>1. ShipInv => OneLiveLabel
  <2> SUFFICES ASSUME ShipInv, ~blind, NEW i \in Ids, NEW j \in Ids,
                      labels[i] = "live", labels[j] = "live"
               PROVE  i = j
    BY DEF OneLiveLabel
  <2>1. CASE \E h \in Handlers : Creating(h)
    BY <2>1 DEF ShipInv, LabelInv
  <2>2. CASE \A h \in Handlers : ~Creating(h)
    BY <2>2 DEF ShipInv, LabelInv
  <2> QED
    BY <2>1, <2>2
<1> QED
  BY <1>1, ShipInvariant, PTL

================================================================================
