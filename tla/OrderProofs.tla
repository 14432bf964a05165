------------------------------ MODULE OrderProofs ------------------------------
(***************************************************************************)
(* Proofs about OrderService: its types, that nothing is announced that    *)
(* was not committed, what the trail of an order says of its status and of *)
(* the units it reserved, and under which conditions a confirmed order has *)
(* its units and the stock covers them all; for any number of orders,      *)
(* lines, products, branches and requests.                                 *)
(***************************************************************************)
EXTENDS OrderService, InventoryProofs, FiniteSetTheorems, SequenceTheorems

(* A status an order can have: None is none of them.                       *)
LEMMA StatusFacts ==
    /\ {"draft", "confirmed", "preparing", "cancelled"} \subseteq Status
    /\ None \notin Status /\ Same \notin Status
    /\ CreateStatuses \subseteq Status
    /\ PatchStatuses \subseteq Status \cup {Same}
  BY OrderAssumption DEF Status

Transitions ==
    [pc : {"reserving", "releasing", "saving", "announcing"},
     op : {"create", "confirm", "prepare", "cancel"}, order : Orders,
     seen : Status \cup {None}, to : Status, line : Nat \ {0}]

Patches == [pc : {"patching"}, order : Orders, seen : Status, to : Status \cup {Same}]

LEMMA RequestIs ==
    ASSUME NEW q \in Request
    PROVE  /\ q.pc \in {"reserving", "releasing", "saving", "announcing"} => q \in Transitions
           /\ q.pc = "patching" => q \in Patches
           /\ q.pc = "idle" <=> q = NoReq
           /\ q \in Transitions \cup Patches \cup {NoReq}
  BY DEF Request, Transitions, Patches, NoReq

(* The inventory calls keep the types of the rows.                         *)
LEMMA MutateTyped ==
    ASSUME TypeOK, NEW r \in RowIds, NEW cmd \in Command(Int, Int), Mutate(r, cmd)
    PROVE  TypeOK'
<1>1. rows[r] \in Row /\ Accepts(rows[r], cmd)
  BY DEF Mutate, TypeOK
<1>2. Apply(rows[r], cmd) \in Row /\ HeldChange(cmd) \in Int
  BY <1>1, ApplyFacts
<1> QED
  BY <1>2 DEF Mutate, TypeOK

LEMMA FeedTyped ==
    ASSUME TypeOK,
           \/ \E levels \in Feeds : BulkUpsert(levels)
           \/ \E delisted \in SUBSET RowIds : ZeroOut(delisted)
    PROVE  TypeOK'
<1>1. ASSUME NEW levels \in Feeds, BulkUpsert(levels) PROVE TypeOK'
  <2>1. \A r \in DOMAIN levels : levels[r] \in Nat
    BY InventoryAssumption DEF Feeds
  <2>2. \A r \in DOMAIN levels \cap RowIds : FeedWrite(rows[r], levels[r]) \in Row
    BY <2>1, FeedWriteFacts DEF TypeOK
  <2> QED
    BY <1>1, <2>2 DEF BulkUpsert, TypeOK
<1>2. ASSUME NEW delisted \in SUBSET RowIds, ZeroOut(delisted) PROVE TypeOK'
  <2>1. \A r \in delisted : rows[r] \in Row
    BY <1>2 DEF ZeroOut, Delistable, TypeOK
  <2>2. \A r \in delisted : Delisted(rows[r]) \in Row
    BY <2>1, DelistedFacts
  <2> QED
    BY <1>2, <2>2 DEF ZeroOut, TypeOK
<1> QED
  BY <1>1, <1>2

-------------------------------------------------------------------------------
(* Types *)

LEMMA OrderInitTyped == OrderInit => OrderTypeOK
<1> SUFFICES ASSUME OrderInit PROVE OrderTypeOK
  OBVIOUS
<1> USE OrderAssumption DEF OrderInit
<1>1. TypeOK
  <2>1. rows \in [RowIds -> Row \cup {NoRow}]
    OBVIOUS
  <2>2. \A r \in RowIds : (IF Opening[r] = NoRow THEN 0 ELSE Opening[r].reserved) \in Int
    <3> SUFFICES ASSUME NEW r \in RowIds, Opening[r] # NoRow PROVE Opening[r].reserved \in Int
      OBVIOUS
    <3>1. Opening[r] \in Row
      OBVIOUS
    <3> QED
      BY <3>1 DEF Row
  <2>3. held \in [RowIds -> Int]
    BY <2>2
  <2> QED
    BY <2>1, <2>3 DEF TypeOK
<1>2. trail \in [Orders -> Seq(Event)]
  BY EmptySeq
<1>3. req \in [Handlers -> Request]
  BY DEF Request
<1>4. taken \in [Orders -> [RowIds -> Nat]] /\ given \in [Orders -> [RowIds -> Nat]]
  OBVIOUS
<1>5. announced \in [Orders -> [Keys -> Nat]] /\ started \in Nat
  OBVIOUS
<1>6. status \in [Orders -> Status \cup {None}]
  OBVIOUS
<1>7. save \in [Handlers -> Save] /\ clock \in Nat /\ mixed \in SUBSET Orders
  BY DEF Save
<1> QED
  BY <1>1, <1>2, <1>3, <1>4, <1>5, <1>6, <1>7 DEF OrderTypeOK

(* What a transition does to the inventory before it saves: a confirmation *)
(* reserves, a cancellation of an order it loaded as promised releases,    *)
(* and the others go straight to the save.                                 *)
Fits(q) ==
    q \in Transitions =>
        /\ q.pc = "reserving" => q.to = "confirmed"
        /\ q.pc = "releasing" => q.to = "cancelled" /\ q.seen \in {"confirmed", "preparing"}
        /\ q.pc \in {"reserving", "releasing"} => q.order \notin Branchless
        /\ q.pc = "saving" => q.to # "confirmed"
        /\ q.pc = "saving" /\ q.to = "cancelled" /\ q.seen \in {"confirmed", "preparing"}
              => q.order \in Branchless
        /\ q.op = "create" => q.to \in CreateStatuses
        /\ q.op # "create" /\ q.to = "preparing" => q.seen = "confirmed"

(* The requests as they begin: what each carries.                          *)
Begins(h, q) ==
    /\ Begin(h, q) /\ q \in Request /\ status[q.order] = q.seen /\ Fits(q)
    /\ \/ /\ q \in Transitions /\ q.pc # "announcing" /\ q.line = 1
          /\ q.op = "create" <=> q.seen = None
          /\ q.op = "create" => ~Creating(q.order)
          /\ q.op # "create" => q.to \in {"confirmed", "preparing", "cancelled"}
       \/ q \in Patches /\ PatchStatuses # {} /\ q.to \in PatchStatuses

LEMMA BeginIs ==
    ASSUME OrderTypeOK, NEW h \in Handlers, NEW o \in Orders,
           \/ \E to \in CreateStatuses : BeginCreate(h, o, to)
           \/ BeginConfirm(h, o) \/ BeginPrepare(h, o) \/ BeginCancel(h, o)
           \/ \E to \in PatchStatuses : BeginPatch(h, o, to)
    PROVE  \E q \in Request : Begins(h, q)
<1>1. ASSUME NEW op \in {"create", "confirm", "prepare", "cancel"},
             NEW pc \in {"reserving", "releasing", "saving"}, NEW to \in Status,
             Begin(h, Transition(op, pc, o, to)),
             op = "create" <=> status[o] = None,
             op = "create" => ~Creating(o),
             op # "create" => to \in {"confirmed", "preparing", "cancelled"},
             pc = "reserving" => to = "confirmed" /\ o \notin Branchless,
             pc = "releasing" =>
                 /\ to = "cancelled" /\ o \notin Branchless
                 /\ status[o] \in {"confirmed", "preparing"},
             op = "create" => to \in CreateStatuses,
             pc = "saving" => to # "confirmed",
             pc = "saving" /\ to = "cancelled" /\ status[o] \in {"confirmed", "preparing"}
                 => o \in Branchless,
             op # "create" /\ to = "preparing" => status[o] = "confirmed"
      PROVE  \E q \in Request : Begins(h, q)
  <2>1. PICK q : q = Transition(op, pc, o, to)
    OBVIOUS
  <2>2. /\ q.pc = pc /\ q.op = op /\ q.order = o /\ q.seen = status[o] /\ q.to = to /\ q.line = 1
        /\ q \in Transitions
    BY <2>1 DEF Transition, Transitions, OrderTypeOK
  <2>3. q \in Request
    BY <2>2 DEF Request, Transitions
  <2>4. Fits(q)
    BY <1>1, <2>2 DEF Fits
  <2> QED
    BY <1>1, <2>1, <2>2, <2>3, <2>4 DEF Begins
<1>2. ASSUME NEW to \in CreateStatuses, BeginCreate(h, o, to) PROVE \E q \in Request : Begins(h, q)
  BY <1>1, <1>2, StatusFacts DEF BeginCreate
<1>3. CASE BeginConfirm(h, o)
  BY <1>1, <1>3, StatusFacts DEF BeginConfirm
<1>4. CASE BeginPrepare(h, o)
  BY <1>1, <1>4, StatusFacts DEF BeginPrepare
<1>5. CASE BeginCancel(h, o)
  BY <1>1, <1>5, StatusFacts DEF BeginCancel
<1>6. ASSUME NEW to \in PatchStatuses, BeginPatch(h, o, to) PROVE \E q \in Request : Begins(h, q)
  <2>1. PICK q : q = [pc |-> "patching", order |-> o, seen |-> status[o], to |-> to]
    OBVIOUS
  <2>2. q \in Patches /\ q.order = o /\ q.seen = status[o] /\ q.to = to
    BY <1>6, <2>1, StatusFacts DEF BeginPatch, Patches, OrderTypeOK
  <2>3. q \in Request /\ Fits(q)
    BY <2>2 DEF Request, Patches, Transitions, Fits
  <2> QED
    BY <1>6, <2>1, <2>2, <2>3 DEF BeginPatch, Begins
<1> QED
  BY <1>2, <1>3, <1>4, <1>5, <1>6

(* The line a handler is at.                                               *)
LEMMA LineIs ==
    ASSUME OrderTypeOK, NEW h \in Handlers,
           AtLine(h, "reserving") \/ AtLine(h, "releasing")
    PROVE  /\ req[h] \in Transitions
           /\ Line(req[h]).row \in RowIds /\ Line(req[h]).qty \in Nat
           /\ \A kind \in {"reserve", "release"} : LineCommand(h, kind) \in Command(Int, Int)
<1>1. req[h] \in Transitions /\ req[h].line <= Len(Lines[req[h].order])
  BY RequestIs DEF AtLine, OrderTypeOK
<1>2. req[h].order \in Orders /\ req[h].line \in Nat /\ req[h].line > 0
  BY <1>1 DEF Transitions
<1>3. PICK s \in Seq([row : RowIds, qty : Nat \ {0}]) : s = Lines[req[h].order]
  BY <1>2, OrderAssumption
<1>4. s[req[h].line] \in [row : RowIds, qty : Nat \ {0}]
  <2>1. PICK i : i = req[h].line
    OBVIOUS
  <2>2. i \in 1..Len(s)
    BY <1>1, <1>2, <1>3, <2>1
  <2> QED
    BY <2>1, <2>2, ElementOfSeq
<1>5. Line(req[h]).row \in RowIds /\ Line(req[h]).qty \in Nat
  BY <1>3, <1>4 DEF Line
<1> QED
  BY <1>1, <1>5 DEF LineCommand, Command

LEMMA TallyTyped ==
    ASSUME NEW ghost \in [Orders -> [RowIds -> Nat]], OrderTypeOK, NEW h \in Handlers,
           AtLine(h, "reserving") \/ AtLine(h, "releasing")
    PROVE  Tally(ghost, h) \in [Orders -> [RowIds -> Nat]]
<1>1. req[h].order \in Orders /\ Line(req[h]).row \in RowIds /\ Line(req[h]).qty \in Nat
  BY LineIs DEF Transitions
<1>2. ghost[req[h].order][Line(req[h]).row] + Line(req[h]).qty \in Nat
  BY <1>1
<1> QED
  BY <1>1, <1>2 DEF Tally

(* A request changed to another keeps the types of the requests.           *)
LEMMA ReqTyped ==
    ASSUME OrderTypeOK, NEW h \in Handlers, NEW q \in Request, req' = [req EXCEPT ![h] = q]
    PROVE  /\ req' \in [Handlers -> Request] /\ req'[h] = q
           /\ \A g \in Handlers \ {h} : req'[g] = req[g]
  BY DEF OrderTypeOK

(* A transition at its next line, or past its save.                        *)
LEMMA TransitionGoesOn ==
    ASSUME NEW q \in Transitions
    PROVE  /\ [q EXCEPT !.line = q.line + 1] \in Transitions
           /\ [q EXCEPT !.line = q.line + 1].pc = q.pc
           /\ [q EXCEPT !.line = q.line + 1].op = q.op
           /\ [q EXCEPT !.line = q.line + 1].order = q.order
           /\ [q EXCEPT !.line = q.line + 1].seen = q.seen
           /\ [q EXCEPT !.line = q.line + 1].to = q.to
           /\ [q EXCEPT !.pc = "announcing"] \in Transitions
           /\ [q EXCEPT !.pc = "announcing"].pc = "announcing"
           /\ [q EXCEPT !.pc = "announcing"].op = q.op
           /\ [q EXCEPT !.pc = "announcing"].order = q.order
           /\ [q EXCEPT !.pc = "announcing"].seen = q.seen
           /\ [q EXCEPT !.pc = "announcing"].to = q.to
<1>1. q.line + 1 \in Nat \ {0}
  BY DEF Transitions
<1> QED
  BY <1>1 DEF Transitions

LEMMA FitsGoesOn ==
    ASSUME NEW q \in Transitions, Fits(q)
    PROVE  /\ [q EXCEPT !.line = q.line + 1] \in Request /\ Fits([q EXCEPT !.line = q.line + 1])
           /\ [q EXCEPT !.pc = "announcing"] \in Request /\ Fits([q EXCEPT !.pc = "announcing"])
<1>1. ASSUME NEW p \in Transitions, p.pc \in {q.pc, "announcing"}, p.op = q.op,
             p.order = q.order, p.seen = q.seen, p.to = q.to
      PROVE  p \in Request /\ Fits(p)
  <2>1. p \in Request
    BY DEF Transitions, Request
  <2> QED
    BY <1>1, <2>1 DEF Fits
<1> QED
  BY <1>1, TransitionGoesOn

LEMMA NoReqFits == NoReq \in Request /\ NoReq.pc = "idle" /\ Fits(NoReq)
  BY DEF NoReq, Request, Transitions, Fits

(* The steps of a request on the lines of its order: what changes besides  *)
(* the inventory is the line it is at, or that it ends there.              *)
LEMMA LineSteps ==
    ASSUME OrderTypeOK, NEW h \in Handlers,
           ReserveLine(h) \/ ReleaseLine(h) \/ SkipLine(h)
    PROVE  /\ OrderTypeOK' /\ UNCHANGED <<status, trail, announced, started, saving>>
           /\ req[h] \in Transitions /\ req[h].pc \in {"reserving", "releasing"} /\ ~Decided(h)
           /\ req' = [req EXCEPT ![h] = [req[h] EXCEPT !.line = req[h].line + 1]]
<1>1. AtLine(h, "reserving") \/ AtLine(h, "releasing")
  BY DEF ReserveLine, ReleaseLine, SkipLine
<1>2. req[h] \in Transitions /\ req[h].pc \in {"reserving", "releasing"}
  BY <1>1, LineIs DEF AtLine
<1>0. ~Decided(h)
  <2>1. req[h].line \in Nat /\ req[h].order \in Orders
    BY <1>2 DEF Transitions
  <2>2. Len(Lines[req[h].order]) \in Nat
    BY <2>1, OrderAssumption, LenProperties
  <2> QED
    BY <1>1, <1>2, <2>1, <2>2 DEF AtLine, Decided
<1>3. req' = [req EXCEPT ![h] = [req[h] EXCEPT !.line = req[h].line + 1]]
  BY DEF ReserveLine, ReleaseLine, SkipLine, NextLine, OrderTypeOK
<1>4. [req[h] EXCEPT !.line = req[h].line + 1] \in Request
  BY <1>2, TransitionGoesOn DEF Request, Transitions
<1>5. req' \in [Handlers -> Request]
  BY <1>3, <1>4, ReqTyped
<1>6. UNCHANGED <<status, trail, announced, started, saving>>
  BY DEF ReserveLine, ReleaseLine, SkipLine
<1>7. TypeOK'
  BY <1>1, LineIs, MutateTyped DEF ReserveLine, ReleaseLine, SkipLine, OrderTypeOK, TypeOK
<1>8. taken' \in [Orders -> [RowIds -> Nat]]
  <2>1. CASE ReserveLine(h)
    BY <1>1, <2>1, TallyTyped DEF ReserveLine, OrderTypeOK
  <2>2. CASE ReleaseLine(h) \/ SkipLine(h)
    BY <2>2 DEF ReleaseLine, SkipLine, OrderTypeOK
  <2> QED
    BY <2>1, <2>2
<1>9. given' \in [Orders -> [RowIds -> Nat]]
  <2>1. CASE ReleaseLine(h)
    BY <1>1, <2>1, TallyTyped DEF ReleaseLine, OrderTypeOK
  <2>2. CASE ReserveLine(h) \/ SkipLine(h)
    BY <2>2 DEF ReserveLine, SkipLine, OrderTypeOK
  <2> QED
    BY <2>1, <2>2
<1> QED
  BY <1>0, <1>2, <1>3, <1>5, <1>6, <1>7, <1>8, <1>9 DEF OrderTypeOK, saving

LEMMA EndSteps ==
    ASSUME OrderTypeOK, NEW h \in Handlers, RefuseLine(h) \/ Fail(h)
    PROVE  /\ OrderTypeOK' /\ UNCHANGED <<status, trail, announced, started, clock, mixed>>
           /\ req' = [req EXCEPT ![h] = NoReq] /\ save' = [save EXCEPT ![h] = NoSave]
<1>1. End(h)
  BY DEF RefuseLine, Fail
<1>2. NoReq \in Request
  BY DEF Request
<1>3. req' \in [Handlers -> Request]
  BY <1>1, <1>2, ReqTyped DEF End
<1>4. save' \in [Handlers -> Save]
  BY <1>1 DEF End, Save, OrderTypeOK
<1> QED
  BY <1>1, <1>3, <1>4 DEF End, OrderTypeOK, TypeOK

(* What is known of a save that is open.                                   *)
LEMMA SaveIs ==
    ASSUME OrderTypeOK, NEW h \in Handlers
    PROVE  /\ save[h] # NoSave => save[h].at \in Nat /\ save[h].pc \in {"begun", "compared"}
           /\ save[h].pc \in {"begun", "compared"} => save[h] # NoSave
           /\ save[h].pc = "compared" => save[h].writes \in BOOLEAN
           /\ NoSave.pc = "none" /\ NoSave \in Save
<1>1. save[h] \in Save
  BY DEF OrderTypeOK
<1> QED
  BY <1>1 DEF Save, NoSave

(* BEGIN, and the look at the row: of the order itself nothing changes.    *)
orderCore == <<status, trail, announced, req, taken, given, started>>

LEMMA OpenSteps ==
    ASSUME OrderTypeOK, NEW h \in Handlers, OpenSave(h) \/ CompareStatus(h)
    PROVE  OrderTypeOK' /\ UNCHANGED orderCore /\ UNCHANGED <<rows, held>>
<1>1. UNCHANGED orderCore /\ UNCHANGED <<rows, held>>
  BY DEF OpenSave, CompareStatus, orderCore
<1>2. req[h] \in Transitions
  BY RequestIs DEF OpenSave, CompareStatus, Decided, OrderTypeOK
<1>3. CASE OpenSave(h)
  <2>1. clock + 1 \in Nat /\ req[h].order \in Orders
    BY <1>2 DEF OrderTypeOK, Transitions
  <2>2. [pc |-> "begun", at |-> clock + 1] \in Save
    BY <2>1 DEF Save
  <2>3. save' \in [Handlers -> Save]
    BY <1>3, <2>2 DEF OpenSave, OrderTypeOK
  <2>4. clock' \in Nat /\ mixed' \in SUBSET Orders
    BY <1>3, <2>1 DEF OpenSave, OrderTypeOK
  <2> QED
    BY <1>1, <2>3, <2>4 DEF OrderTypeOK, TypeOK, orderCore
<1>4. CASE CompareStatus(h)
  <2>1. save[h].at \in Nat
    BY <1>4, SaveIs DEF CompareStatus
  <2>2. (status[req[h].order] # req[h].to) \in BOOLEAN
    OBVIOUS
  <2>3. PICK w \in BOOLEAN : w = (status[req[h].order] # req[h].to)
    BY <2>2
  <2>4. [pc |-> "compared", at |-> save[h].at, writes |-> w] \in Save
    BY <2>1, <2>3 DEF Save
  <2>5. save' = [save EXCEPT ![h] = [pc |-> "compared", at |-> save[h].at, writes |-> w]]
    BY <1>4, <2>3 DEF CompareStatus, OrderTypeOK
  <2>6. save' \in [Handlers -> Save]
    BY <2>4, <2>5 DEF OrderTypeOK
  <2>7. clock' = clock /\ mixed' = mixed
    BY <1>4 DEF CompareStatus
  <2> QED
    BY <1>1, <2>6, <2>7 DEF OrderTypeOK, TypeOK, orderCore
<1> QED
  BY <1>1, <1>3, <1>4

(* The save of a transition: the status and the event that says so.        *)
EventOf(h) == [from |-> req[h].seen, to |-> req[h].to, at |-> save[h].at]

LEMMA SaveSteps ==
    ASSUME OrderTypeOK, NEW h \in Handlers, SaveTransition(h)
    PROVE  /\ OrderTypeOK' /\ UNCHANGED <<rows, held, announced, taken, given, started, clock, mixed>>
           /\ req[h] \in Transitions /\ req[h].pc # "announcing" /\ Decided(h)
           /\ req' = [req EXCEPT ![h] = [req[h] EXCEPT !.pc = "announcing"]]
           /\ save[h].pc = "compared" /\ save[h] # NoSave /\ save[h].at \in Nat
           /\ save' = [save EXCEPT ![h] = NoSave]
           /\ status' = [status EXCEPT ![req[h].order] =
                            IF save[h].writes THEN req[h].to ELSE status[req[h].order]]
           /\ EventOf(h) \in Event /\ EventOf(h).from = req[h].seen
           /\ EventOf(h).to = req[h].to /\ EventOf(h).at = save[h].at
           /\ trail' = [trail EXCEPT ![req[h].order] = Append(trail[req[h].order], EventOf(h))]
<1>1. req[h] \in Transitions /\ req[h].pc # "announcing" /\ Decided(h) /\ save[h].pc = "compared"
  BY RequestIs DEF SaveTransition, Decided, OrderTypeOK
<1>2. /\ req' = [req EXCEPT ![h] = [req[h] EXCEPT !.pc = "announcing"]]
      /\ save' = [save EXCEPT ![h] = NoSave]
      /\ status' = [status EXCEPT ![req[h].order] =
                       IF save[h].writes THEN req[h].to ELSE status[req[h].order]]
      /\ trail' = [trail EXCEPT ![req[h].order] = Append(trail[req[h].order], EventOf(h))]
      /\ UNCHANGED <<rows, held, announced, taken, given, started, clock, mixed>>
  BY DEF SaveTransition, EndSave, EventOf, OrderTypeOK
<1>3. req[h].order \in Orders /\ req[h].to \in Status /\ req[h].seen \in Status \cup {None}
  BY <1>1 DEF Transitions
<1>4. save[h] # NoSave /\ save[h].at \in Nat /\ NoSave \in Save
  BY <1>1, SaveIs
<1>5. /\ EventOf(h) \in Event /\ EventOf(h).from = req[h].seen
      /\ EventOf(h).to = req[h].to /\ EventOf(h).at = save[h].at
  BY <1>3, <1>4 DEF EventOf, Event
<1>6. trail' \in [Orders -> Seq(Event)]
  <2>1. Append(trail[req[h].order], EventOf(h)) \in Seq(Event)
    BY <1>3, <1>5, AppendProperties DEF OrderTypeOK
  <2> QED
    BY <1>2, <2>1 DEF OrderTypeOK
<1>7. status' \in [Orders -> Status \cup {None}]
  BY <1>2, <1>3 DEF OrderTypeOK
<1>8. [req[h] EXCEPT !.pc = "announcing"] \in Request
  BY <1>1, TransitionGoesOn DEF Request, Transitions
<1>9. req' \in [Handlers -> Request]
  BY <1>2, <1>8, ReqTyped
<1>10. save' \in [Handlers -> Save]
  BY <1>2, <1>4 DEF OrderTypeOK
<1>11. OrderTypeOK'
  BY <1>2, <1>6, <1>7, <1>9, <1>10 DEF OrderTypeOK, TypeOK
<1> QED
  BY <1>1, <1>2, <1>4, <1>5, <1>11

(* emit, after the commit.                                                 *)
LEMMA EmitSteps ==
    ASSUME OrderTypeOK, NEW h \in Handlers, Announce(h)
    PROVE  /\ OrderTypeOK' /\ UNCHANGED <<status, trail, started, saving>>
           /\ req[h] \in Transitions /\ req[h].pc = "announcing" /\ ~Decided(h)
           /\ req' = [req EXCEPT ![h] = NoReq]
           /\ \A o \in Orders : \A k \in Keys :
                 announced'[o][k] = IF o = req[h].order /\ k \in Announcing(req[h])
                                    THEN announced[o][k] + 1 ELSE announced[o][k]
<1>1. req[h] \in Transitions /\ req[h].pc = "announcing" /\ req[h].order \in Orders
  BY RequestIs DEF Announce, OrderTypeOK, Transitions
<1>2. /\ announced' = [announced EXCEPT ![req[h].order] =
             [k \in Keys |-> IF k \in Announcing(req[h]) THEN announced[req[h].order][k] + 1
                             ELSE announced[req[h].order][k]]]
      /\ req' = [req EXCEPT ![h] = NoReq]
      /\ UNCHANGED <<rows, held, status, trail, taken, given, started, saving>>
  BY DEF Announce, Emit, OrderTypeOK
<1>3. \A k \in Keys : announced[req[h].order][k] \in Nat /\ announced[req[h].order][k] + 1 \in Nat
  BY <1>1 DEF OrderTypeOK
<1>4. announced' \in [Orders -> [Keys -> Nat]]
  BY <1>1, <1>2, <1>3 DEF OrderTypeOK
<1>5. \A o \in Orders : \A k \in Keys :
         announced'[o][k] = IF o = req[h].order /\ k \in Announcing(req[h])
                            THEN announced[o][k] + 1 ELSE announced[o][k]
  BY <1>1, <1>2 DEF OrderTypeOK
<1>6. NoReq \in Request
  BY DEF Request
<1>7. req' \in [Handlers -> Request]
  BY <1>2, <1>6, ReqTyped
<1> QED
  BY <1>1, <1>2, <1>4, <1>5, <1>7 DEF OrderTypeOK, TypeOK, Decided, saving

LEMMA PatchSteps ==
    ASSUME OrderTypeOK, NEW h \in Handlers, SavePatch(h)
    PROVE  /\ OrderTypeOK' /\ UNCHANGED <<trail, announced, started, saving>>
           /\ req[h] \in Patches /\ ~Decided(h)
           /\ req' = [req EXCEPT ![h] = NoReq]
           /\ status' = [status EXCEPT ![req[h].order] =
                            IF req[h].to = Same THEN req[h].seen ELSE req[h].to]
<1>1. req[h] \in Patches
  BY RequestIs DEF SavePatch, OrderTypeOK
<1>2. NoReq \in Request
  BY DEF Request
<1>3. req' \in [Handlers -> Request]
  BY <1>2, ReqTyped DEF SavePatch
<1>4. status' \in [Orders -> Status \cup {None}]
  BY <1>1 DEF SavePatch, Patches, OrderTypeOK
<1> QED
  BY <1>1, <1>3, <1>4 DEF SavePatch, Decided, OrderTypeOK, TypeOK, saving

LEMMA BeginSteps ==
    ASSUME OrderTypeOK, NEW h \in Handlers, NEW q \in Request, Begins(h, q)
    PROVE  /\ OrderTypeOK' /\ UNCHANGED <<status, trail, announced, saving>>
           /\ req[h] = NoReq /\ req' = [req EXCEPT ![h] = q] /\ ~Decided(h)
<1>1. req' \in [Handlers -> Request] /\ started' \in Nat
  BY ReqTyped DEF Begins, Begin, OrderTypeOK
<1> QED
  BY <1>1 DEF Begins, Begin, OrderTypeOK, TypeOK, saving, Decided, NoReq

LEMMA InventorySteps ==
    ASSUME OrderTypeOK,
           \/ \E r \in RowIds, cmd \in StaffCommands : StaffMutate(r, cmd)
           \/ \E levels \in Feeds : SyncUpsert(levels)
           \/ \E delisted \in SUBSET RowIds : SyncDelist(delisted)
    PROVE  OrderTypeOK' /\ UNCHANGED orderOnly
<1>1. TypeOK'
  BY MutateTyped, FeedTyped, CommandsTyped, OrderAssumption
     DEF StaffMutate, SyncUpsert, SyncDelist, OrderTypeOK
<1>2. UNCHANGED orderOnly
  BY DEF StaffMutate, SyncUpsert, SyncDelist
<1> QED
  BY <1>1, <1>2 DEF orderOnly, saving, OrderTypeOK

(* Every step is one of these.                                             *)
LEMMA SavingSteps ==
    ASSUME OrderTypeOK, [OrderNext]_orderVars
    PROVE  \/ \E h \in Handlers :
                \/ \E q \in Request : Begins(h, q)
                \/ ReserveLine(h) \/ ReleaseLine(h) \/ SkipLine(h)
                \/ RefuseLine(h) \/ Fail(h)
                \/ OpenSave(h) \/ CompareStatus(h)
                \/ SaveTransition(h) \/ Announce(h) \/ SavePatch(h)
           \/ OrderTypeOK' /\ UNCHANGED orderOnly
<1>1. CASE UNCHANGED orderVars
  BY <1>1 DEF orderVars, orderOnly, saving, OrderTypeOK, TypeOK
<1>2. CASE OrderNext
  BY <1>2, BeginIs, InventorySteps DEF OrderNext, HandlerStep
<1> QED
  BY <1>1, <1>2

(* And to what does not look at the open saves, one of these.              *)
LEMMA OrderSteps ==
    ASSUME OrderTypeOK, [OrderNext]_orderVars
    PROVE  \/ \E h \in Handlers :
                \/ \E q \in Request : Begins(h, q)
                \/ ReserveLine(h) \/ ReleaseLine(h) \/ SkipLine(h)
                \/ RefuseLine(h) \/ Fail(h)
                \/ SaveTransition(h) \/ Announce(h) \/ SavePatch(h)
           \/ OrderTypeOK' /\ UNCHANGED orderCore
  BY SavingSteps, OpenSteps DEF orderOnly, orderCore

(* What OrderService keeps of its orders, its requests and the inventory   *)
(* has the shapes it is declared with, in every behaviour.                 *)
THEOREM OrdersTyped == OrderSpec => []OrderTypeOK
<1>1. OrderTypeOK /\ [OrderNext]_orderVars => OrderTypeOK'
  BY OrderSteps, BeginSteps, LineSteps, EndSteps, SaveSteps, EmitSteps, PatchSteps
<1> QED
  BY <1>1, OrderInitTyped, PTL DEF OrderSpec

-------------------------------------------------------------------------------
(* What is announced *)

(* The events that allow the announcement k of an order, and the requests  *)
(* that have committed one and not announced it yet.                       *)
CommittedAs(o, k) ==
    {i \in DOMAIN trail[o] : IF k = "placed" THEN trail[o][i].from = None ELSE trail[o][i].to = k}

Pending(o, k) ==
    {h \in Handlers : req[h].pc = "announcing" /\ req[h].order = o /\ k \in Announcing(req[h])}

(* A create starts from nothing, and the others end where they say.        *)
Meant(q) ==
    q \in Transitions =>
        /\ q.op = "create" <=> q.seen = None
        /\ q.op # "create" => q.to \in {"confirmed", "preparing", "cancelled"}

(* AnnouncedIsCommitted is not inductive alone: a request that has         *)
(* committed and not announced yet needs an event of its own.              *)
AnnounceInv ==
    /\ OrderTypeOK
    /\ \A h \in Handlers : Meant(req[h])
    /\ \A o \in Orders, k \in Keys :
          announced[o][k] + Cardinality(Pending(o, k)) <= Cardinality(CommittedAs(o, k))

(* Appending adds one event at the end and keeps the others.               *)
LEMMA Appended ==
    ASSUME NEW s \in Seq(Event), NEW e \in Event
    PROVE  /\ Append(s, e) \in Seq(Event)
           /\ DOMAIN Append(s, e) = DOMAIN s \cup {Len(s) + 1}
           /\ Len(Append(s, e)) = Len(s) + 1
           /\ Len(s) \in Nat /\ DOMAIN s = 1..Len(s) /\ Len(s) + 1 \notin DOMAIN s
           /\ Append(s, e)[Len(s) + 1] = e
           /\ \A i \in DOMAIN s : Append(s, e)[i] = s[i]
  OBVIOUS

LEMMA SetsFinite ==
    ASSUME OrderTypeOK, NEW o \in Orders, NEW k \in Keys
    PROVE  /\ IsFiniteSet(Pending(o, k)) /\ IsFiniteSet(CommittedAs(o, k))
           /\ Cardinality(Pending(o, k)) \in Nat /\ Cardinality(CommittedAs(o, k)) \in Nat
           /\ announced[o][k] \in Nat
<1>1. IsFiniteSet(Pending(o, k))
  <2>1. Pending(o, k) \subseteq Handlers
    BY DEF Pending
  <2> QED
    BY <2>1, FS_Subset, OrderAssumption
<1>2. IsFiniteSet(CommittedAs(o, k))
  <2>1. PICK s \in Seq(Event) : s = trail[o]
    BY DEF OrderTypeOK
  <2>2. Len(s) \in Nat /\ DOMAIN s = 1..Len(s)
    BY LenProperties
  <2>3. IsFiniteSet(1..Len(s))
    BY <2>2, FS_Interval
  <2>4. CommittedAs(o, k) \subseteq 1..Len(s)
    BY <2>1, <2>2 DEF CommittedAs
  <2> QED
    BY <2>3, <2>4, FS_Subset
<1> QED
  BY <1>1, <1>2, FS_CardinalityType DEF OrderTypeOK

(* Nothing is announced or committed, and no request is about to announce. *)
LEMMA NothingPending ==
    ASSUME AnnounceInv, OrderTypeOK', NEW h \in Handlers, NEW q, req' = [req EXCEPT ![h] = q],
           q.pc # "announcing", Meant(q), UNCHANGED <<trail, announced>>
    PROVE  AnnounceInv'
<1>1. req'[h] = q /\ \A g \in Handlers \ {h} : req'[g] = req[g]
  BY DEF AnnounceInv, OrderTypeOK
<1>2. \A g \in Handlers : Meant(req[g])'
  BY <1>1 DEF AnnounceInv, Meant
<1>3. ASSUME NEW o \in Orders, NEW k \in Keys
      PROVE  announced'[o][k] + Cardinality(Pending(o, k)') <= Cardinality(CommittedAs(o, k)')
  <2>1. Pending(o, k)' \subseteq Pending(o, k)
    BY <1>1 DEF Pending
  <2>2. Cardinality(Pending(o, k)') \in Nat /\ Cardinality(Pending(o, k)') <= Cardinality(Pending(o, k))
    BY <2>1, SetsFinite, FS_Subset, FS_CardinalityType DEF AnnounceInv
  <2>3. CommittedAs(o, k)' = CommittedAs(o, k)
    BY DEF CommittedAs
  <2> QED
    BY <2>2, <2>3, SetsFinite DEF AnnounceInv
<1> QED
  BY <1>2, <1>3 DEF AnnounceInv

LEMMA SaveAnnounce ==
    ASSUME AnnounceInv, NEW h \in Handlers, SaveTransition(h)
    PROVE  AnnounceInv'
<1> DEFINE q == req[h]
<1>1. /\ OrderTypeOK /\ OrderTypeOK' /\ UNCHANGED announced
      /\ q \in Transitions /\ q.pc # "announcing" /\ Meant(q)
      /\ req' = [req EXCEPT ![h] = [q EXCEPT !.pc = "announcing"]]
      /\ EventOf(h) \in Event /\ EventOf(h).from = q.seen /\ EventOf(h).to = q.to
      /\ trail' = [trail EXCEPT ![q.order] = Append(trail[q.order], EventOf(h))]
  BY SaveSteps DEF AnnounceInv
<1>2. PICK p \in Transitions : p = [q EXCEPT !.pc = "announcing"]
  BY <1>1, TransitionGoesOn
<1>3. /\ p.pc = "announcing" /\ p.op = q.op /\ p.order = q.order /\ p.seen = q.seen /\ p.to = q.to
  BY <1>1, <1>2, TransitionGoesOn
<1>4. req'[h] = p /\ \A g \in Handlers \ {h} : req'[g] = req[g]
  BY <1>1, <1>2 DEF OrderTypeOK
<1>5. \A g \in Handlers : Meant(req[g])'
  BY <1>1, <1>3, <1>4 DEF AnnounceInv, Meant
<1>6. PICK e \in Event : e = EventOf(h)
  BY <1>1
<1>7. ASSUME NEW o \in Orders, NEW k \in Keys
      PROVE  announced'[o][k] + Cardinality(Pending(o, k)') <= Cardinality(CommittedAs(o, k)')
  <2>0. /\ IsFiniteSet(Pending(o, k)) /\ IsFiniteSet(CommittedAs(o, k))
        /\ Cardinality(Pending(o, k)) \in Nat /\ Cardinality(CommittedAs(o, k)) \in Nat
        /\ announced[o][k] \in Nat /\ announced' = announced
        /\ announced[o][k] + Cardinality(Pending(o, k)) <= Cardinality(CommittedAs(o, k))
    BY <1>1, SetsFinite DEF AnnounceInv
  <2>1. CASE o # q.order
    <3>1. Pending(o, k)' = Pending(o, k)
      BY <1>1, <1>3, <1>4, <2>1 DEF Pending
    <3>2. CommittedAs(o, k)' = CommittedAs(o, k)
      BY <1>1, <2>1 DEF CommittedAs, OrderTypeOK
    <3> QED
      BY <2>0, <3>1, <3>2
  <2>2. CASE o = q.order
    <3>1. PICK s \in Seq(Event) : s = trail[o]
      BY <1>1 DEF OrderTypeOK
    <3>2. trail'[o] = Append(s, e)
      BY <1>1, <1>6, <2>2, <3>1 DEF OrderTypeOK
    <3>3. /\ DOMAIN Append(s, e) = DOMAIN s \cup {Len(s) + 1}
          /\ Len(s) + 1 \notin DOMAIN s
          /\ Append(s, e)[Len(s) + 1] = e
          /\ \A i \in DOMAIN s : Append(s, e)[i] = s[i]
      BY Appended
    <3>4. e.from = q.seen /\ e.to = q.to
      BY <1>1, <1>6
    <3>5. CASE k \in Announcing(q)
      <4>1. k \in Announcing(p)
        BY <1>3, <3>5 DEF Announcing
      <4>2. Pending(o, k)' = Pending(o, k) \cup {h} /\ h \notin Pending(o, k)
        BY <1>1, <1>3, <1>4, <2>2, <4>1 DEF Pending
      <4>3. IF k = "placed" THEN e.from = None ELSE e.to = k
        BY <1>1, <3>4, <3>5 DEF Meant, Announcing
      <4>4. CommittedAs(o, k)' = CommittedAs(o, k) \cup {Len(s) + 1} /\ Len(s) + 1 \notin CommittedAs(o, k)
        BY <3>1, <3>2, <3>3, <4>3 DEF CommittedAs
      <4>5. /\ Cardinality(Pending(o, k)') = Cardinality(Pending(o, k)) + 1
            /\ Cardinality(CommittedAs(o, k)') = Cardinality(CommittedAs(o, k)) + 1
        BY <2>0, <4>2, <4>4, FS_AddElement
      <4> QED
        BY <2>0, <4>5
    <3>6. CASE k \notin Announcing(q)
      <4>1. k \notin Announcing(p)
        BY <1>3, <3>6 DEF Announcing
      <4>2. Pending(o, k)' = Pending(o, k)
        BY <1>1, <1>4, <4>1 DEF Pending
      <4>3. CommittedAs(o, k) \subseteq CommittedAs(o, k)'
        BY <3>1, <3>2, <3>3 DEF CommittedAs
      <4>4. IsFiniteSet(CommittedAs(o, k)') /\ Cardinality(CommittedAs(o, k)') \in Nat
        <5>1. OrderTypeOK' => IsFiniteSet(CommittedAs(o, k)') /\ Cardinality(CommittedAs(o, k)') \in Nat
          <6>1. CommittedAs(o, k)' \subseteq CommittedAs(o, k) \cup {Len(s) + 1}
            BY <3>1, <3>2, <3>3 DEF CommittedAs
          <6>2. IsFiniteSet(CommittedAs(o, k) \cup {Len(s) + 1})
            BY <2>0, FS_AddElement
          <6> QED
            BY <6>1, <6>2, FS_Subset, FS_CardinalityType
        <5> QED
          BY <1>1, <5>1
      <4>5. Cardinality(CommittedAs(o, k)) <= Cardinality(CommittedAs(o, k)')
        BY <4>3, <4>4, FS_Subset
      <4> QED
        BY <2>0, <4>2, <4>4, <4>5
    <3> QED
      BY <3>5, <3>6
  <2> QED
    BY <2>1, <2>2
<1> QED
  BY <1>1, <1>5, <1>7 DEF AnnounceInv

LEMMA EmitAnnounce ==
    ASSUME AnnounceInv, NEW h \in Handlers, Announce(h)
    PROVE  AnnounceInv'
<1> DEFINE q == req[h]
<1>1. /\ OrderTypeOK /\ OrderTypeOK' /\ UNCHANGED trail
      /\ q \in Transitions /\ q.pc = "announcing"
      /\ req' = [req EXCEPT ![h] = NoReq]
      /\ \A o \in Orders : \A k \in Keys :
            announced'[o][k] = IF o = q.order /\ k \in Announcing(q)
                               THEN announced[o][k] + 1 ELSE announced[o][k]
  BY EmitSteps DEF AnnounceInv
<1>2. req'[h] = NoReq /\ NoReq.pc = "idle" /\ \A g \in Handlers \ {h} : req'[g] = req[g]
  BY <1>1 DEF OrderTypeOK, NoReq
<1>3. \A g \in Handlers : Meant(req[g])'
  BY <1>2 DEF AnnounceInv, Meant, Transitions
<1>4. ASSUME NEW o \in Orders, NEW k \in Keys
      PROVE  announced'[o][k] + Cardinality(Pending(o, k)') <= Cardinality(CommittedAs(o, k)')
  <2>0. /\ IsFiniteSet(Pending(o, k))
        /\ Cardinality(Pending(o, k)) \in Nat /\ Cardinality(CommittedAs(o, k)) \in Nat
        /\ announced[o][k] \in Nat /\ CommittedAs(o, k)' = CommittedAs(o, k)
        /\ announced[o][k] + Cardinality(Pending(o, k)) <= Cardinality(CommittedAs(o, k))
    BY <1>1, SetsFinite DEF AnnounceInv, CommittedAs
  <2>1. CASE o = q.order /\ k \in Announcing(q)
    <3>0. h \in Pending(o, k) /\ h \notin Pending(o, k)'
      BY <1>1, <1>2, <2>1 DEF Pending
    <3>1. h \in Pending(o, k) /\ Pending(o, k)' = Pending(o, k) \ {h}
      BY <1>2, <3>0 DEF Pending
    <3>2. Cardinality(Pending(o, k)') = Cardinality(Pending(o, k)) - 1
      <4>1. PICK S : S = Pending(o, k) /\ IsFiniteSet(S) /\ h \in S
        BY <2>0, <3>1
      <4>2. Cardinality(S \ {h}) = Cardinality(S) - 1
        BY <4>1, FS_RemoveElement
      <4> QED
        BY <3>1, <4>1, <4>2
    <3>3. announced'[o][k] = announced[o][k] + 1
      BY <1>1, <2>1
    <3> QED
      BY <2>0, <3>2, <3>3
  <2>2. CASE ~(o = q.order /\ k \in Announcing(q))
    <3>1. Pending(o, k)' = Pending(o, k)
      BY <1>1, <1>2, <2>2 DEF Pending
    <3>2. announced'[o][k] = announced[o][k]
      BY <1>1, <2>2
    <3> QED
      BY <2>0, <3>1, <3>2
  <2> QED
    BY <2>1, <2>2
<1> QED
  BY <1>1, <1>3, <1>4 DEF AnnounceInv

LEMMA AnnounceInitially == OrderInit => AnnounceInv
<1> SUFFICES ASSUME OrderInit PROVE AnnounceInv
  OBVIOUS
<1>1. OrderTypeOK
  BY OrderInitTyped
<1>2. \A h \in Handlers : req[h].pc = "idle"
  BY DEF OrderInit, NoReq
<1>3. \A h \in Handlers : Meant(req[h])
  BY <1>2 DEF Meant, Transitions
<1>4. ASSUME NEW o \in Orders, NEW k \in Keys
      PROVE  announced[o][k] + Cardinality(Pending(o, k)) <= Cardinality(CommittedAs(o, k))
  <2>1. Pending(o, k) = {} /\ CommittedAs(o, k) = {} /\ announced[o][k] = 0
    BY <1>2 DEF Pending, CommittedAs, OrderInit
  <2> QED
    BY <2>1, FS_EmptySet
<1> QED
  BY <1>1, <1>3, <1>4 DEF AnnounceInv

LEMMA AnnounceStep == AnnounceInv /\ [OrderNext]_orderVars => AnnounceInv'
<1> SUFFICES ASSUME AnnounceInv, [OrderNext]_orderVars PROVE AnnounceInv'
  OBVIOUS
<1>0. OrderTypeOK /\ NoReq.pc = "idle" /\ Meant(NoReq)
  BY DEF AnnounceInv, Meant, Transitions, NoReq
<1>1. ASSUME NEW h \in Handlers, NEW q \in Request, Begins(h, q) PROVE AnnounceInv'
  <2>1. q.pc # "announcing" /\ Meant(q)
    BY <1>1 DEF Begins, Meant, Transitions, Patches
  <2> QED
    BY <1>0, <1>1, <2>1, BeginSteps, NothingPending
<1>2. ASSUME NEW h \in Handlers, ReserveLine(h) \/ ReleaseLine(h) \/ SkipLine(h) PROVE AnnounceInv'
  <2>1. PICK q : q = [req[h] EXCEPT !.line = req[h].line + 1]
    OBVIOUS
  <2>2. /\ OrderTypeOK' /\ UNCHANGED <<trail, announced>> /\ req' = [req EXCEPT ![h] = q]
        /\ q.pc # "announcing" /\ q.op = req[h].op /\ q.seen = req[h].seen /\ q.to = req[h].to
        /\ req[h] \in Transitions
    BY <1>0, <1>2, <2>1, LineSteps, TransitionGoesOn
  <2>3. Meant(q)
    BY <2>2 DEF AnnounceInv, Meant
  <2> QED
    BY <2>2, <2>3, NothingPending
<1>3. ASSUME NEW h \in Handlers, RefuseLine(h) \/ Fail(h) PROVE AnnounceInv'
  BY <1>0, <1>3, EndSteps, NothingPending
<1>4. ASSUME NEW h \in Handlers, SavePatch(h) PROVE AnnounceInv'
  BY <1>0, <1>4, PatchSteps, NothingPending
<1>5. CASE OrderTypeOK' /\ UNCHANGED orderCore
  <2>1. UNCHANGED <<trail, announced, req>>
    BY <1>5 DEF orderCore
  <2> QED
    BY <1>5, <2>1 DEF AnnounceInv, Meant, Pending, CommittedAs
<1> QED
  BY <1>0, <1>1, <1>2, <1>3, <1>4, <1>5, OrderSteps, SaveAnnounce, EmitAnnounce

(* Nobody is told of a transition that was not committed, however requests *)
(* overlap and wherever they fail.                                         *)
THEOREM OrdersAnnounced == OrderSpec => []AnnouncedIsCommitted
<1>1. AnnounceInv => AnnouncedIsCommitted
  <2> SUFFICES ASSUME AnnounceInv, NEW o \in Orders
               PROVE  /\ announced[o]["placed"]
                            <= Cardinality({i \in DOMAIN trail[o] : trail[o][i].from = None})
                      /\ \A k \in Keys \ {"placed"} : announced[o][k] <= Times(o, k)
    BY DEF AnnouncedIsCommitted
  <2>1. \A k \in Keys : announced[o][k] <= Cardinality(CommittedAs(o, k))
    BY SetsFinite DEF AnnounceInv
  <2>2. CommittedAs(o, "placed") = {i \in DOMAIN trail[o] : trail[o][i].from = None}
    BY DEF CommittedAs
  <2>3. \A k \in Keys \ {"placed"} : Cardinality(CommittedAs(o, k)) = Times(o, k)
    BY DEF CommittedAs, Times
  <2> QED
    BY <2>1, <2>2, <2>3 DEF Keys
<1> QED
  BY <1>1, AnnounceInitially, AnnounceStep, PTL DEF OrderSpec

-------------------------------------------------------------------------------
(* What the trail says *)

(* Where every status is saved with its event the trail tells of the       *)
(* status.  That it ends there as it is served needs more: the events      *)
(* are no later than the clock, the last one committed is served last,     *)
(* and of an order on which one save at most was open at a time, that save *)
(* began after every event there is and will leave the status it says.     *)
EndsAt(o) ==
    /\ status[o] = None => trail[o] = <<>>
    /\ status[o] # None => \E i \in DOMAIN trail[o] : trail[o][i].to = status[o]
    /\ \A i \in DOMAIN trail[o] : trail[o][i].at <= clock
    /\ o \notin mixed /\ trail[o] # <<>>
          => /\ trail[o][Len(trail[o])].to = status[o]
             /\ ServedLast(o, Len(trail[o]))

Unwritten(h) == save[h].pc = "compared" /\ ~save[h].writes

AloneOn(h, o) ==
    /\ \A i \in DOMAIN trail[o] : trail[o][i].at < save[h].at
    /\ \A g \in Handlers \ {h} : save[g] # NoSave => req[g].order # o
    /\ Unwritten(h) => status[o] = req[h].to

SaveFits(h) ==
    save[h] # NoSave =>
        /\ Decided(h) /\ save[h].at <= clock
        /\ Unwritten(h) => status[req[h].order] # None
        /\ req[h].order \notin mixed => AloneOn(h, req[h].order)

EndsFit == (\A o \in Orders : EndsAt(o)) /\ (\A h \in Handlers : SaveFits(h))

EndsInv == OrderTypeOK /\ EndsFit /\ \A h \in Handlers : req[h].pc # "patching"

LEMMA EndsFitFacts ==
    ASSUME OrderTypeOK, EndsFit
    PROVE  /\ TrailEndsAtStatus
           /\ \A h \in Handlers : ~Decided(h) => save[h] = NoSave
<1>1. \A h \in Handlers : ~Decided(h) => save[h] = NoSave
  BY DEF EndsFit, SaveFits
<1>2. ASSUME NEW o \in Orders
      PROVE  IF status[o] = None THEN trail[o] = <<>>
             ELSE \E i \in DOMAIN trail[o] :
                      trail[o][i].to = status[o] /\ (o \notin mixed => ServedLast(o, i))
  <2>1. EndsAt(o)
    BY DEF EndsFit
  <2>2. CASE status[o] = None
    BY <2>1, <2>2 DEF EndsAt
  <2>3. CASE status[o] # None /\ o \in mixed
    BY <2>1, <2>3 DEF EndsAt
  <2>4. CASE status[o] # None /\ o \notin mixed
    <3>1. PICK s \in Seq(Event) : s = trail[o]
      BY DEF OrderTypeOK
    <3>2. PICK i \in DOMAIN s : s[i].to = status[o]
      BY <2>1, <2>4, <3>1 DEF EndsAt
    <3>3. Len(s) \in Nat /\ DOMAIN s = 1..Len(s)
      BY LenProperties
    <3>4. Len(s) \in DOMAIN s /\ s # <<>>
      BY <3>2, <3>3
    <3> QED
      BY <2>1, <2>4, <3>1, <3>4 DEF EndsAt
  <2> QED
    BY <2>2, <2>3, <2>4
<1> QED
  BY <1>1, <1>2 DEF TrailEndsAtStatus

(* A step that leaves the orders alone, and every save either as it is or  *)
(* undone with its request.                                                *)
LEMMA EndsKept ==
    ASSUME OrderTypeOK, EndsFit, UNCHANGED <<status, trail, clock, mixed>>,
           \A g \in Handlers : save'[g] = NoSave \/ (save'[g] = save[g] /\ req'[g] = req[g])
    PROVE  EndsFit'
<1>1. \A o \in Orders : EndsAt(o)'
  BY DEF EndsFit, EndsAt, ServedLast
<1>2. ASSUME NEW g \in Handlers, save'[g] # NoSave PROVE SaveFits(g)'
  <2>1. save'[g] = save[g] /\ req'[g] = req[g] /\ SaveFits(g)
    BY <1>2 DEF EndsFit
  <2>2. Decided(g)' <=> Decided(g)
    BY <2>1 DEF Decided
  <2>3. Unwritten(g)' <=> Unwritten(g)
    BY <2>1 DEF Unwritten
  <2>4. AloneOn(g, req[g].order) => AloneOn(g, req[g].order)'
    BY <2>1, <2>3 DEF AloneOn
  <2> QED
    BY <2>1, <2>2, <2>3, <2>4 DEF SaveFits
<1> QED
  BY <1>1, <1>2 DEF EndsFit, SaveFits

LEMMA EndsKeptBy ==
    ASSUME OrderTypeOK, EndsFit, NEW h \in Handlers, ~Decided(h), NEW q,
           req' = [req EXCEPT ![h] = q], UNCHANGED <<status, trail, saving>>
    PROVE  EndsFit'
<1>1. save[h] = NoSave
  BY EndsFitFacts
<1>2. \A g \in Handlers \ {h} : req'[g] = req[g]
  BY DEF OrderTypeOK
<1> QED
  BY <1>1, <1>2, EndsKept DEF saving

LEMMA EndsUndone ==
    ASSUME OrderTypeOK, EndsFit, NEW h \in Handlers, RefuseLine(h) \/ Fail(h)
    PROVE  EndsFit'
<1>1. /\ UNCHANGED <<status, trail, clock, mixed>>
      /\ req' = [req EXCEPT ![h] = NoReq] /\ save' = [save EXCEPT ![h] = NoSave]
  BY EndSteps
<1>2. save'[h] = NoSave /\ \A g \in Handlers \ {h} : save'[g] = save[g] /\ req'[g] = req[g]
  BY <1>1 DEF OrderTypeOK
<1> QED
  BY <1>1, <1>2, EndsKept

(* A save that begins is later than every event; begun beside another on   *)
(* the same order it mixes the two.                                        *)
LEMMA EndsOpened ==
    ASSUME OrderTypeOK, EndsFit, NEW h \in Handlers, OpenSave(h)
    PROVE  EndsFit'
<1>1. /\ Decided(h) /\ save[h] = NoSave /\ clock' = clock + 1
      /\ mixed' = IF \E g \in Handlers : save[g] # NoSave /\ req[g].order = req[h].order
                  THEN mixed \cup {req[h].order} ELSE mixed
      /\ UNCHANGED <<status, trail, req>>
  BY DEF OpenSave
<1>2. /\ save'[h] = [pc |-> "begun", at |-> clock + 1]
      /\ \A g \in Handlers \ {h} : save'[g] = save[g]
  BY DEF OpenSave, OrderTypeOK
<1>3. save'[h].pc = "begun" /\ save'[h].at = clock + 1 /\ clock \in Nat /\ save'[h] # NoSave
  BY <1>2 DEF OrderTypeOK, NoSave
<1>4. \A o \in Orders : \A i \in DOMAIN trail[o] : trail[o][i].at \in Nat /\ trail[o][i].at <= clock
  <2>1. \A o \in Orders : \A i \in DOMAIN trail[o] : trail[o][i] \in Event
    BY ElementOfSeq, LenProperties DEF OrderTypeOK
  <2>2. \A o \in Orders : EndsAt(o)
    BY DEF EndsFit
  <2> QED
    BY <2>1, <2>2 DEF EndsAt, Event
<1>5. ASSUME NEW o \in Orders PROVE EndsAt(o)'
  <2>1. EndsAt(o)
    BY DEF EndsFit
  <2>2. \A i \in DOMAIN trail[o] : trail[o][i].at <= clock'
    BY <1>1, <1>3, <1>4
  <2> QED
    BY <1>1, <2>1, <2>2 DEF EndsAt, ServedLast
<1>6. SaveFits(h)'
  <2>1. Decided(h)' /\ ~Unwritten(h)' /\ save'[h].at <= clock'
    BY <1>1, <1>3 DEF Decided, Unwritten
  <2>2. req[h].order \in Orders
    BY <1>1, RequestIs DEF Decided, OrderTypeOK, Transitions
  <2>3. ASSUME req[h].order \notin mixed' PROVE AloneOn(h, req[h].order)'
    <3>1. \A g \in Handlers \ {h} : save'[g] # NoSave => req'[g].order # req[h].order
      BY <1>1, <1>2, <2>3
    <3>2. \A i \in DOMAIN trail'[req[h].order] : trail'[req[h].order][i].at < save'[h].at
      BY <1>1, <1>3, <1>4, <2>2
    <3> QED
      BY <1>1, <2>1, <3>1, <3>2 DEF AloneOn
  <2> QED
    BY <1>1, <2>1, <2>3 DEF SaveFits
<1>7. ASSUME NEW g \in Handlers \ {h}, save[g] # NoSave PROVE SaveFits(g)'
  <2>1. SaveFits(g) /\ save'[g] = save[g] /\ req'[g] = req[g] /\ save[g].at \in Nat
    BY <1>1, <1>2, <1>7, SaveIs DEF EndsFit
  <2>2. Decided(g)' /\ (Unwritten(g)' <=> Unwritten(g))
    BY <1>1, <1>7, <2>1 DEF Decided, Unwritten, SaveFits
  <2>3. save'[g].at <= clock'
    BY <1>1, <1>3, <1>7, <2>1 DEF SaveFits
  <2>4. ASSUME req[g].order \notin mixed' PROVE AloneOn(g, req[g].order)'
    <3>1. req[g].order \notin mixed /\ req[h].order # req[g].order
      BY <1>1, <1>7, <2>4
    <3>2. AloneOn(g, req[g].order)
      BY <1>7, <2>1, <3>1 DEF SaveFits
    <3>3. \A f \in Handlers \ {g} : save'[f] # NoSave => req'[f].order # req[g].order
      BY <1>1, <1>2, <3>1, <3>2 DEF AloneOn
    <3> QED
      BY <1>1, <2>1, <2>2, <3>2, <3>3 DEF AloneOn
  <2> QED
    BY <1>1, <1>7, <2>1, <2>2, <2>3, <2>4 DEF SaveFits
<1> QED
  BY <1>2, <1>5, <1>6, <1>7 DEF EndsFit, SaveFits

(* The look at the row: a save that will leave the status alone finds the  *)
(* one it wants.                                                           *)
LEMMA EndsCompared ==
    ASSUME OrderTypeOK, EndsFit, NEW h \in Handlers, CompareStatus(h)
    PROVE  EndsFit'
<1>1. /\ Decided(h) /\ save[h].pc = "begun" /\ save[h] # NoSave
      /\ UNCHANGED <<status, trail, req, clock, mixed>>
  BY SaveIs DEF CompareStatus
<1>2. PICK w \in BOOLEAN : w = (status[req[h].order] # req[h].to)
  OBVIOUS
<1>3. /\ save'[h] = [pc |-> "compared", at |-> save[h].at, writes |-> w]
      /\ \A g \in Handlers \ {h} : save'[g] = save[g]
  BY <1>2 DEF CompareStatus, OrderTypeOK
<1>4. save'[h].pc = "compared" /\ save'[h].at = save[h].at /\ save'[h].writes = w
  BY <1>3
<1>5. req[h].order \in Orders /\ req[h].to \in Status
  BY <1>1, RequestIs DEF Decided, OrderTypeOK, Transitions
<1>6. \A o \in Orders : EndsAt(o)'
  BY <1>1 DEF EndsFit, EndsAt, ServedLast
<1>7. Unwritten(h)' => status[req[h].order] = req[h].to
  BY <1>2, <1>4 DEF Unwritten
<1>8. SaveFits(h)'
  <2>1. SaveFits(h)
    BY DEF EndsFit
  <2>2. Decided(h)' /\ save'[h].at <= clock'
    BY <1>1, <1>4, <2>1 DEF Decided, SaveFits
  <2>3. Unwritten(h)' => status'[req[h].order] # None
    BY <1>1, <1>5, <1>7, StatusFacts
  <2>4. AloneOn(h, req[h].order) => AloneOn(h, req[h].order)'
    BY <1>1, <1>3, <1>4, <1>7 DEF AloneOn
  <2> QED
    BY <1>1, <2>1, <2>2, <2>3, <2>4 DEF SaveFits
<1>9. ASSUME NEW g \in Handlers \ {h}, save[g] # NoSave PROVE SaveFits(g)'
  <2>1. SaveFits(g) /\ save'[g] = save[g] /\ req'[g] = req[g]
    BY <1>1, <1>3 DEF EndsFit
  <2>2. Decided(g)' /\ (Unwritten(g)' <=> Unwritten(g))
    BY <1>1, <1>9, <2>1 DEF Decided, Unwritten, SaveFits
  <2>3. AloneOn(g, req[g].order) => AloneOn(g, req[g].order)'
    BY <1>1, <1>3, <2>1, <2>2 DEF AloneOn
  <2> QED
    BY <1>1, <1>9, <2>1, <2>2, <2>3 DEF SaveFits
<1> QED
  BY <1>3, <1>6, <1>8, <1>9 DEF EndsFit, SaveFits

(* The save appends an event that ends at the status it saves, or that it  *)
(* found there.                                                            *)
LEMMA EndsSaved ==
    ASSUME OrderTypeOK, EndsFit, NEW h \in Handlers, SaveTransition(h)
    PROVE  EndsFit'
<1>1. PICK p \in Orders, to \in Status, e \in Event, s \in Seq(Event) :
         /\ p = req[h].order /\ to = req[h].to
         /\ e.to = to /\ e.at = save[h].at /\ s = trail[p]
         /\ status' = [status EXCEPT ![p] = IF save[h].writes THEN to ELSE status[p]]
         /\ trail' = [trail EXCEPT ![p] = Append(s, e)]
  <2>1. req[h].order \in Orders /\ req[h].to \in Status /\ trail[req[h].order] \in Seq(Event)
    BY SaveSteps DEF Transitions, OrderTypeOK
  <2>2. PICK e \in Event : e = EventOf(h) /\ e.to = req[h].to /\ e.at = save[h].at
    BY SaveSteps
  <2>3. /\ status' = [status EXCEPT ![req[h].order] =
                        IF save[h].writes THEN req[h].to ELSE status[req[h].order]]
        /\ trail' = [trail EXCEPT ![req[h].order] = Append(trail[req[h].order], e)]
    BY <2>2, SaveSteps
  <2> QED
    BY <2>1, <2>2, <2>3
<1>2. /\ save[h].pc = "compared" /\ save[h] # NoSave /\ save[h].at \in Nat
      /\ clock' = clock /\ mixed' = mixed /\ clock \in Nat
      /\ save' = [save EXCEPT ![h] = NoSave] /\ to # None
  BY SaveSteps, StatusFacts DEF OrderTypeOK
<1>3. /\ save'[h] = NoSave
      /\ \A g \in Handlers \ {h} : save'[g] = save[g] /\ req'[g] = req[g]
  BY <1>2, SaveSteps DEF OrderTypeOK
<1>4. \A o \in Orders : IF o = p THEN /\ status'[o] = IF save[h].writes THEN to ELSE status[o]
                                      /\ trail'[o] = Append(s, e)
                        ELSE status'[o] = status[o] /\ trail'[o] = trail[o]
  BY <1>1 DEF OrderTypeOK
<1>5. /\ save[h].at <= clock
      /\ Unwritten(h) => status[p] # None
      /\ p \notin mixed => AloneOn(h, p)
  BY <1>1, <1>2 DEF EndsFit, SaveFits
<1>6. Unwritten(h) <=> ~save[h].writes
  BY <1>2 DEF Unwritten
<1>7. status'[p] # None
  BY <1>2, <1>4, <1>5, <1>6
<1>8. ASSUME NEW o \in Orders PROVE EndsAt(o)'
  <2>0. EndsAt(o)
    BY DEF EndsFit
  <2>1. CASE o # p
    BY <1>2, <1>4, <2>0, <2>1 DEF EndsAt, ServedLast
  <2>2. CASE o = p
    <3>1. /\ DOMAIN Append(s, e) = DOMAIN s \cup {Len(s) + 1}
          /\ Len(Append(s, e)) = Len(s) + 1
          /\ Append(s, e)[Len(s) + 1] = e
          /\ \A i \in DOMAIN s : Append(s, e)[i] = s[i]
      BY Appended
    <3>2. trail'[o] = Append(s, e)
      BY <1>4, <2>2
    <3>3. \E i \in DOMAIN trail'[o] : trail'[o][i].to = status'[o]
      <4>1. CASE save[h].writes
        BY <1>1, <1>4, <2>2, <3>1, <3>2, <4>1
      <4>2. CASE ~save[h].writes
        <5>1. PICK i \in DOMAIN s : s[i].to = status[o]
          BY <1>1, <1>5, <1>6, <2>0, <2>2, <4>2 DEF EndsAt
        <5> QED
          BY <1>4, <2>2, <3>1, <3>2, <4>2, <5>1
      <4> QED
        BY <4>1, <4>2
    <3>4. \A i \in DOMAIN trail'[o] : trail'[o][i].at <= clock'
      BY <1>1, <1>2, <1>5, <2>0, <2>2, <3>1, <3>2 DEF EndsAt
    <3>5. ASSUME o \notin mixed'
          PROVE  /\ trail'[o][Len(trail'[o])].to = status'[o]
                 /\ ServedLast(o, Len(trail[o]))'
      <4>1. AloneOn(h, p)
        BY <1>2, <1>5, <2>2, <3>5
      <4>2. status'[o] = to
        BY <1>1, <1>4, <1>6, <2>2, <4>1 DEF AloneOn
      <4>3. \A i \in DOMAIN s : s[i].at \in Nat /\ s[i].at < e.at
        <5>1. \A i \in DOMAIN s : s[i] \in Event
          BY ElementOfSeq, LenProperties
        <5> QED
          BY <1>1, <4>1, <5>1 DEF AloneOn, Event
      <4>4. \A i \in DOMAIN Append(s, e) : Append(s, e)[i].at <= e.at
        BY <1>1, <1>2, <3>1, <4>3
      <4> QED
        BY <1>1, <3>1, <3>2, <4>2, <4>4 DEF ServedLast
    <3> QED
      BY <1>7, <2>2, <3>3, <3>4, <3>5 DEF EndsAt
  <2> QED
    BY <2>1, <2>2
<1>9. ASSUME NEW g \in Handlers \ {h}, save[g] # NoSave PROVE SaveFits(g)'
  <2>1. SaveFits(g) /\ save'[g] = save[g] /\ req'[g] = req[g]
    BY <1>3 DEF EndsFit
  <2>2. Decided(g)' /\ (Unwritten(g)' <=> Unwritten(g))
    BY <1>9, <2>1 DEF Decided, Unwritten, SaveFits
  <2>3. req[g].order \in Orders
    BY <1>9, <2>1, RequestIs DEF SaveFits, Decided, OrderTypeOK, Transitions
  <2>4. Unwritten(g)' => status'[req[g].order] # None
    BY <1>4, <1>7, <1>9, <2>1, <2>2, <2>3 DEF SaveFits
  <2>5. ASSUME req[g].order \notin mixed' PROVE AloneOn(g, req[g].order)'
    <3>1. AloneOn(g, req[g].order)
      BY <1>2, <1>9, <2>1, <2>5 DEF SaveFits
    <3>2. req[g].order # p
      BY <1>1, <1>2, <3>1 DEF AloneOn
    <3> QED
      BY <1>3, <1>4, <2>1, <2>2, <2>3, <3>1, <3>2 DEF AloneOn
  <2> QED
    BY <1>2, <1>9, <2>1, <2>2, <2>4, <2>5 DEF SaveFits
<1> QED
  BY <1>3, <1>8, <1>9 DEF EndsFit, SaveFits

LEMMA EndsInitially == OrderInit => EndsFit
<1> SUFFICES ASSUME OrderInit PROVE EndsFit
  OBVIOUS
<1>1. ASSUME NEW o \in Orders PROVE EndsAt(o)
  <2>1. status[o] = None /\ trail[o] = <<>> /\ DOMAIN trail[o] = {}
    BY DEF OrderInit
  <2> QED
    BY <2>1 DEF EndsAt
<1>2. ASSUME NEW h \in Handlers PROVE SaveFits(h)
  BY DEF OrderInit, SaveFits
<1> QED
  BY <1>1, <1>2 DEF EndsFit

(* The trail of an order tells of the status it is in, whichever requests  *)
(* overlap or fail, and is served ending there unless two saves of it were *)
(* open at once; as long as nobody changes a status by PATCH.              *)
THEOREM OrdersTrailEnds ==
    ASSUME PatchStatuses = {}
    PROVE  OrderSpec => []TrailEndsAtStatus
<1>1. OrderInit => EndsInv
  BY OrderInitTyped, EndsInitially DEF OrderInit, NoReq, EndsInv
<1>2. EndsInv /\ [OrderNext]_orderVars => EndsInv'
  <2> SUFFICES ASSUME EndsInv, [OrderNext]_orderVars PROVE EndsInv'
    OBVIOUS
  <2>0. OrderTypeOK /\ EndsFit /\ NoReq.pc = "idle"
    BY DEF EndsInv, NoReq
  <2> DEFINE Quiet == \A h \in Handlers : req'[h].pc # "patching"
  <2>1. ASSUME NEW h \in Handlers, NEW q, req' = [req EXCEPT ![h] = q], q.pc # "patching"
        PROVE  Quiet
    BY <2>1 DEF EndsInv, OrderTypeOK
  <2>2. ASSUME NEW h \in Handlers, NEW q \in Request, Begins(h, q) PROVE EndsInv'
    <3>1. q.pc # "patching"
      BY <2>2 DEF Begins, Transitions
    <3>2. Quiet
      BY <2>0, <2>1, <2>2, <3>1, BeginSteps
    <3>3. EndsFit'
      BY <2>0, <2>2, BeginSteps, EndsKeptBy
    <3> QED
      BY <2>0, <2>2, <3>2, <3>3, BeginSteps DEF EndsInv
  <2>3. ASSUME NEW h \in Handlers, ReserveLine(h) \/ ReleaseLine(h) \/ SkipLine(h) PROVE EndsInv'
    <3>1. PICK q : q = [req[h] EXCEPT !.line = req[h].line + 1]
      OBVIOUS
    <3>2. req' = [req EXCEPT ![h] = q] /\ q.pc # "patching"
      BY <2>0, <2>3, <3>1, LineSteps, TransitionGoesOn
    <3>3. Quiet
      BY <2>1, <3>2
    <3>4. EndsFit'
      BY <2>0, <2>3, <3>2, LineSteps, EndsKeptBy
    <3> QED
      BY <2>0, <2>3, <3>3, <3>4, LineSteps DEF EndsInv
  <2>4. ASSUME NEW h \in Handlers, RefuseLine(h) \/ Fail(h) PROVE EndsInv'
    <3>1. Quiet
      BY <2>0, <2>1, <2>4, EndSteps
    <3> QED
      BY <2>0, <2>4, <3>1, EndSteps, EndsUndone DEF EndsInv
  <2>5. ASSUME NEW h \in Handlers, SaveTransition(h) PROVE EndsInv'
    <3>1. PICK q : q = [req[h] EXCEPT !.pc = "announcing"]
      OBVIOUS
    <3>2. req' = [req EXCEPT ![h] = q] /\ q.pc # "patching"
      BY <2>0, <2>5, <3>1, SaveSteps, TransitionGoesOn
    <3>3. Quiet
      BY <2>1, <3>2
    <3> QED
      BY <2>0, <2>5, <3>3, SaveSteps, EndsSaved DEF EndsInv
  <2>6. ASSUME NEW h \in Handlers, Announce(h) PROVE EndsInv'
    <3>1. Quiet
      BY <2>0, <2>1, <2>6, EmitSteps
    <3>2. EndsFit'
      BY <2>0, <2>6, EmitSteps, EndsKeptBy
    <3> QED
      BY <2>0, <2>6, <3>1, <3>2, EmitSteps DEF EndsInv
  <2>7. ASSUME NEW h \in Handlers, SavePatch(h) PROVE EndsInv'
    BY <2>7 DEF SavePatch, EndsInv
  <2>8. ASSUME NEW h \in Handlers, OpenSave(h) \/ CompareStatus(h) PROVE EndsInv'
    BY <2>0, <2>8, OpenSteps, EndsOpened, EndsCompared DEF EndsInv, orderCore
  <2>9. CASE OrderTypeOK' /\ UNCHANGED orderOnly
    BY <2>0, <2>9, EndsKept DEF orderOnly, saving, EndsInv
  <2> QED
    BY <2>0, <2>2, <2>3, <2>4, <2>5, <2>6, <2>7, <2>8, <2>9, SavingSteps
<1>3. EndsInv => TrailEndsAtStatus
  BY EndsFitFacts DEF EndsInv
<1> QED
  BY <1>1, <1>2, <1>3, PTL DEF OrderSpec

(* A request alone decides from the status the order still has.            *)
Current(q) ==
    /\ q.pc \in {"reserving", "releasing", "saving", "patching"} => q.seen = status[q.order]
    /\ q.pc = "patching" => q.to = Same /\ q.seen # None

SerialInv(h) ==
    /\ OrderTypeOK /\ EndsFit /\ mixed = {} /\ TrailIsChain
    /\ Current(req[h])

(* The save appends an event that starts at the status it replaces.        *)
LEMMA ChainSaved ==
    ASSUME NEW h, Handlers = {h}, SerialInv(h), SaveTransition(h)
    PROVE  TrailIsChain'
<1>0. h \in Handlers /\ OrderTypeOK /\ EndsFit
  BY DEF SerialInv
<1>1. PICK p \in Orders, e \in Event, s \in Seq(Event) :
         /\ e.from = status[p] /\ s = trail[p] /\ trail' = [trail EXCEPT ![p] = Append(s, e)]
         /\ \A i \in DOMAIN s : s[i].at < e.at
  <2>1. req[h].order \in Orders /\ trail[req[h].order] \in Seq(Event)
    BY <1>0, SaveSteps DEF Transitions, OrderTypeOK
  <2>2. PICK e \in Event : e = EventOf(h) /\ e.from = req[h].seen /\ e.at = save[h].at
    BY <1>0, SaveSteps
  <2>3. req[h].seen = status[req[h].order]
    BY <1>0, SaveSteps DEF SerialInv, Current, Transitions
  <2>4. trail' = [trail EXCEPT ![req[h].order] = Append(trail[req[h].order], e)]
    BY <1>0, <2>2, SaveSteps
  <2>5. \A i \in DOMAIN trail[req[h].order] : trail[req[h].order][i].at < e.at
    BY <1>0, <2>2, SaveSteps DEF SerialInv, EndsFit, SaveFits, AloneOn
  <2> QED
    BY <2>1, <2>2, <2>3, <2>4, <2>5
<1>2. \A o \in Orders \ {p} : trail'[o] = trail[o]
  BY <1>0, <1>1 DEF OrderTypeOK
<1>3. trail'[p] = Append(s, e)
  BY <1>0, <1>1 DEF OrderTypeOK
<1>4. \A i \in DOMAIN s : /\ s[i].from = IF i = 1 THEN None ELSE s[i - 1].to
                          /\ i # 1 => s[i].at > s[i - 1].at
  BY <1>1 DEF SerialInv, TrailIsChain
<1>5. e.from = IF Len(s) + 1 = 1 THEN None ELSE s[Len(s)].to
  <2>0. EndsAt(p) /\ p \notin mixed
    BY DEF SerialInv, EndsFit
  <2>1. CASE Len(s) = 0
    <3>1. trail[p] = <<>>
      BY <1>1, <2>1, EmptySeq
    <3>2. status[p] = None
      BY <2>0, <3>1 DEF EndsAt
    <3> QED
      BY <1>1, <2>1, <3>2
  <2>2. CASE Len(s) # 0
    <3>1. s # <<>> /\ Len(s) \in Nat
      BY <2>2, LenProperties
    <3> QED
      BY <1>1, <2>0, <2>2, <3>1 DEF EndsAt
  <2> QED
    BY <2>1, <2>2
<1>6. ASSUME NEW i \in DOMAIN Append(s, e)
      PROVE  /\ Append(s, e)[i].from = IF i = 1 THEN None ELSE Append(s, e)[i - 1].to
             /\ i # 1 => Append(s, e)[i].at > Append(s, e)[i - 1].at
  <2>0. /\ DOMAIN Append(s, e) = DOMAIN s \cup {Len(s) + 1}
        /\ Len(s) \in Nat /\ DOMAIN s = 1..Len(s)
        /\ Append(s, e)[Len(s) + 1] = e
        /\ \A j \in DOMAIN s : Append(s, e)[j] = s[j]
    BY Appended
  <2>1. CASE i \in DOMAIN s
    <3>1. i # 1 => i - 1 \in DOMAIN s
      BY <2>0, <2>1
    <3> QED
      BY <1>4, <2>0, <2>1, <3>1
  <2>2. CASE i = Len(s) + 1
    <3>1. i # 1 => i - 1 \in DOMAIN s /\ i - 1 = Len(s)
      BY <2>0, <2>2
    <3>2. i # 1 => s[i - 1].at \in Nat /\ e.at \in Nat /\ s[i - 1].at < e.at
      <4>1. i # 1 => s[i - 1] \in Event
        BY <2>0, <3>1, ElementOfSeq
      <4> QED
        BY <1>1, <3>1, <4>1 DEF Event
    <3>3. Append(s, e)[i] = e
      BY <2>0, <2>2
    <3>4. CASE i = 1
      BY <1>5, <2>2, <3>3, <3>4
    <3>5. CASE i # 1
      <4>1. PICK j \in DOMAIN s : j = i - 1 /\ j = Len(s)
        BY <3>1, <3>5
      <4>2. Append(s, e)[j] = s[j]
        BY <2>0
      <4>3. e.from = s[j].to /\ s[j].at < e.at
        BY <1>5, <2>0, <2>2, <3>2, <3>5, <4>1
      <4>4. s[j].at \in Nat /\ e.at \in Nat
        BY <3>2, <3>5, <4>1
      <4> QED
        BY <3>3, <3>5, <4>1, <4>2, <4>3, <4>4
    <3> QED
      BY <3>4, <3>5
  <2> QED
    BY <2>0, <2>1, <2>2
<1>7. ASSUME NEW o \in Orders, NEW i \in DOMAIN trail'[o]
      PROVE  /\ trail'[o][i].from = IF i = 1 THEN None ELSE trail'[o][i - 1].to
             /\ i # 1 => trail'[o][i].at > trail'[o][i - 1].at
  <2>1. CASE o = p
    BY <1>3, <1>6, <2>1
  <2>2. CASE o # p
    BY <1>2, <2>2 DEF SerialInv, TrailIsChain
  <2> QED
    BY <2>1, <2>2
<1> QED
  BY <1>7 DEF TrailIsChain

(* When requests come one after another, wherever they fail, and a PATCH   *)
(* changes no status, the trail of an order is a chain that starts from    *)
(* nothing, where every event starts at the status the one before it left, *)
(* is later than it, and the last one ends at the status there is.         *)
THEOREM OrdersChain ==
    ASSUME NEW h, Handlers = {h}, PatchStatuses \subseteq {Same}
    PROVE  OrderSpec => [](TrailIsChain /\ TrailEndsAtStatus)
<1>1. OrderInit => SerialInv(h)
  <2>1. OrderInit => TrailIsChain /\ Current(req[h]) /\ mixed = {}
    BY DEF OrderInit, NoReq, TrailIsChain, Current
  <2> QED
    BY <2>1, OrderInitTyped, EndsInitially DEF SerialInv
<1>2. SerialInv(h) /\ [OrderNext]_orderVars => SerialInv(h)'
  <2> SUFFICES ASSUME SerialInv(h), [OrderNext]_orderVars PROVE SerialInv(h)'
    OBVIOUS
  <2>0. /\ h \in Handlers /\ OrderTypeOK /\ EndsFit /\ mixed = {} /\ TrailIsChain
        /\ NoReq.pc = "idle" /\ Current(req[h])
    BY DEF SerialInv, NoReq
  <2>1. ASSUME UNCHANGED <<status, trail, mixed>>, EndsFit', OrderTypeOK', Current(req[h])'
        PROVE  SerialInv(h)'
    BY <2>0, <2>1 DEF SerialInv, TrailIsChain
  <2>2. ASSUME NEW q \in Request, Begins(h, q) PROVE SerialInv(h)'
    <3>1. req'[h] = q /\ UNCHANGED <<status, trail, mixed>> /\ OrderTypeOK'
      BY <2>0, <2>2, BeginSteps DEF OrderTypeOK, saving
    <3>2. status[q.order] = q.seen
      BY <2>2 DEF Begins
    <3>3. q.pc = "patching" => q.to = Same /\ q.seen # None
      BY <2>2, StatusFacts DEF Begins, Transitions, Patches
    <3>4. EndsFit'
      BY <2>0, <2>2, BeginSteps, EndsKeptBy
    <3> QED
      BY <2>1, <3>1, <3>2, <3>3, <3>4 DEF Current
  <2>3. ASSUME ReserveLine(h) \/ ReleaseLine(h) \/ SkipLine(h) PROVE SerialInv(h)'
    <3>1. PICK q : q = [req[h] EXCEPT !.line = req[h].line + 1]
      OBVIOUS
    <3>2. /\ UNCHANGED <<status, trail, saving>> /\ OrderTypeOK' /\ req[h] \in Transitions
          /\ req' = [req EXCEPT ![h] = q] /\ ~Decided(h)
      BY <2>0, <2>3, <3>1, LineSteps
    <3>3. req'[h] = q
      BY <2>0, <3>2 DEF OrderTypeOK
    <3>4. /\ q.pc = req[h].pc /\ q.order = req[h].order /\ q.seen = req[h].seen
          /\ q.to = req[h].to
      BY <3>1, <3>2, TransitionGoesOn
    <3>5. EndsFit'
      BY <2>0, <3>2, EndsKeptBy
    <3> QED
      BY <2>0, <2>1, <3>2, <3>3, <3>4, <3>5 DEF Current, saving
  <2>4. ASSUME RefuseLine(h) \/ Fail(h) \/ Announce(h) PROVE SerialInv(h)'
    <3>1. UNCHANGED <<status, trail, mixed>> /\ OrderTypeOK' /\ req'[h] = NoReq
      BY <2>0, <2>4, EndSteps, EmitSteps DEF OrderTypeOK, saving
    <3>2. EndsFit'
      BY <2>0, <2>4, EmitSteps, EndsUndone, EndsKeptBy
    <3> QED
      BY <2>0, <2>1, <3>1, <3>2 DEF Current
  <2>5. ASSUME SaveTransition(h) PROVE SerialInv(h)'
    <3>0. PICK q : q = [req[h] EXCEPT !.pc = "announcing"]
      OBVIOUS
    <3>1. /\ OrderTypeOK' /\ req[h] \in Transitions /\ mixed' = mixed
          /\ req' = [req EXCEPT ![h] = q]
      BY <2>0, <2>5, <3>0, SaveSteps
    <3>3. q.pc = "announcing"
      BY <3>0, <3>1, TransitionGoesOn
    <3>4. req'[h].pc = "announcing"
      BY <2>0, <3>1, <3>3 DEF OrderTypeOK
    <3>2. EndsFit' /\ TrailIsChain'
      BY <2>0, <2>5, EndsSaved, ChainSaved
    <3> QED
      BY <2>0, <3>1, <3>2, <3>4 DEF SerialInv, Current
  <2>6. ASSUME SavePatch(h) PROVE SerialInv(h)'
    <3>1. /\ OrderTypeOK' /\ UNCHANGED <<trail, saving>> /\ req'[h] = NoReq /\ req[h] \in Patches
          /\ req' = [req EXCEPT ![h] = NoReq] /\ ~Decided(h)
          /\ status' = [status EXCEPT ![req[h].order] =
                           IF req[h].to = Same THEN req[h].seen ELSE req[h].to]
      BY <2>0, <2>6, PatchSteps DEF OrderTypeOK
    <3>2. status' = status
      BY <2>0, <3>1 DEF Current, Patches, OrderTypeOK
    <3>3. EndsFit'
      BY <2>0, <3>1, <3>2, EndsKeptBy
    <3> QED
      BY <2>0, <2>1, <3>1, <3>2, <3>3 DEF Current, saving
  <2>7. ASSUME OpenSave(h) \/ CompareStatus(h) PROVE SerialInv(h)'
    <3>1. OrderTypeOK' /\ UNCHANGED <<status, trail, req>> /\ EndsFit'
      BY <2>0, <2>7, OpenSteps, EndsOpened, EndsCompared DEF orderCore
    <3>2. mixed' = mixed
      BY <2>0, <2>7 DEF OpenSave, CompareStatus
    <3> QED
      BY <2>0, <2>1, <3>1, <3>2 DEF Current
  <2>8. CASE OrderTypeOK' /\ UNCHANGED orderOnly
    <3>1. EndsFit'
      BY <2>0, <2>8, EndsKept DEF orderOnly, saving
    <3> QED
      BY <2>0, <2>1, <2>8, <3>1 DEF orderOnly, saving, Current
  <2> QED
    BY <2>0, <2>2, <2>3, <2>4, <2>5, <2>6, <2>7, <2>8, SavingSteps
<1>3. SerialInv(h) => TrailIsChain /\ TrailEndsAtStatus
  BY EndsFitFacts DEF SerialInv
<1> QED
  BY <1>1, <1>2, <1>3, PTL DEF OrderSpec

-------------------------------------------------------------------------------
(* The inventory beneath the orders *)

(* OrderService's reservations and releases, the staff's adjustments and   *)
(* the feed's runs lose none of each other: what a row counts as reserved  *)
(* is what its callers were told they hold, also when requests are refused *)
(* halfway or die.                                                         *)
THEOREM OrdersReservedIsHeld == OrderSpec => []ReservedIsHeld
<1>1. OrderInit => InventoryInv
  <2> SUFFICES ASSUME OrderInit PROVE InventoryInv
    OBVIOUS
  <2>1. TypeOK
    BY OrderInitTyped DEF OrderTypeOK
  <2> QED
    BY <2>1 DEF OrderInit, InventoryInv, ReservedIsHeld
<1>2. OrderTypeOK /\ InventoryInv /\ [OrderNext]_orderVars => InventoryInv'
  <2> SUFFICES ASSUME OrderTypeOK, InventoryInv, [OrderNext]_orderVars PROVE InventoryInv'
    OBVIOUS
  <2>1. ASSUME NEW h \in Handlers, ReserveLine(h) PROVE InventoryInv'
    BY <2>1, LineIs, MutateKeeps DEF ReserveLine
  <2>2. ASSUME NEW h \in Handlers, ReleaseLine(h) PROVE InventoryInv'
    BY <2>2, LineIs, MutateKeeps DEF ReleaseLine
  <2>3. ASSUME UNCHANGED <<rows, held>> PROVE InventoryInv'
    BY <2>3 DEF InventoryInv, TypeOK, ReservedIsHeld
  <2>4. ASSUME NEW h \in Handlers,
               \/ \E q \in Request : Begins(h, q)
               \/ SkipLine(h) \/ RefuseLine(h) \/ Fail(h)
               \/ OpenSave(h) \/ CompareStatus(h)
               \/ SaveTransition(h) \/ Announce(h) \/ SavePatch(h)
        PROVE  InventoryInv'
    BY <2>3, <2>4
       DEF Begins, Begin, SkipLine, RefuseLine, Fail, End, OpenSave, CompareStatus,
           SaveTransition, EndSave, Announce, SavePatch
  <2>5. CASE \/ \E r \in RowIds, cmd \in StaffCommands : StaffMutate(r, cmd)
             \/ \E levels \in Feeds : SyncUpsert(levels)
             \/ \E delisted \in SUBSET RowIds : SyncDelist(delisted)
    BY <2>5, MutateKeeps, UpsertKeeps, ZeroOutKeeps, CommandsTyped, OrderAssumption
       DEF StaffMutate, SyncUpsert, SyncDelist
  <2>6. CASE OrderNext
    BY <2>1, <2>2, <2>4, <2>5, <2>6, BeginIs DEF OrderNext, HandlerStep
  <2>7. CASE UNCHANGED orderVars
    BY <2>3, <2>7 DEF orderVars
  <2> QED
    BY <2>6, <2>7
<1>3. InventoryInv => ReservedIsHeld
  BY DEF InventoryInv
<1> QED
  BY <1>1, <1>2, <1>3, OrdersTyped, PTL DEF OrderSpec

-------------------------------------------------------------------------------
(* Sums.  Need adds up the lines of an order with the library's fold, which *)
(* is a function defined by recursion over the subsets of what is summed.  *)

(* Induction on a finite set, the property as the set of the sets that     *)
(* have it: a set that lacked it would have a smallest subset lacking it.  *)
LEMMA SubsetInduction ==
    ASSUME NEW S, IsFiniteSet(S), NEW F,
           \A T \in SUBSET S : (\A U \in (SUBSET T) \ {T} : U \in F) => T \in F
    PROVE  \A T \in SUBSET S : T \in F
<1> DEFINE Bad == {T \in SUBSET S : T \notin F}
<1>1. IsWellFoundedOn(StrictSubsetOrdering(S), SUBSET S)
  BY FS_StrictSubsetOrderingWellFounded, FS_FiniteSubsetsOfFinite
<1>2. SUFFICES ASSUME Bad # {} PROVE FALSE
  OBVIOUS
<1>3. PICK T \in Bad : \A U \in Bad : <<U, T>> \notin StrictSubsetOrdering(S)
  <2>1. Bad \subseteq SUBSET S
    OBVIOUS
  <2> HIDE DEF Bad
  <2> QED
    BY <1>1, <1>2, <2>1, WFMin
<1>4. ASSUME NEW U \in (SUBSET T) \ {T} PROVE U \in F
  <2>1. <<U, T>> \in StrictSubsetOrdering(S)
    BY DEF StrictSubsetOrdering
  <2> QED
    BY <1>3, <2>1
<1> QED
  BY <1>4

(* The table the library's fold computes: the sum of f over every subset,  *)
(* one chosen element at a time.                                           *)
Chosen(s) == CHOOSE x \in s : TRUE

SumTable(f, S, g) ==
    g = [s \in SUBSET S |-> IF s = {} THEN 0 ELSE f[Chosen(s)] + g[s \ {Chosen(s)}]]

LEMMA SumIsTable ==
    ASSUME NEW f, NEW S
    PROVE  SumFunctionOnSet(f, S) = (CHOOSE g : SumTable(f, S, g))[S]
  BY SMT DEF SumFunctionOnSet, FoldFunctionOnSet, MapThenFoldSet, SumTable, Chosen

LEMMA ChosenIn ==
    ASSUME NEW s, s # {}
    PROVE  Chosen(s) \in s
  BY DEF Chosen

(* Two tables agree wherever both are defined.                             *)
LEMMA TablesAgree ==
    ASSUME NEW f, NEW S, NEW T \in SUBSET S, IsFiniteSet(S), NEW g, NEW h,
           SumTable(f, S, g), SumTable(f, T, h)
    PROVE  \A s \in SUBSET T : g[s] = h[s]
<1> DEFINE F == {s \in SUBSET T : g[s] = h[s]}
<1>1. ASSUME NEW s \in SUBSET T, \A U \in (SUBSET s) \ {s} : U \in F PROVE s \in F
  <2>1. CASE s = {}
    BY <2>1 DEF SumTable
  <2>2. CASE s # {}
    <3>1. Chosen(s) \in s
      BY <2>2, ChosenIn
    <3>2. s \ {Chosen(s)} \in (SUBSET s) \ {s}
      BY <3>1
    <3>3. g[s \ {Chosen(s)}] = h[s \ {Chosen(s)}]
      BY <1>1, <3>2
    <3>4. g[s] = f[Chosen(s)] + g[s \ {Chosen(s)}]
      BY <2>2 DEF SumTable
    <3>5. h[s] = f[Chosen(s)] + h[s \ {Chosen(s)}]
      BY <2>2 DEF SumTable
    <3> QED
      BY <3>3, <3>4, <3>5
  <2> QED
    BY <2>1, <2>2
<1>2. IsFiniteSet(T)
  BY FS_Subset
<1> HIDE DEF F
<1>3. \A s \in SUBSET T : s \in F
  BY <1>1, <1>2, SubsetInduction
<1> QED
  BY <1>3 DEF F

(* There is a table over every finite set: it is put together from those   *)
(* of the smaller sets.                                                    *)
LEMMA TableExists ==
    ASSUME NEW f, NEW S, IsFiniteSet(S)
    PROVE  \E g : SumTable(f, S, g)
<1> DEFINE F == {T \in SUBSET S : \E g : SumTable(f, T, g)}
<1>1. ASSUME NEW T \in SUBSET S, \A U \in (SUBSET T) \ {T} : U \in F PROVE T \in F
  <2> DEFINE Tab(U) == CHOOSE g : SumTable(f, U, g)
             Rest(s) == s \ {Chosen(s)}
             h == [s \in SUBSET T |-> IF s = {} THEN 0 ELSE f[Chosen(s)] + Tab(Rest(s))[Rest(s)]]
  <2>1. ASSUME NEW U \in (SUBSET T) \ {T} PROVE SumTable(f, U, Tab(U))
    BY <1>1
  <2>2. ASSUME NEW s \in SUBSET T, s # {} PROVE Rest(s) \in (SUBSET T) \ {T}
    <3>1. Chosen(s) \in s
      BY <2>2, ChosenIn
    <3> QED
      BY <3>1
  <2>3. ASSUME NEW U \in (SUBSET T) \ {T} PROVE h[U] = Tab(U)[U]
    <3>1. CASE U = {}
      <4>1. h[U] = 0
        BY <3>1
      <4>2. SumTable(f, U, Tab(U))
        BY <2>1
      <4> HIDE DEF Tab, h
      <4>3. Tab(U)[U] = 0
        BY <3>1, <4>2 DEF SumTable
      <4> QED
        BY <4>1, <4>3
    <3>2. CASE U # {}
      <4>1. Rest(U) \in (SUBSET T) \ {T} /\ Rest(U) \in SUBSET U
        BY <2>2, <3>2
      <4>2. IsFiniteSet(U)
        BY FS_Subset
      <4>3. SumTable(f, U, Tab(U)) /\ SumTable(f, Rest(U), Tab(Rest(U)))
        BY <2>1, <4>1
      <4> HIDE DEF Tab, Rest
      <4>4. Tab(U)[Rest(U)] = Tab(Rest(U))[Rest(U)]
        BY <4>1, <4>2, <4>3, TablesAgree
      <4>5. Tab(U)[U] = f[Chosen(U)] + Tab(U)[Rest(U)]
        BY <3>2, <4>3 DEF SumTable, Rest
      <4> QED
        BY <3>2, <4>4, <4>5
    <3> QED
      BY <3>1, <3>2
  <2>4. ASSUME NEW s \in SUBSET T, s # {} PROVE h[Rest(s)] = Tab(Rest(s))[Rest(s)]
    BY <2>2, <2>3, <2>4
  <2>5. h = [s \in SUBSET T |-> IF s = {} THEN 0 ELSE f[Chosen(s)] + h[Rest(s)]]
    <3> DEFINE k == [s \in SUBSET T |-> IF s = {} THEN 0 ELSE f[Chosen(s)] + h[Rest(s)]]
    <3>1. \A s \in SUBSET T : h[s] = k[s]
      <4> HIDE DEF Tab, Rest
      <4> QED
        BY <2>4
    <3> QED
      BY <3>1
  <2>6. SumTable(f, T, h)
    BY <2>5 DEF SumTable
  <2> QED
    BY <2>6
<1> HIDE DEF F
<1>2. \A T \in SUBSET S : T \in F
  BY <1>1, SubsetInduction
<1> QED
  BY <1>2 DEF F

(* The sum, one chosen element at a time.                                  *)
LEMMA SumStep ==
    ASSUME NEW f, NEW S, IsFiniteSet(S)
    PROVE  SumFunctionOnSet(f, S) =
               IF S = {} THEN 0 ELSE f[Chosen(S)] + SumFunctionOnSet(f, S \ {Chosen(S)})
<1> DEFINE Tab(U) == CHOOSE g : SumTable(f, U, g)
<1>0. PICK R \in SUBSET S : R = S \ {Chosen(S)}
  OBVIOUS
<1>5. IsFiniteSet(R)
  BY FS_Subset
<1>1. SumTable(f, S, Tab(S)) /\ SumTable(f, R, Tab(R))
  BY <1>5, TableExists
<1>2. SumFunctionOnSet(f, S) = Tab(S)[S] /\ SumFunctionOnSet(f, R) = Tab(R)[R]
  BY SumIsTable
<1> HIDE DEF Tab
<1>3. Tab(S)[R] = Tab(R)[R]
  BY <1>1, TablesAgree
<1>4. Tab(S)[S] = IF S = {} THEN 0 ELSE f[Chosen(S)] + Tab(S)[R]
  BY <1>0, <1>1 DEF SumTable
<1> QED
  BY <1>0, <1>2, <1>3, <1>4

LEMMA SumEmpty == ASSUME NEW f PROVE SumFunctionOnSet(f, {}) = 0
  BY SumStep, FS_EmptySet

LEMMA SumType ==
    ASSUME NEW D, NEW f \in [D -> Int], NEW S \in SUBSET D, IsFiniteSet(S)
    PROVE  SumFunctionOnSet(f, S) \in Int
<1> DEFINE F == {T \in SUBSET S : SumFunctionOnSet(f, T) \in Int}
<1>1. ASSUME NEW T \in SUBSET S, \A U \in (SUBSET T) \ {T} : U \in F PROVE T \in F
  <2>1. IsFiniteSet(T)
    BY FS_Subset
  <2>2. CASE T = {}
    BY <2>2, SumEmpty
  <2>3. CASE T # {}
    <3>1. Chosen(T) \in T
      BY <2>3, ChosenIn
    <3>2. SumFunctionOnSet(f, T \ {Chosen(T)}) \in Int
      BY <1>1, <3>1
    <3>3. SumFunctionOnSet(f, T) = f[Chosen(T)] + SumFunctionOnSet(f, T \ {Chosen(T)})
      BY <2>1, <2>3, SumStep
    <3> QED
      BY <3>1, <3>2, <3>3
  <2> QED
    BY <2>2, <2>3
<1> HIDE DEF F
<1>2. \A T \in SUBSET S : T \in F
  BY <1>1, SubsetInduction
<1> QED
  BY <1>2 DEF F

(* Any element may be taken out of the sum first.                          *)
LEMMA SumTakesOut ==
    ASSUME NEW D, NEW f \in [D -> Int], NEW S \in SUBSET D, IsFiniteSet(S), NEW x \in S
    PROVE  SumFunctionOnSet(f, S) = f[x] + SumFunctionOnSet(f, S \ {x})
<1> DEFINE F == {T \in SUBSET S : \A y \in T :
                    SumFunctionOnSet(f, T) = f[y] + SumFunctionOnSet(f, T \ {y})}
<1>1. ASSUME NEW T \in SUBSET S, \A U \in (SUBSET T) \ {T} : U \in F PROVE T \in F
  <2> SUFFICES ASSUME NEW y \in T
               PROVE SumFunctionOnSet(f, T) = f[y] + SumFunctionOnSet(f, T \ {y})
    OBVIOUS
  <2>1. IsFiniteSet(T)
    BY FS_Subset
  <2>2. PICK c \in T : SumFunctionOnSet(f, T) = f[c] + SumFunctionOnSet(f, T \ {c})
    BY <2>1, SumStep, ChosenIn
  <2>3. CASE c # y
    <3>1. SumFunctionOnSet(f, T \ {c}) = f[y] + SumFunctionOnSet(f, (T \ {c}) \ {y})
      BY <1>1, <2>3
    <3>2. SumFunctionOnSet(f, T \ {y}) = f[c] + SumFunctionOnSet(f, (T \ {y}) \ {c})
      BY <1>1, <2>3
    <3>3. PICK U \in SUBSET D : U = (T \ {c}) \ {y} /\ U = (T \ {y}) \ {c}
      OBVIOUS
    <3>4. PICK u \in Int, a \in Int, b \in Int :
             u = SumFunctionOnSet(f, U) /\ a = f[y] /\ b = f[c]
      BY <3>3, FS_Subset, SumType
    <3>5. SumFunctionOnSet(f, T) = b + (a + u)
      BY <2>2, <3>1, <3>3, <3>4
    <3>6. SumFunctionOnSet(f, T \ {y}) = b + u
      BY <3>2, <3>3, <3>4
    <3>7. f[y] + SumFunctionOnSet(f, T \ {y}) = a + (b + u)
      BY <3>4, <3>6
    <3>8. b + (a + u) = a + (b + u)
      OBVIOUS
    <3> QED
      BY <3>5, <3>7, <3>8
  <2> QED
    BY <2>2, <2>3
<1> HIDE DEF F
<1>2. \A T \in SUBSET S : T \in F
  BY <1>1, SubsetInduction
<1> QED
  BY <1>2 DEF F

(* A sum grows with what is summed.                                        *)
LEMMA SumMonotone ==
    ASSUME NEW D, NEW f \in [D -> Int], NEW E, NEW g \in [E -> Int],
           NEW S \in SUBSET (D \cap E), IsFiniteSet(S), \A x \in S : f[x] <= g[x]
    PROVE  SumFunctionOnSet(f, S) <= SumFunctionOnSet(g, S)
<1> DEFINE F == {T \in SUBSET S : SumFunctionOnSet(f, T) <= SumFunctionOnSet(g, T)}
<1>1. ASSUME NEW T \in SUBSET S, \A U \in (SUBSET T) \ {T} : U \in F PROVE T \in F
  <2>1. IsFiniteSet(T)
    BY FS_Subset
  <2>2. CASE T = {}
    BY <2>2, SumEmpty
  <2>3. CASE T # {}
    <3>1. Chosen(T) \in T
      BY <2>3, ChosenIn
    <3>2. PICK U : U = T \ {Chosen(T)}
      OBVIOUS
    <3>3. U \in SUBSET D /\ U \in SUBSET E /\ IsFiniteSet(U)
      BY <2>1, <3>2, FS_Subset
    <3>4. SumFunctionOnSet(f, U) \in Int /\ SumFunctionOnSet(g, U) \in Int
      BY <3>3, SumType
    <3>5. SumFunctionOnSet(f, U) <= SumFunctionOnSet(g, U)
      BY <1>1, <3>1, <3>2
    <3>6. /\ SumFunctionOnSet(f, T) = f[Chosen(T)] + SumFunctionOnSet(f, U)
          /\ SumFunctionOnSet(g, T) = g[Chosen(T)] + SumFunctionOnSet(g, U)
      BY <2>1, <2>3, <3>2, SumStep
    <3>7. PICK a \in Int, b \in Int : a = f[Chosen(T)] /\ b = g[Chosen(T)] /\ a <= b
      BY <3>1
    <3> QED
      BY <3>4, <3>5, <3>6, <3>7
  <2> QED
    BY <2>2, <2>3
<1> HIDE DEF F
<1>2. \A T \in SUBSET S : T \in F
  BY <1>1, SubsetInduction
<1> QED
  BY <1>2 DEF F

LEMMA SumSame ==
    ASSUME NEW D, NEW f \in [D -> Int], NEW E, NEW g \in [E -> Int],
           NEW S \in SUBSET (D \cap E), IsFiniteSet(S), \A x \in S : f[x] = g[x]
    PROVE  SumFunctionOnSet(f, S) = SumFunctionOnSet(g, S)
<1>1. \A x \in S : f[x] \in Int /\ g[x] \in Int /\ f[x] <= g[x] /\ g[x] <= f[x]
  OBVIOUS
<1>2. SumFunctionOnSet(f, S) <= SumFunctionOnSet(g, S)
  BY <1>1, SumMonotone
<1>3. SumFunctionOnSet(g, S) <= SumFunctionOnSet(f, S)
  BY <1>1, SumMonotone
<1>4. SumFunctionOnSet(f, S) \in Int /\ SumFunctionOnSet(g, S) \in Int
  BY SumType
<1> QED
  BY <1>2, <1>3, <1>4

(* One term changed changes the sum by as much.                            *)
LEMMA SumChange ==
    ASSUME NEW D, NEW f \in [D -> Int], NEW g \in [D -> Int], NEW S \in SUBSET D,
           IsFiniteSet(S), NEW x \in S, \A y \in S \ {x} : f[y] = g[y]
    PROVE  SumFunctionOnSet(g, S) = SumFunctionOnSet(f, S) + (g[x] - f[x])
<1>1. /\ SumFunctionOnSet(f, S) = f[x] + SumFunctionOnSet(f, S \ {x})
      /\ SumFunctionOnSet(g, S) = g[x] + SumFunctionOnSet(g, S \ {x})
  BY SumTakesOut
<1>2. IsFiniteSet(S \ {x})
  BY FS_Subset
<1>3. SumFunctionOnSet(f, S \ {x}) = SumFunctionOnSet(g, S \ {x})
  BY <1>2, SumSame
<1>4. SumFunctionOnSet(f, S \ {x}) \in Int /\ f[x] \in Int /\ g[x] \in Int
  BY <1>2, SumType
<1> QED
  BY <1>1, <1>3, <1>4

(* Leaving out terms that are not negative does not make a sum larger.     *)
LEMMA SumOfFewer ==
    ASSUME NEW D, NEW f \in [D -> Int], NEW S \in SUBSET D, IsFiniteSet(S),
           NEW T \in SUBSET S, \A x \in S \ T : f[x] >= 0
    PROVE  SumFunctionOnSet(f, T) <= SumFunctionOnSet(f, S)
<1> DEFINE F == {V \in SUBSET S : T \subseteq V =>
                    SumFunctionOnSet(f, T) <= SumFunctionOnSet(f, V)}
<1>0. IsFiniteSet(T) /\ SumFunctionOnSet(f, T) \in Int
  BY FS_Subset, SumType
<1>1. ASSUME NEW V \in SUBSET S, \A U \in (SUBSET V) \ {V} : U \in F PROVE V \in F
  <2> SUFFICES ASSUME T \subseteq V PROVE SumFunctionOnSet(f, T) <= SumFunctionOnSet(f, V)
    OBVIOUS
  <2>1. CASE V = T
    BY <1>0, <2>1
  <2>2. CASE V # T
    <3>1. PICK x \in V : x \notin T
      BY <2>2
    <3>2. IsFiniteSet(V) /\ IsFiniteSet(V \ {x})
      BY FS_Subset
    <3>3. SumFunctionOnSet(f, V) = f[x] + SumFunctionOnSet(f, V \ {x})
      BY <3>2, SumTakesOut
    <3>4. SumFunctionOnSet(f, T) <= SumFunctionOnSet(f, V \ {x})
      BY <1>1, <3>1
    <3>5. SumFunctionOnSet(f, V \ {x}) \in Int /\ f[x] \in Int /\ f[x] >= 0
      BY <3>1, <3>2, SumType
    <3> QED
      BY <1>0, <3>3, <3>4, <3>5
  <2> QED
    BY <2>1, <2>2
<1> HIDE DEF F
<1>2. \A V \in SUBSET S : V \in F
  BY <1>1, SubsetInduction
<1> QED
  BY <1>2 DEF F

LEMMA SumOfZeros ==
    ASSUME NEW S, IsFiniteSet(S)
    PROVE  SumFunctionOnSet([x \in S |-> 0], S) = 0
<1> DEFINE z == [x \in S |-> 0]
           F == {T \in SUBSET S : SumFunctionOnSet(z, T) = 0}
<1>1. ASSUME NEW T \in SUBSET S, \A U \in (SUBSET T) \ {T} : U \in F PROVE T \in F
  <2>1. IsFiniteSet(T) /\ \A x \in S : z[x] = 0
    BY FS_Subset
  <2> HIDE DEF z
  <2>2. CASE T = {}
    BY <2>2, SumEmpty
  <2>3. CASE T # {}
    <3>1. Chosen(T) \in T
      BY <2>3, ChosenIn
    <3>2. SumFunctionOnSet(z, T \ {Chosen(T)}) = 0
      BY <1>1, <3>1
    <3> QED
      BY <2>1, <2>3, <3>1, <3>2, SumStep
  <2> QED
    BY <2>2, <2>3
<1> HIDE DEF F
<1>2. \A T \in SUBSET S : T \in F
  BY <1>1, SubsetInduction
<1> QED
  BY <1>2 DEF F

-------------------------------------------------------------------------------
(* What a confirmation reserves *)

LEMMA LinesAre ==
    ASSUME NEW o \in Orders
    PROVE  /\ Len(Lines[o]) \in Nat /\ DOMAIN Lines[o] = 1..Len(Lines[o])
           /\ IsFiniteSet(DOMAIN Lines[o])
           /\ \A i \in DOMAIN Lines[o] : Lines[o][i].row \in RowIds /\ Lines[o][i].qty \in Nat \ {0}
<1>1. PICK s \in Seq([row : RowIds, qty : Nat \ {0}]) : s = Lines[o]
  BY OrderAssumption
<1>2. Len(s) \in Nat /\ DOMAIN s = 1..Len(s) /\ s \in [1..Len(s) -> [row : RowIds, qty : Nat \ {0}]]
  BY LenProperties
<1>3. \A i \in DOMAIN s : s[i].row \in RowIds /\ s[i].qty \in Nat \ {0}
  <2>1. \A i \in DOMAIN s : s[i] \in [row : RowIds, qty : Nat \ {0}]
    BY <1>2
  <2> QED
    BY <2>1
<1>4. IsFiniteSet(1..Len(s))
  BY <1>2, FS_Interval
<1> QED
  BY <1>1, <1>2, <1>3, <1>4

Quantity(o) == [i \in DOMAIN Lines[o] |-> Lines[o][i].qty]

(* The part of Need that the lines before the n-th ask for.                *)
Upto(o, r, n) ==
    SumFunctionOnSet(Quantity(o), {i \in DOMAIN Lines[o] : Lines[o][i].row = r /\ i < n})

LEMMA UptoFacts ==
    ASSUME NEW o \in Orders, NEW r \in RowIds
    PROVE  /\ Need(o, r) \in Nat
           /\ \A n \in Nat : Upto(o, r, n) \in Nat /\ Upto(o, r, n) <= Need(o, r)
           /\ Upto(o, r, 1) = 0
           /\ \A n \in DOMAIN Lines[o] :
                 Upto(o, r, n + 1) =
                     Upto(o, r, n) + (IF Lines[o][n].row = r THEN Lines[o][n].qty ELSE 0)
           /\ \A n \in Nat : n > Len(Lines[o]) => Upto(o, r, n) = Need(o, r)
<1> DEFINE All == {i \in DOMAIN Lines[o] : Lines[o][i].row = r}
           Below(n) == {i \in DOMAIN Lines[o] : Lines[o][i].row = r /\ i < n}
<1>1. /\ IsFiniteSet(DOMAIN Lines[o]) /\ Len(Lines[o]) \in Nat /\ DOMAIN Lines[o] = 1..Len(Lines[o])
      /\ Quantity(o) \in [DOMAIN Lines[o] -> Int]
      /\ \A i \in DOMAIN Lines[o] : Quantity(o)[i] \in Nat /\ Quantity(o)[i] = Lines[o][i].qty
  BY LinesAre DEF Quantity
<1>2. Need(o, r) = SumFunctionOnSet(Quantity(o), All)
  BY DEF Need, Quantity
<1>3. \A n : Upto(o, r, n) = SumFunctionOnSet(Quantity(o), Below(n))
  BY DEF Upto
<1>4. \A n : Below(n) \subseteq All /\ IsFiniteSet(Below(n)) /\ IsFiniteSet(All)
  BY <1>1, FS_Subset
<1>5. ASSUME NEW T \in SUBSET (DOMAIN Lines[o]), IsFiniteSet(T)
      PROVE  SumFunctionOnSet(Quantity(o), T) \in Nat
  <2>1. SumFunctionOnSet(Quantity(o), {}) <= SumFunctionOnSet(Quantity(o), T)
    BY <1>1, <1>5, SumOfFewer
  <2> QED
    BY <1>1, <1>5, <2>1, SumEmpty, SumType
<1>6. \A n : SumFunctionOnSet(Quantity(o), Below(n)) <= SumFunctionOnSet(Quantity(o), All)
  <2> TAKE n
  <2>1. All \in SUBSET (DOMAIN Lines[o]) /\ Below(n) \in SUBSET All
    BY <1>4
  <2>2. \A i \in All \ Below(n) : Quantity(o)[i] >= 0
    BY <1>1
  <2> HIDE DEF All, Below
  <2> QED
    BY <1>1, <1>4, <2>1, <2>2, SumOfFewer
<1>7. Below(1) = {}
  BY <1>1
<1>8. ASSUME NEW n \in DOMAIN Lines[o]
      PROVE  SumFunctionOnSet(Quantity(o), Below(n + 1)) =
                 SumFunctionOnSet(Quantity(o), Below(n))
                     + (IF Lines[o][n].row = r THEN Lines[o][n].qty ELSE 0)
  <2>1. PICK A \in SUBSET (DOMAIN Lines[o]), B \in SUBSET (DOMAIN Lines[o]) :
           A = Below(n + 1) /\ B = Below(n)
    OBVIOUS
  <2>2. IsFiniteSet(A) /\ IsFiniteSet(B)
    BY <1>1, FS_Subset
  <2>3. SumFunctionOnSet(Quantity(o), A) \in Nat /\ SumFunctionOnSet(Quantity(o), B) \in Nat
    BY <1>5, <2>2
  <2>4. IF Lines[o][n].row = r THEN n \in A /\ A \ {n} = B ELSE A = B
    BY <1>1, <2>1
  <2> HIDE DEF Below, All
  <2>5. n \in A => SumFunctionOnSet(Quantity(o), A) =
                       Quantity(o)[n] + SumFunctionOnSet(Quantity(o), A \ {n})
    BY <1>1, <2>2, SumTakesOut
  <2>6. CASE Lines[o][n].row = r
    <3>1. SumFunctionOnSet(Quantity(o), A) = Lines[o][n].qty + SumFunctionOnSet(Quantity(o), B)
      BY <1>1, <2>4, <2>5, <2>6
    <3>2. Lines[o][n].qty \in Nat
      BY LinesAre
    <3> QED
      BY <2>1, <2>3, <2>6, <3>1, <3>2
  <2>7. CASE Lines[o][n].row # r
    BY <2>1, <2>3, <2>4, <2>7
  <2> QED
    BY <2>6, <2>7
<1>9. ASSUME NEW n \in Nat, n > Len(Lines[o]) PROVE Below(n) = All
  BY <1>1, <1>9
<1> HIDE DEF All, Below
<1>10. Need(o, r) \in Nat /\ \A n \in Nat : Upto(o, r, n) \in Nat /\ Upto(o, r, n) <= Need(o, r)
  BY <1>2, <1>3, <1>4, <1>5, <1>6 DEF All, Below
<1>11. Upto(o, r, 1) = 0
  BY <1>3, <1>7, SumEmpty
<1>12. \A n \in Nat : n > Len(Lines[o]) => Upto(o, r, n) = Need(o, r)
  BY <1>2, <1>3, <1>9
<1> QED
  BY <1>3, <1>8, <1>10, <1>11, <1>12

(* What a request that is reserving has already reserved for its order.    *)
Part(q, o, r) ==
    IF q.pc = "reserving" /\ q.order = o THEN Upto(o, r, q.line) ELSE 0

UnderWay(o, r) == SumFunctionOnSet([h \in Handlers |-> Part(req[h], o, r)], Handlers)

LEMMA PartType ==
    ASSUME NEW q \in Request, NEW o \in Orders, NEW r \in RowIds
    PROVE  Part(q, o, r) \in Nat
<1>1. CASE q.pc = "reserving"
  <2>1. q.line \in Nat
    BY <1>1, RequestIs DEF Transitions
  <2> QED
    BY <2>1, UptoFacts DEF Part
<1> QED
  BY <1>1 DEF Part

(* One request moving on changes the sum over the requests by as much.     *)
LEMMA UnderWayChange ==
    ASSUME OrderTypeOK, NEW h \in Handlers, NEW q \in Request, req' = [req EXCEPT ![h] = q],
           NEW o \in Orders, NEW r \in RowIds
    PROVE  /\ UnderWay(o, r) \in Int /\ UnderWay(o, r)' \in Int
           /\ UnderWay(o, r)' = UnderWay(o, r) + (Part(q, o, r) - Part(req[h], o, r))
<1> DEFINE f == [g \in Handlers |-> Part(req[g], o, r)]
           k == [g \in Handlers |-> Part(req'[g], o, r)]
<1>1. /\ req \in [Handlers -> Request] /\ req' \in [Handlers -> Request]
      /\ req'[h] = q /\ \A g \in Handlers \ {h} : req'[g] = req[g]
  BY ReqTyped DEF OrderTypeOK
<1>2. f \in [Handlers -> Int] /\ k \in [Handlers -> Int]
  BY <1>1, PartType
<1>3. f[h] = Part(req[h], o, r) /\ k[h] = Part(q, o, r) /\ \A g \in Handlers \ {h} : f[g] = k[g]
  BY <1>1
<1>4. UnderWay(o, r) = SumFunctionOnSet(f, Handlers) /\ UnderWay(o, r)' = SumFunctionOnSet(k, Handlers)
  BY DEF UnderWay
<1>5. IsFiniteSet(Handlers)
  BY OrderAssumption
<1> HIDE DEF f, k
<1>6. SumFunctionOnSet(k, Handlers) = SumFunctionOnSet(f, Handlers) + (k[h] - f[h])
  BY <1>2, <1>3, <1>5, SumChange
<1>7. SumFunctionOnSet(k, Handlers) \in Int /\ SumFunctionOnSet(f, Handlers) \in Int
  BY <1>2, <1>5, SumType
<1> QED
  BY <1>3, <1>4, <1>6, <1>7

LEMMA CountType ==
    ASSUME NEW t \in Seq(Event), NEW s
    PROVE  /\ IsFiniteSet({i \in DOMAIN t : t[i].to = s})
           /\ Cardinality({i \in DOMAIN t : t[i].to = s}) \in Nat
<1>1. Len(t) \in Nat /\ DOMAIN t = 1..Len(t) /\ IsFiniteSet(1..Len(t))
  BY LenProperties, FS_Interval
<1>2. IsFiniteSet({i \in DOMAIN t : t[i].to = s})
  BY <1>1, FS_Subset
<1> QED
  BY <1>2, FS_CardinalityType

LEMMA TimesType ==
    ASSUME OrderTypeOK, NEW o \in Orders, NEW s
    PROVE  Times(o, s) \in Nat
<1>1. PICK t \in Seq(Event) : t = trail[o]
  BY DEF OrderTypeOK
<1> QED
  BY <1>1, CountType DEF Times

(* A save adds one to the times its order was saved so.                    *)
LEMMA TimesSaved ==
    ASSUME OrderTypeOK, NEW h \in Handlers, SaveTransition(h), NEW o \in Orders, NEW s
    PROVE  Times(o, s)' = IF o = req[h].order /\ req[h].to = s THEN Times(o, s) + 1 ELSE Times(o, s)
<1>1. PICK e \in Event, t \in Seq(Event) :
         /\ e = EventOf(h) /\ e.to = req[h].to /\ t = trail[o]
  BY SaveSteps DEF OrderTypeOK
<1>2. trail'[o] = IF o = req[h].order THEN Append(t, e) ELSE t
  <2>1. trail' = [trail EXCEPT ![req[h].order] = Append(trail[req[h].order], e)]
    BY <1>1, SaveSteps
  <2> QED
    BY <1>1, <2>1 DEF OrderTypeOK
<1>3. e.to = req[h].to
  BY <1>1
<1>4. CASE o = req[h].order
  <2>1. /\ DOMAIN Append(t, e) = DOMAIN t \cup {Len(t) + 1} /\ Len(t) + 1 \notin DOMAIN t
        /\ Append(t, e)[Len(t) + 1] = e /\ \A i \in DOMAIN t : Append(t, e)[i] = t[i]
    BY Appended
  <2> DEFINE Was == {i \in DOMAIN t : t[i].to = s}
             Is == {i \in DOMAIN Append(t, e) : Append(t, e)[i].to = s}
  <2>2. Is = (IF e.to = s THEN Was \cup {Len(t) + 1} ELSE Was) /\ Len(t) + 1 \notin Was
    BY <2>1
  <2>3. IsFiniteSet(Was) /\ Times(o, s) = Cardinality(Was) /\ Times(o, s)' = Cardinality(Is)
    BY <1>1, <1>2, <1>4, CountType DEF Times
  <2> HIDE DEF Was, Is
  <2> QED
    BY <1>3, <1>4, <2>2, <2>3, FS_AddElement
<1>5. CASE o # req[h].order
  BY <1>1, <1>2, <1>5 DEF Times
<1> QED
  BY <1>4, <1>5

(* ConfirmedAfterReserving is not inductive alone: the units of a request  *)
(* that is still reserving are on top of those of the confirmations saved, *)
(* and only a request that reserves saves one.                             *)
ReservedInv ==
    /\ OrderTypeOK
    /\ \A h \in Handlers : Fits(req[h])
    /\ \A o \in Orders \ Branchless, r \in RowIds :
          taken[o][r] >= Times(o, "confirmed") * Need(o, r) + UnderWay(o, r)

(* A request moves on and reserves at least what that counts for.          *)
LEMMA ReservedGoesOn ==
    ASSUME ReservedInv, OrderTypeOK', NEW h \in Handlers, NEW q \in Request,
           req' = [req EXCEPT ![h] = q], Fits(q),
           \A o \in Orders \ Branchless, r \in RowIds :
              taken'[o][r] - taken[o][r]
                  >= (Times(o, "confirmed")' - Times(o, "confirmed")) * Need(o, r)
                         + (Part(q, o, r) - Part(req[h], o, r))
    PROVE  ReservedInv'
<1>1. \A g \in Handlers : Fits(req'[g])
  BY ReqTyped DEF ReservedInv
<1>2. ASSUME NEW o \in Orders \ Branchless, NEW r \in RowIds
      PROVE  taken'[o][r] >= Times(o, "confirmed")' * Need(o, r) + UnderWay(o, r)'
  <2>1. PICK t \in Nat, u \in Nat, n \in Nat, m \in Nat, k \in Nat :
           /\ t = taken[o][r] /\ u = taken'[o][r] /\ n = Need(o, r)
           /\ m = Times(o, "confirmed") /\ k = Times(o, "confirmed")'
    <3>1. taken[o][r] \in Nat /\ taken'[o][r] \in Nat
      BY DEF ReservedInv, OrderTypeOK
    <3>2. trail[o] \in Seq(Event) /\ trail'[o] \in Seq(Event)
      BY DEF ReservedInv, OrderTypeOK
    <3>3. Times(o, "confirmed") \in Nat /\ Times(o, "confirmed")' \in Nat
      BY <3>2, CountType DEF Times
    <3> QED
      BY <3>1, <3>3, UptoFacts
  <2>2. PICK w \in Int, v \in Int, p \in Int, d \in Int :
           /\ w = UnderWay(o, r) /\ v = UnderWay(o, r)'
           /\ p = Part(q, o, r) /\ d = Part(req[h], o, r) /\ v = w + (p - d)
    <3>1. req[h] \in Request /\ OrderTypeOK /\ o \in Orders
      BY DEF ReservedInv, OrderTypeOK
    <3>2. Part(q, o, r) \in Int /\ Part(req[h], o, r) \in Int
      BY <3>1, PartType
    <3>3. /\ UnderWay(o, r) \in Int /\ UnderWay(o, r)' \in Int
          /\ UnderWay(o, r)' = UnderWay(o, r) + (Part(q, o, r) - Part(req[h], o, r))
      BY <3>1, UnderWayChange
    <3> QED
      BY <3>2, <3>3
  <2>3. t >= m * n + w /\ u - t >= (k - m) * n + (p - d)
    BY <2>1, <2>2 DEF ReservedInv
  <2>4. (k - m) * n = k * n - m * n /\ k * n \in Int /\ m * n \in Int
    OBVIOUS
  <2> QED
    BY <2>1, <2>2, <2>3, <2>4
<1> QED
  BY <1>1, <1>2 DEF ReservedInv

LEMMA ReservedInitially == OrderInit => ReservedInv
<1> SUFFICES ASSUME OrderInit PROVE ReservedInv
  OBVIOUS
<1>1. OrderTypeOK
  BY OrderInitTyped
<1>2. \A h \in Handlers : req[h] = NoReq /\ NoReq.pc = "idle"
  BY DEF OrderInit, NoReq
<1>3. \A h \in Handlers : Fits(req[h])
  BY <1>2, NoReqFits
<1>4. ASSUME NEW o \in Orders, NEW r \in RowIds
      PROVE  taken[o][r] >= Times(o, "confirmed") * Need(o, r) + UnderWay(o, r)
  <2>1. Times(o, "confirmed") = 0 /\ taken[o][r] = 0
    <3>1. {i \in DOMAIN trail[o] : trail[o][i].to = "confirmed"} = {}
      BY DEF OrderInit
    <3> QED
      BY <3>1, FS_EmptySet DEF Times, OrderInit
  <2>2. UnderWay(o, r) = 0
    <3> DEFINE f == [h \in Handlers |-> Part(req[h], o, r)]
    <3>1. f = [h \in Handlers |-> 0]
      BY <1>2 DEF Part
    <3>2. SumFunctionOnSet([h \in Handlers |-> 0], Handlers) = 0
      BY SumOfZeros, OrderAssumption
    <3> QED
      BY <3>1, <3>2 DEF UnderWay
  <2>3. Need(o, r) \in Nat
    BY UptoFacts
  <2> QED
    BY <2>1, <2>2, <2>3
<1> QED
  BY <1>1, <1>3, <1>4 DEF ReservedInv

(* A request that is not reserving moves on to one that is not either.     *)
LEMMA ReservedIdle ==
    ASSUME ReservedInv, OrderTypeOK', NEW h \in Handlers, NEW q \in Request,
           req' = [req EXCEPT ![h] = q], Fits(q), UNCHANGED <<trail, taken>>,
           q.pc = "reserving" => q.line = 1
    PROVE  ReservedInv'
<1>1. ASSUME NEW o \in Orders \ Branchless, NEW r \in RowIds
      PROVE  taken'[o][r] - taken[o][r]
                 >= (Times(o, "confirmed")' - Times(o, "confirmed")) * Need(o, r)
                        + (Part(q, o, r) - Part(req[h], o, r))
  <2>1. taken'[o][r] - taken[o][r] = 0
    BY DEF ReservedInv, OrderTypeOK
  <2>2. Times(o, "confirmed")' = Times(o, "confirmed") /\ Times(o, "confirmed") \in Nat
    <3>1. Times(o, "confirmed")' = Times(o, "confirmed")
      BY DEF Times
    <3> QED
      BY <3>1, TimesType DEF ReservedInv
  <2>3. Part(q, o, r) = 0
    BY UptoFacts DEF Part
  <2>4. Part(req[h], o, r) \in Nat
    BY PartType DEF ReservedInv, OrderTypeOK
  <2>5. Need(o, r) \in Nat
    BY UptoFacts
  <2> QED
    BY <2>1, <2>2, <2>3, <2>4, <2>5
<1> QED
  BY <1>1, ReservedGoesOn

(* A reservation counts for its order, and the request goes on to the next *)
(* line.                                                                   *)
LEMMA ReservedLine ==
    ASSUME ReservedInv, NEW h \in Handlers, ReserveLine(h)
    PROVE  ReservedInv'
<1>1. PICK q : q = [req[h] EXCEPT !.line = req[h].line + 1]
  OBVIOUS
<1>2. /\ OrderTypeOK /\ OrderTypeOK' /\ UNCHANGED trail /\ req[h] \in Transitions
      /\ req' = [req EXCEPT ![h] = q] /\ req[h].pc = "reserving"
  BY <1>1, LineSteps DEF ReservedInv, ReserveLine, AtLine
<1>3. /\ q \in Transitions /\ q.pc = "reserving" /\ q.order = req[h].order
      /\ q.to = req[h].to /\ q.line = req[h].line + 1
  BY <1>1, <1>2, TransitionGoesOn DEF Transitions
<1>4. q \in Request /\ Fits(q)
  BY <1>1, <1>2, FitsGoesOn DEF ReservedInv
<1>5. /\ req[h].order \in Orders /\ req[h].line \in DOMAIN Lines[req[h].order]
      /\ Line(req[h]) = Lines[req[h].order][req[h].line]
      /\ Line(req[h]).row \in RowIds /\ Line(req[h]).qty \in Nat
      /\ taken' = [taken EXCEPT ![req[h].order][Line(req[h]).row] = @ + Line(req[h]).qty]
  <2>1. req[h].order \in Orders /\ req[h].line \in Nat \ {0} /\ AtLine(h, "reserving")
    BY <1>2 DEF Transitions, ReserveLine
  <2>2. req[h].line \in DOMAIN Lines[req[h].order]
    BY <2>1, LinesAre DEF AtLine
  <2>3. Line(req[h]).row \in RowIds /\ Line(req[h]).qty \in Nat
    BY <1>2, <2>1, LineIs
  <2>4. taken' = [taken EXCEPT ![req[h].order][Line(req[h]).row] = @ + Line(req[h]).qty]
    BY DEF ReserveLine, Tally
  <2> QED
    BY <2>1, <2>2, <2>3, <2>4 DEF Line
<1>6. ASSUME NEW o \in Orders \ Branchless, NEW r \in RowIds
      PROVE  taken'[o][r] - taken[o][r]
                 >= (Times(o, "confirmed")' - Times(o, "confirmed")) * Need(o, r)
                        + (Part(q, o, r) - Part(req[h], o, r))
  <2>1. Times(o, "confirmed")' = Times(o, "confirmed") /\ Times(o, "confirmed") \in Nat
    <3>1. Times(o, "confirmed")' = Times(o, "confirmed")
      BY <1>2 DEF Times
    <3> QED
      BY <1>2, <3>1, TimesType
  <2>2. Need(o, r) \in Nat /\ taken[o][r] \in Nat
    BY <1>2, UptoFacts DEF OrderTypeOK
  <2>3. taken'[o][r] - taken[o][r] =
            IF o = req[h].order /\ r = Line(req[h]).row THEN Line(req[h]).qty ELSE 0
    <3>6. PICK p \in Orders : p = req[h].order
      BY <1>5
    <3>7. PICK w \in RowIds : w = Line(req[h]).row
      BY <1>5
    <3>8. PICK n \in Nat : n = Line(req[h]).qty
      BY <1>5
    <3>0. p = req[h].order /\ w = Line(req[h]).row /\ n = Line(req[h]).qty
      BY <3>6, <3>7, <3>8
    <3>1. /\ p = req[h].order /\ w = Line(req[h]).row /\ n = Line(req[h]).qty
          /\ taken' = [taken EXCEPT ![p][w] = @ + n]
      BY <1>5, <3>0
    <3>2. taken \in [Orders -> [RowIds -> Nat]]
      BY <1>2 DEF OrderTypeOK
    <3>3. taken'[o][r] = IF o = p /\ r = w THEN taken[o][r] + n ELSE taken[o][r]
      BY <3>0, <3>1, <3>2
    <3>4. PICK k \in Nat : k = taken[o][r]
      BY <2>2
    <3>5. (k + n) - k = n /\ k - k = 0
      OBVIOUS
    <3> QED
      BY <3>1, <3>3, <3>4, <3>5
  <2>4. Part(q, o, r) - Part(req[h], o, r) =
            IF o = req[h].order /\ r = Line(req[h]).row THEN Line(req[h]).qty ELSE 0
    <3>1. CASE o = req[h].order
      <4>1. PICK n : n = req[h].line
        OBVIOUS
      <4>2. n \in Nat /\ n \in DOMAIN Lines[o]
        <5>1. req[h].line \in Nat
          BY <1>2 DEF Transitions
        <5> QED
          BY <1>5, <3>1, <4>1, <5>1
      <4>3. Lines[o][n] = Line(req[h])
        BY <1>5, <3>1, <4>1
      <4>4. Upto(o, r, n + 1) =
                Upto(o, r, n) + (IF Lines[o][n].row = r THEN Lines[o][n].qty ELSE 0)
        BY <4>2, UptoFacts
      <4>5. Upto(o, r, n) \in Nat
        BY <4>2, UptoFacts
      <4>6. Part(q, o, r) = Upto(o, r, n + 1)
        BY <1>3, <3>1, <4>1 DEF Part
      <4>7. Part(req[h], o, r) = Upto(o, r, n)
        BY <1>2, <3>1, <4>1 DEF Part
      <4>8. PICK u \in Nat, d \in Nat :
               u = Upto(o, r, n) /\ d = IF Line(req[h]).row = r THEN Line(req[h]).qty ELSE 0
        BY <1>5, <4>5
      <4>9. (u + d) - u = d
        OBVIOUS
      <4>10. Upto(o, r, n + 1) = u + d
        BY <4>3, <4>4, <4>8
      <4> QED
        BY <3>1, <4>6, <4>7, <4>8, <4>9, <4>10
    <3>2. CASE o # req[h].order
      BY <1>3, <3>2 DEF Part
    <3> QED
      BY <3>1, <3>2
  <2>5. PICK t \in Nat, n \in Nat : t = Times(o, "confirmed") /\ n = Need(o, r)
    BY <2>1, <2>2
  <2>6. (t - t) * n = 0
    BY SMT
  <2>7. PICK d \in Int :
           d = IF o = req[h].order /\ r = Line(req[h]).row THEN Line(req[h]).qty ELSE 0
    <3>1. PICK k \in Nat : k = Line(req[h]).qty
      BY <1>5
    <3>2. k \in Int /\ 0 \in Int
      OBVIOUS
    <3> QED
      BY <3>1, <3>2
  <2>8. /\ taken'[o][r] - taken[o][r] = d /\ Part(q, o, r) - Part(req[h], o, r) = d
        /\ (Times(o, "confirmed")' - Times(o, "confirmed")) * Need(o, r) = 0
    BY <2>1, <2>3, <2>4, <2>5, <2>6, <2>7
  <2>9. d >= 0 + d
    OBVIOUS
  <2> QED
    BY <2>8, <2>9
<1> QED
  BY <1>2, <1>4, <1>6, ReservedGoesOn

(* The save of a confirmation: the request has been through all its lines. *)
LEMMA ReservedSave ==
    ASSUME ReservedInv, NEW h \in Handlers, SaveTransition(h)
    PROVE  ReservedInv'
<1>1. PICK q : q = [req[h] EXCEPT !.pc = "announcing"]
  OBVIOUS
<1>2. /\ OrderTypeOK /\ OrderTypeOK' /\ UNCHANGED taken /\ req[h] \in Transitions
      /\ req' = [req EXCEPT ![h] = q] /\ Decided(h) /\ Fits(req[h])
  BY <1>1, SaveSteps DEF ReservedInv
<1>3. q \in Transitions /\ q.pc = "announcing"
  BY <1>1, <1>2, TransitionGoesOn
<1>4. q \in Request /\ Fits(q)
  BY <1>1, <1>2, FitsGoesOn
<1>5. ASSUME NEW o \in Orders \ Branchless, NEW r \in RowIds
      PROVE  taken'[o][r] - taken[o][r]
                 >= (Times(o, "confirmed")' - Times(o, "confirmed")) * Need(o, r)
                        + (Part(q, o, r) - Part(req[h], o, r))
  <2>1. taken'[o][r] - taken[o][r] = 0
    BY <1>2 DEF OrderTypeOK
  <2>2. PICK t \in Nat : t = Times(o, "confirmed")
    BY <1>2, TimesType
  <2>3. PICK n \in Nat : n = Need(o, r)
    BY UptoFacts
  <2>4. PICK p \in Nat : p = Part(req[h], o, r)
    BY <1>2, PartType DEF OrderTypeOK
  <2>5. Part(q, o, r) = 0
    BY <1>3 DEF Part
  <2>6. CASE o = req[h].order /\ req[h].to = "confirmed"
    <3>1. Times(o, "confirmed")' = t + 1
      BY <1>2, <2>2, <2>6, TimesSaved
    <3>2. req[h].pc = "reserving" /\ req[h].line > Len(Lines[o]) /\ req[h].line \in Nat
      BY <1>2, <2>6 DEF Fits, Decided, Transitions
    <3>3. p = n
      BY <2>3, <2>4, <2>6, <3>2, UptoFacts DEF Part
    <3>4. (t + 1 - t) * n + (0 - p) = 0
      BY <3>3
    <3> QED
      BY <2>1, <2>2, <2>3, <2>4, <2>5, <3>1, <3>4
  <2>7. CASE ~(o = req[h].order /\ req[h].to = "confirmed")
    <3>1. Times(o, "confirmed")' = t
      BY <1>2, <2>2, <2>7, TimesSaved
    <3>2. 0 >= (t - t) * n + (0 - p)
      OBVIOUS
    <3> QED
      BY <2>1, <2>2, <2>3, <2>4, <2>5, <3>1, <3>2
  <2> QED
    BY <2>6, <2>7
<1> QED
  BY <1>2, <1>4, <1>5, ReservedGoesOn

LEMMA ReservedStep == ReservedInv /\ [OrderNext]_orderVars => ReservedInv'
<1> SUFFICES ASSUME ReservedInv, [OrderNext]_orderVars PROVE ReservedInv'
  OBVIOUS
<1>0. /\ OrderTypeOK /\ NoReq \in Request /\ NoReq.pc = "idle" /\ Fits(NoReq)
      /\ \A h \in Handlers : Fits(req[h])
  BY NoReqFits DEF ReservedInv
<1>1. ASSUME NEW h \in Handlers, NEW q \in Request, Begins(h, q) PROVE ReservedInv'
  <2>1. q.pc = "reserving" => q.line = 1
    BY <1>1 DEF Begins, Patches
  <2>2. OrderTypeOK' /\ UNCHANGED <<trail, taken>> /\ req' = [req EXCEPT ![h] = q] /\ Fits(q)
    BY <1>0, <1>1, BeginSteps DEF Begins, Begin
  <2> QED
    BY <2>1, <2>2, ReservedIdle
<1>2. ASSUME NEW h \in Handlers, ReleaseLine(h) \/ SkipLine(h) PROVE ReservedInv'
  <2>1. PICK q : q = [req[h] EXCEPT !.line = req[h].line + 1]
    OBVIOUS
  <2>2. /\ OrderTypeOK' /\ UNCHANGED <<trail, taken>> /\ req[h] \in Transitions
        /\ req' = [req EXCEPT ![h] = q] /\ req[h].pc = "releasing"
    BY <1>0, <1>2, <2>1, LineSteps DEF ReleaseLine, SkipLine, AtLine
  <2>3. q.pc = "releasing"
    BY <2>1, <2>2, TransitionGoesOn
  <2>4. q \in Request /\ Fits(q)
    BY <1>0, <2>1, <2>2, FitsGoesOn
  <2> QED
    BY <2>2, <2>3, <2>4, ReservedIdle
<1>3. ASSUME NEW h \in Handlers, RefuseLine(h) \/ Fail(h) \/ Announce(h) \/ SavePatch(h)
      PROVE  ReservedInv'
  <2>1. OrderTypeOK' /\ UNCHANGED trail /\ req' = [req EXCEPT ![h] = NoReq]
    BY <1>0, <1>3, EndSteps, EmitSteps, PatchSteps
  <2>2. UNCHANGED taken
    BY <1>3 DEF RefuseLine, Fail, End, Announce, SavePatch
  <2> QED
    BY <1>0, <2>1, <2>2, ReservedIdle
<1>4. CASE OrderTypeOK' /\ UNCHANGED orderCore
  <2>1. UNCHANGED <<trail, taken, req>>
    BY <1>4 DEF orderCore
  <2> QED
    BY <1>4, <2>1 DEF ReservedInv, Times, UnderWay
<1> QED
  BY <1>0, <1>1, <1>2, <1>3, <1>4, ReservedLine, ReservedSave, OrderSteps

(* Whenever an order's trail says it was confirmed, that many whole orders *)
(* were reserved on its own account before: whatever other requests do,    *)
(* wherever they fail, and whatever PATCH writes in between.               *)
THEOREM OrdersReserve == OrderSpec => []ConfirmedAfterReserving
<1>1. ReservedInv => ConfirmedAfterReserving
  <2> SUFFICES ASSUME ReservedInv, NEW o \in Orders, NEW r \in RowIds, o \notin Branchless
               PROVE  taken[o][r] >= Times(o, "confirmed") * Need(o, r)
    BY DEF ConfirmedAfterReserving
  <2>1. UnderWay(o, r) \in Nat
    <3> DEFINE f == [h \in Handlers |-> Part(req[h], o, r)]
    <3>1. f \in [Handlers -> Int] /\ \A h \in Handlers : f[h] >= 0
      BY PartType DEF ReservedInv, OrderTypeOK
    <3>2. UnderWay(o, r) = SumFunctionOnSet(f, Handlers)
      BY DEF UnderWay
    <3> HIDE DEF f
    <3>3. SumFunctionOnSet(f, {}) <= SumFunctionOnSet(f, Handlers)
      BY <3>1, OrderAssumption, SumOfFewer
    <3>4. SumFunctionOnSet(f, Handlers) \in Int
      BY <3>1, OrderAssumption, SumType
    <3> QED
      BY <3>2, <3>3, <3>4, SumEmpty
  <2>2. PICK t \in Nat, m \in Nat : t = Times(o, "confirmed") /\ m = Need(o, r)
    BY UptoFacts, TimesType DEF ReservedInv
  <2>3. taken[o][r] \in Nat /\ taken[o][r] >= t * m + UnderWay(o, r) /\ t * m \in Nat
    BY <2>2 DEF ReservedInv, OrderTypeOK
  <2> QED
    BY <2>1, <2>2, <2>3
<1> QED
  BY <1>1, ReservedInitially, ReservedStep, PTL DEF OrderSpec

-------------------------------------------------------------------------------
(* What a promise is backed by *)

(* No two requests work on one order at the same time.  Requests for       *)
(* different orders may overlap as they like.                              *)
OneAtATime ==
    \A h, k \in Handlers :
        req[h] # NoReq /\ req[k] # NoReq /\ req[h].order = req[k].order => h = k

OwnedInAll(r) == SumFunctionOnSet([o \in Orders |-> Owned(o, r)], Orders)

(* The inventory side: nobody owns less than nothing, what is owned of a   *)
(* row is held in it, and of a row that is missing or unsound nothing was  *)
(* ever reserved.                                                          *)
OwnedInv ==
    /\ OrderTypeOK /\ InventoryInv
    /\ \A o \in Orders, r \in RowIds : Owned(o, r) >= 0
    /\ \A r \in RowIds : held[r] >= OwnedInAll(r)
    /\ \A r \in RowIds : rows[r] = NoRow \/ ~Sound(rows[r]) =>
          \A o \in Orders : taken[o][r] = 0

(* The order side: a request that reserves owns what it went through, one  *)
(* that releases still owns what it has not gone through, and a promise    *)
(* that nobody is releasing owns all it needs.                             *)
PromiseInv ==
    /\ \A h \in Handlers : Current(req[h]) /\ Fits(req[h])
    /\ \A h \in Handlers, o \in Orders, r \in RowIds : Owned(o, r) >= Part(req[h], o, r)
    /\ \A h \in Handlers : req[h].pc = "releasing" =>
          \A r \in RowIds :
             Owned(req[h].order, r) >= Need(req[h].order, r) - Upto(req[h].order, r, req[h].line)
    /\ \A o \in Promised, r \in RowIds :
          (\A h \in Handlers : ~(req[h].pc = "releasing" /\ req[h].order = o))
              => Owned(o, r) >= Need(o, r)

LEMMA OwnedType ==
    ASSUME OrderTypeOK, NEW o \in Orders, NEW r \in RowIds
    PROVE  Owned(o, r) \in Int /\ taken[o][r] \in Nat /\ given[o][r] \in Nat
  BY DEF Owned, OrderTypeOK

LEMMA OwnedInAllType ==
    ASSUME OrderTypeOK, NEW r \in RowIds
    PROVE  OwnedInAll(r) \in Int
<1> DEFINE f == [o \in Orders |-> Owned(o, r)]
<1>1. f \in [Orders -> Int] /\ IsFiniteSet(Orders)
  BY OwnedType, OrderAssumption
<1>2. OwnedInAll(r) = SumFunctionOnSet(f, Orders)
  BY DEF OwnedInAll
<1> HIDE DEF f
<1> QED
  BY <1>1, <1>2, SumType

(* What one order comes to own of one row changes what all own of it.      *)
LEMMA OwnedChange ==
    ASSUME OrderTypeOK, OrderTypeOK', NEW p \in Orders, NEW w \in RowIds, NEW d \in Int,
           \A o \in Orders, r \in RowIds :
              Owned(o, r)' = IF o = p /\ r = w THEN Owned(o, r) + d ELSE Owned(o, r),
           NEW r \in RowIds
    PROVE  OwnedInAll(r)' = IF r = w THEN OwnedInAll(r) + d ELSE OwnedInAll(r)
<1> DEFINE f == [o \in Orders |-> Owned(o, r)]
           k == [o \in Orders |-> IF o = p /\ r = w THEN Owned(o, r) + d ELSE Owned(o, r)]
<1>1. f \in [Orders -> Int] /\ k \in [Orders -> Int] /\ IsFiniteSet(Orders)
  BY OwnedType, OrderAssumption
<1>2. OwnedInAll(r) = SumFunctionOnSet(f, Orders)
  BY DEF OwnedInAll
<1>3. OwnedInAll(r)' = SumFunctionOnSet(k, Orders)
  <2>1. [o \in Orders |-> Owned(o, r)'] = k
    OBVIOUS
  <2>2. OwnedInAll(r)' = SumFunctionOnSet([o \in Orders |-> Owned(o, r)'], Orders)
    BY DEF OwnedInAll
  <2> QED
    BY <2>1, <2>2
<1>4. /\ \A y \in Orders \ {p} : f[y] = k[y]
      /\ k[p] = IF r = w THEN f[p] + d ELSE f[p]
  OBVIOUS
<1> HIDE DEF f, k
<1>5. SumFunctionOnSet(k, Orders) = SumFunctionOnSet(f, Orders) + (k[p] - f[p])
  BY <1>1, <1>4, SumChange
<1>6. SumFunctionOnSet(f, Orders) \in Int /\ f[p] \in Int /\ k[p] \in Int
  BY <1>1, SumType
<1> QED
  BY <1>2, <1>3, <1>4, <1>5, <1>6

(* An order owns no more of a row than the row counts as reserved.         *)
LEMMA OwnedIsReserved ==
    ASSUME OwnedInv, NEW p \in Orders, NEW r \in RowIds, Owned(p, r) > 0
    PROVE  /\ rows[r] \in Row /\ Sound(rows[r])
           /\ Owned(p, r) <= rows[r].reserved
<1>1. taken[p][r] # 0
  BY OwnedType DEF OwnedInv, Owned
<1>2. rows[r] \in Row /\ Sound(rows[r]) /\ rows[r].reserved = held[r] /\ held[r] \in Int
  BY <1>1, NoRowAssumption DEF OwnedInv, InventoryInv, TypeOK, ReservedIsHeld
<1> DEFINE f == [o \in Orders |-> Owned(o, r)]
<1>3. /\ f \in [Orders -> Int] /\ IsFiniteSet(Orders) /\ \A o \in Orders : f[o] >= 0
      /\ f[p] = Owned(p, r)
  BY OwnedType, OrderAssumption DEF OwnedInv
<1>4. OwnedInAll(r) = SumFunctionOnSet(f, Orders)
  BY DEF OwnedInAll
<1> HIDE DEF f
<1>5. /\ SumFunctionOnSet(f, Orders) = f[p] + SumFunctionOnSet(f, Orders \ {p})
      /\ IsFiniteSet(Orders \ {p})
  BY <1>3, SumTakesOut, FS_Subset
<1>6. 0 <= SumFunctionOnSet(f, Orders \ {p}) /\ SumFunctionOnSet(f, Orders \ {p}) \in Int
  BY <1>3, <1>5, SumOfFewer, SumEmpty, SumType
<1> QED
  BY <1>2, <1>3, <1>4, <1>5, <1>6, OwnedType DEF OwnedInv

LEMMA OwnedInitially == OrderInit => OwnedInv /\ PromiseInv
<1> SUFFICES ASSUME OrderInit PROVE OwnedInv /\ PromiseInv
  OBVIOUS
<1>1. OrderTypeOK
  BY OrderInitTyped
<1>2. InventoryInv
  <2>1. TypeOK
    BY <1>1 DEF OrderTypeOK
  <2> QED
    BY <2>1 DEF OrderInit, InventoryInv, ReservedIsHeld
<1>3. \A o \in Orders, r \in RowIds : Owned(o, r) = 0 /\ taken[o][r] = 0
  BY DEF OrderInit, Owned
<1>4. ASSUME NEW r \in RowIds PROVE held[r] >= OwnedInAll(r)
  <2>1. [o \in Orders |-> Owned(o, r)] = [o \in Orders |-> 0]
    BY <1>3
  <2>2. OwnedInAll(r) = 0
    BY <2>1, SumOfZeros, OrderAssumption DEF OwnedInAll
  <2>3. held[r] \in Nat
    <3>1. Opening[r] # NoRow => Opening[r] \in Row /\ Opening[r].reserved \in Nat
      BY OrderAssumption DEF Row
    <3> QED
      BY <3>1 DEF OrderInit
  <2> QED
    BY <2>2, <2>3
<1>5. OwnedInv
  BY <1>1, <1>2, <1>3, <1>4 DEF OwnedInv
<1>6. \A h \in Handlers : req[h] = NoReq /\ NoReq.pc = "idle" /\ Fits(NoReq)
  BY NoReqFits DEF OrderInit
<1>7. Promised = {}
  BY StatusFacts DEF Promised, OrderInit, None
<1>8. \A h \in Handlers : Current(req[h]) /\ Fits(req[h])
  BY <1>6 DEF Current
<1>9. \A h \in Handlers, o \in Orders, r \in RowIds : Owned(o, r) >= Part(req[h], o, r)
  BY <1>3, <1>6 DEF Part
<1> QED
  BY <1>5, <1>6, <1>7, <1>8, <1>9 DEF PromiseInv

LEMMA OwnedKept ==
    ASSUME OwnedInv, OrderTypeOK', UNCHANGED <<rows, held, taken, given>>
    PROVE  OwnedInv'
  BY DEF OwnedInv, InventoryInv, TypeOK, ReservedIsHeld, Owned, OwnedInAll

(* A row that a command is accepted on is sound, and stays so.             *)
LEMMA MutateSound ==
    ASSUME TypeOK, NEW w \in RowIds, NEW cmd \in Command(Int, Int), Mutate(w, cmd)
    PROVE  /\ rows[w] \in Row /\ Sound(rows[w])
           /\ rows'[w] \in Row /\ Sound(rows'[w]) /\ rows'[w] # NoRow
           /\ HeldChange(cmd) \in Int /\ held'[w] = held[w] + HeldChange(cmd)
           /\ \A r \in RowIds \ {w} : rows'[r] = rows[r] /\ held'[r] = held[r]
<1>1. rows[w] \in Row /\ Accepts(rows[w], cmd)
  BY DEF Mutate, TypeOK
<1> QED
  BY <1>1, ApplyFacts, NoRowAssumption DEF Mutate, TypeOK

(* A line reserved or released: what its order owns of the row changes as  *)
(* what the row's callers hold does.                                       *)
LEMMA OwnedMoves ==
    ASSUME OwnedInv, OrderTypeOK', NEW p \in Orders, NEW w \in RowIds,
           NEW cmd \in Command(Int, Int), Mutate(w, cmd),
           \A o \in Orders, r \in RowIds :
              Owned(o, r)' = IF o = p /\ r = w THEN Owned(o, r) + HeldChange(cmd) ELSE Owned(o, r),
           Owned(p, w) + HeldChange(cmd) >= 0,
           \A o \in Orders, r \in RowIds \ {w} : taken'[o][r] = taken[o][r]
    PROVE  OwnedInv'
<1>0. OrderTypeOK /\ TypeOK /\ InventoryInv
  BY DEF OwnedInv, OrderTypeOK
<1>1. InventoryInv'
  BY <1>0, MutateKeeps
<1>2. PICK d \in Int :
         /\ d = HeldChange(cmd) /\ held'[w] = held[w] + d
         /\ rows'[w] # NoRow /\ Sound(rows'[w])
         /\ \A r \in RowIds \ {w} : rows'[r] = rows[r] /\ held'[r] = held[r]
  BY <1>0, MutateSound
<1>3. \A o \in Orders, r \in RowIds : Owned(o, r)' >= 0
  BY <1>2 DEF OwnedInv
<1>4. ASSUME NEW r \in RowIds PROVE held'[r] >= OwnedInAll(r)'
  <2>1. OwnedInAll(r)' = IF r = w THEN OwnedInAll(r) + d ELSE OwnedInAll(r)
    BY <1>0, <1>2, OwnedChange
  <2>2. OwnedInAll(r) \in Int /\ held[r] \in Int /\ held[r] >= OwnedInAll(r)
    BY <1>0, OwnedInAllType DEF OwnedInv, TypeOK
  <2> QED
    BY <1>2, <2>1, <2>2
<1>5. \A r \in RowIds : rows'[r] = NoRow \/ ~Sound(rows'[r]) => \A o \in Orders : taken'[o][r] = 0
  BY <1>2 DEF OwnedInv
<1> QED
  BY <1>1, <1>3, <1>4, <1>5 DEF OwnedInv

(* Staff who do not release, and the feed, take nothing of what is owned.  *)
LEMMA OwnedInventory ==
    ASSUME OwnedInv, \A cmd \in StaffCommands : cmd.kind # "release",
           \/ \E r \in RowIds, cmd \in StaffCommands : StaffMutate(r, cmd)
           \/ \E levels \in Feeds : SyncUpsert(levels)
           \/ \E delisted \in SUBSET RowIds : SyncDelist(delisted)
    PROVE  OwnedInv'
<1>0. OrderTypeOK /\ TypeOK /\ InventoryInv /\ OrderTypeOK' /\ UNCHANGED <<taken, given>>
  BY InventorySteps DEF OwnedInv, OrderTypeOK, orderOnly
<1>1. \A o \in Orders, r \in RowIds : Owned(o, r)' = Owned(o, r)
  BY <1>0 DEF Owned
<1>2. \A r \in RowIds : OwnedInAll(r)' = OwnedInAll(r)
  BY <1>0 DEF OwnedInAll, Owned
<1>3. ASSUME InventoryInv', \A r \in RowIds : held'[r] >= held[r],
             \A r \in RowIds : \/ rows'[r] = rows[r]
                               \/ rows'[r] # NoRow /\ Sound(rows'[r])
      PROVE  OwnedInv'
  <2>1. \A r \in RowIds : held'[r] >= OwnedInAll(r)'
    <3>1. \A r \in RowIds : OwnedInAll(r) \in Int /\ held[r] \in Int /\ held'[r] \in Int
      BY <1>0, OwnedInAllType DEF TypeOK, OrderTypeOK
    <3> QED
      BY <1>2, <1>3, <3>1 DEF OwnedInv
  <2> QED
    BY <1>0, <1>1, <1>3, <2>1 DEF OwnedInv
<1>4. ASSUME NEW w \in RowIds, NEW cmd \in StaffCommands, StaffMutate(w, cmd) PROVE OwnedInv'
  <2>1. cmd \in Command(Int, Int) /\ cmd.kind # "release" /\ Mutate(w, cmd)
    BY <1>4, CommandsTyped, OrderAssumption DEF StaffMutate
  <2>2. HeldChange(cmd) >= 0
    <3>1. Accepts(rows[w], cmd)
      BY <2>1 DEF Mutate
    <3> QED
      BY <2>1, <3>1 DEF HeldChange, Accepts, CanReserve, Command
  <2>3. InventoryInv'
    BY <1>0, <2>1, MutateKeeps
  <2>4. \A r \in RowIds : held'[r] >= held[r]
    BY <1>0, <2>1, <2>2, MutateSound DEF TypeOK
  <2>5. \A r \in RowIds : rows'[r] = rows[r] \/ (rows'[r] # NoRow /\ Sound(rows'[r]))
    BY <1>0, <2>1, MutateSound
  <2> QED
    BY <1>3, <2>3, <2>4, <2>5
<1>5. ASSUME NEW levels \in Feeds, SyncUpsert(levels) PROVE OwnedInv'
  <2>1. BulkUpsert(levels) /\ UNCHANGED held
    BY <1>5 DEF SyncUpsert, BulkUpsert
  <2>2. InventoryInv'
    BY <1>0, <2>1, UpsertKeeps
  <2>3. \A r \in RowIds : rows'[r] = rows[r] \/ (rows'[r] # NoRow /\ Sound(rows'[r]))
    <3>1. \A r \in DOMAIN levels : levels[r] \in Nat
      BY InventoryAssumption DEF Feeds
    <3>2. \A r \in DOMAIN levels \cap RowIds :
             FeedWrite(rows[r], levels[r]) \in Row /\ Sound(FeedWrite(rows[r], levels[r]))
      BY <1>0, <3>1, FeedWriteFacts DEF TypeOK
    <3> QED
      BY <2>1, <3>2, NoRowAssumption DEF BulkUpsert
  <2>4. \A r \in RowIds : held'[r] >= held[r]
    BY <1>0, <2>1 DEF TypeOK
  <2> QED
    BY <1>3, <2>2, <2>3, <2>4
<1>6. ASSUME NEW delisted \in SUBSET RowIds, SyncDelist(delisted) PROVE OwnedInv'
  <2>1. ZeroOut(delisted) /\ UNCHANGED held
    BY <1>6 DEF SyncDelist, ZeroOut
  <2>2. InventoryInv'
    BY <1>0, <2>1, ZeroOutKeeps
  <2>3. \A r \in RowIds : rows'[r] = rows[r] \/ (rows'[r] # NoRow /\ Sound(rows'[r]))
    <3>1. \A r \in delisted : rows[r] \in Row
      BY <1>0, <2>1 DEF ZeroOut, Delistable, TypeOK
    <3>2. \A r \in delisted : Delisted(rows[r]) \in Row /\ Sound(Delisted(rows[r]))
      BY <3>1, DelistedFacts
    <3> QED
      BY <2>1, <3>2, NoRowAssumption DEF ZeroOut
  <2>4. \A r \in RowIds : held'[r] >= held[r]
    BY <1>0, <2>1 DEF TypeOK
  <2> QED
    BY <1>3, <2>2, <2>3, <2>4
<1> QED
  BY <1>4, <1>5, <1>6

(* The one request that works on an order is all that matters to it.       *)
LEMMA PromiseAtRest ==
    ASSUME PromiseInv, OrderTypeOK, OneAtATime, NEW h \in Handlers, req[h] # NoReq,
           req[h].pc # "releasing", req[h].order \in Promised, NEW r \in RowIds
    PROVE  Owned(req[h].order, r) >= Need(req[h].order, r)
<1>1. ASSUME NEW k \in Handlers, req[k].pc = "releasing", req[k].order = req[h].order PROVE FALSE
  <2>1. req[k] # NoReq
    BY <1>1, NoReqFits
  <2>2. k = h
    BY <1>1, <2>1 DEF OneAtATime
  <2> QED
    BY <1>1, <2>2
<1> QED
  BY <1>1 DEF PromiseInv

(* A request moves on, and touches no order but its own.                   *)
LEMMA PromiseGoesOn ==
    ASSUME PromiseInv, OwnedInv, OrderTypeOK', OneAtATime,
           NEW h \in Handlers, req[h] # NoReq, NEW q \in Request, req' = [req EXCEPT ![h] = q],
           NEW p \in Orders, p = req[h].order, q = NoReq \/ q.order = p,
           \A o \in Orders \ {p} : status'[o] = status[o],
           \A o \in Orders \ {p}, r \in RowIds : Owned(o, r)' = Owned(o, r),
           Current(q)', Fits(q),
           \A r \in RowIds : Owned(p, r)' >= 0 /\ Owned(p, r)' >= Part(q, p, r),
           q.pc = "releasing" => \A r \in RowIds : Owned(p, r)' >= Need(p, r) - Upto(p, r, q.line),
           q.pc # "releasing" /\ status'[p] \in {"confirmed", "preparing"}
               => \A r \in RowIds : Owned(p, r)' >= Need(p, r)
    PROVE  PromiseInv'
<1>0. /\ OrderTypeOK /\ req'[h] = q /\ \A g \in Handlers \ {h} : req'[g] = req[g]
      /\ \A g \in Handlers : req[g] \in Request /\ req'[g] \in Request
  BY ReqTyped DEF OwnedInv, OrderTypeOK
<1>1. ASSUME NEW g \in Handlers \ {h}, req[g] # NoReq PROVE req[g].order \in Orders \ {p}
  <2>1. req[g].order # p
    BY <1>1 DEF OneAtATime
  <2>2. req[g].order \in Orders
    BY <1>0, <1>1, RequestIs DEF Transitions, Patches
  <2> QED
    BY <2>1, <2>2
<1>2. ASSUME NEW g \in Handlers PROVE Current(req[g])' /\ Fits(req'[g])
  <2>1. CASE g = h
    BY <1>0, <2>1 DEF Current
  <2>2. CASE g # h /\ req[g] = NoReq
    BY <1>0, <2>2, NoReqFits DEF Current
  <2>3. CASE g # h /\ req[g] # NoReq
    <3>1. status'[req[g].order] = status[req[g].order]
      BY <1>1, <2>3
    <3> QED
      BY <1>0, <2>3, <3>1 DEF Current, PromiseInv
  <2> QED
    BY <2>1, <2>2, <2>3
<1>3. ASSUME NEW g \in Handlers, NEW o \in Orders, NEW r \in RowIds
      PROVE  Owned(o, r)' >= Part(req'[g], o, r)
  <2>1. CASE g = h
    <3>1. CASE o = p
      BY <1>0, <2>1, <3>1
    <3>2. CASE o # p
      <4>1. Part(q, o, r) = 0
        BY <3>2, NoReqFits DEF Part
      <4> QED
        BY <1>0, <2>1, <3>2, <4>1 DEF OwnedInv
    <3> QED
      BY <3>1, <3>2
  <2>2. CASE g # h /\ o # p
    BY <1>0, <2>2 DEF PromiseInv
  <2>3. CASE g # h /\ o = p
    <3>1. Part(req[g], o, r) = 0
      BY <1>1, <2>3, NoReqFits DEF Part
    <3> QED
      BY <1>0, <2>3, <3>1
  <2> QED
    BY <2>1, <2>2, <2>3
<1>4. ASSUME NEW g \in Handlers, req'[g].pc = "releasing", NEW r \in RowIds
      PROVE  Owned(req[g].order, r)' >= Need(req'[g].order, r)
                                           - Upto(req'[g].order, r, req'[g].line)
  <2>1. CASE g = h
    <3>1. q.order = p
      BY <1>0, <1>4, <2>1, NoReqFits
    <3> QED
      BY <1>0, <1>4, <2>1, <3>1
  <2>2. CASE g # h
    <3>1. req[g].order \in Orders \ {p}
      BY <1>0, <1>1, <1>4, <2>2, NoReqFits
    <3> QED
      BY <1>0, <1>4, <2>2, <3>1 DEF PromiseInv
  <2> QED
    BY <2>1, <2>2
<1>5. ASSUME NEW o \in Orders, status'[o] \in {"confirmed", "preparing"}, NEW r \in RowIds,
             \A g \in Handlers : ~(req'[g].pc = "releasing" /\ req'[g].order = o)
      PROVE  Owned(o, r)' >= Need(o, r)
  <2>1. CASE o = p
    <3>1. q.pc # "releasing"
      BY <1>0, <1>5, <2>1, NoReqFits
    <3> QED
      BY <1>5, <2>1, <3>1
  <2>2. CASE o # p
    <3>1. \A g \in Handlers : ~(req[g].pc = "releasing" /\ req[g].order = o)
      BY <1>0, <1>5, <2>2
    <3>2. o \in Promised
      BY <1>5, <2>2 DEF Promised
    <3> QED
      BY <2>2, <3>1, <3>2 DEF PromiseInv
  <2> QED
    BY <2>1, <2>2
<1>6. \A g \in Handlers : req'[g].pc = "releasing" => req'[g].order = req[g].order
  BY <1>0, NoReqFits
<1>7. ASSUME NEW g \in Handlers, req'[g].pc = "releasing", NEW r \in RowIds
      PROVE  (Owned(req[g].order, r) >= Need(req[g].order, r)
                                           - Upto(req[g].order, r, req[g].line))'
  <2>1. PICK o : o = req[g].order /\ o = req'[g].order
    BY <1>6, <1>7
  <2> QED
    BY <1>4, <1>7, <2>1 DEF Need, Upto, Owned
<1> QED
  BY <1>2, <1>3, <1>5, <1>7 DEF PromiseInv, Promised, Current

(* What a request at one of its lines does there.                          *)
LEMMA AtLineFacts ==
    ASSUME OrderTypeOK, NEW h \in Handlers,
           NEW pc \in {"reserving", "releasing"}, AtLine(h, pc)
    PROVE  /\ req[h] \in Transitions /\ req[h] # NoReq
           /\ req[h].order \in Orders /\ req[h].line \in DOMAIN Lines[req[h].order]
           /\ req[h].line \in Nat
           /\ Line(req[h]).row \in RowIds /\ Line(req[h]).qty \in Nat \ {0}
           /\ \A kind \in {"reserve", "release"} : LineCommand(h, kind) \in Command(Int, Int)
           /\ \A r \in RowIds :
                 Upto(req[h].order, r, req[h].line + 1) =
                     Upto(req[h].order, r, req[h].line)
                         + (IF Line(req[h]).row = r THEN Line(req[h]).qty ELSE 0)
<1>1. /\ req[h] \in Transitions
      /\ \A kind \in {"reserve", "release"} : LineCommand(h, kind) \in Command(Int, Int)
  BY LineIs
<1>2. req[h].order \in Orders /\ req[h].line \in Nat \ {0} /\ req[h] # NoReq
  BY <1>1, NoReqFits DEF Transitions
<1>3. req[h].line \in DOMAIN Lines[req[h].order]
  BY <1>2, LinesAre DEF AtLine
<1>4. Line(req[h]).row \in RowIds /\ Line(req[h]).qty \in Nat \ {0}
  BY <1>2, <1>3, LinesAre DEF Line
<1>5. \A r \in RowIds :
         Upto(req[h].order, r, req[h].line + 1) =
             Upto(req[h].order, r, req[h].line)
                 + (IF Line(req[h]).row = r THEN Line(req[h]).qty ELSE 0)
  BY <1>2, <1>3, UptoFacts DEF Line
<1> QED
  BY <1>1, <1>2, <1>3, <1>4, <1>5

LEMMA TallyFacts ==
    ASSUME NEW ghost \in [Orders -> [RowIds -> Nat]], OrderTypeOK, NEW h \in Handlers,
           AtLine(h, "reserving") \/ AtLine(h, "releasing"), NEW o \in Orders, NEW r \in RowIds
    PROVE  Tally(ghost, h)[o][r] =
               ghost[o][r] + (IF o = req[h].order /\ r = Line(req[h]).row THEN Line(req[h]).qty ELSE 0)
<1>1. PICK p \in Orders, w \in RowIds, n \in Nat :
         p = req[h].order /\ w = Line(req[h]).row /\ n = Line(req[h]).qty
  BY AtLineFacts
<1>2. Tally(ghost, h) = [ghost EXCEPT ![p][w] = ghost[p][w] + n]
  BY <1>1 DEF Tally
<1>3. Tally(ghost, h)[o][r] = IF o = p /\ r = w THEN ghost[o][r] + n ELSE ghost[o][r]
  BY <1>2
<1>4. ghost[o][r] \in Nat
  OBVIOUS
<1> QED
  BY <1>1, <1>3, <1>4

LEMMA BackedReserve ==
    ASSUME OwnedInv, PromiseInv, OneAtATime, NEW h \in Handlers, ReserveLine(h)
    PROVE  OwnedInv' /\ PromiseInv'
<1>0. PICK p \in Orders, w \in RowIds, n \in Nat \ {0} :
         p = req[h].order /\ w = Line(req[h]).row /\ n = Line(req[h]).qty
  BY AtLineFacts DEF ReserveLine, OwnedInv
<1>1. PICK q : q = [req[h] EXCEPT !.line = req[h].line + 1]
  OBVIOUS
<1>2. AtLine(h, "reserving") /\ req[h].pc = "reserving" /\ OrderTypeOK
  BY DEF ReserveLine, AtLine, OwnedInv
<1>3. /\ req[h] # NoReq /\ req[h] \in Transitions /\ req[h].line \in Nat
      /\ LineCommand(h, "reserve") \in Command(Int, Int)
  BY <1>2, AtLineFacts
<1>4. /\ OrderTypeOK' /\ UNCHANGED <<status, given>> /\ req' = [req EXCEPT ![h] = q]
      /\ Mutate(w, LineCommand(h, "reserve")) /\ taken' = Tally(taken, h)
  BY <1>0, <1>1, <1>2, LineSteps DEF ReserveLine
<1>5. q \in Request /\ Fits(q)
  BY <1>1, <1>3, FitsGoesOn DEF PromiseInv
<1>6. /\ q.pc = "reserving" /\ q.order = p /\ q.seen = req[h].seen /\ q.to = req[h].to
      /\ q.line = req[h].line + 1
  BY <1>0, <1>1, <1>2, <1>3, TransitionGoesOn DEF Transitions
<1>7. \A o \in Orders, r \in RowIds :
         /\ taken'[o][r] = taken[o][r] + (IF o = p /\ r = w THEN n ELSE 0)
         /\ taken[o][r] \in Nat /\ given[o][r] \in Nat
  <2> TAKE o \in Orders, r \in RowIds
  <2>1. taken[o][r] \in Nat /\ given[o][r] \in Nat /\ taken \in [Orders -> [RowIds -> Nat]]
    BY <1>2 DEF OrderTypeOK
  <2>2. Tally(taken, h)[o][r] = taken[o][r] + (IF o = p /\ r = w THEN n ELSE 0)
    BY <1>0, <1>2, <2>1, TallyFacts
  <2> QED
    BY <1>4, <2>1, <2>2
<1>8. HeldChange(LineCommand(h, "reserve")) = n
  BY <1>0 DEF HeldChange, LineCommand
<1>9. \A o \in Orders, r \in RowIds :
         /\ Owned(o, r)' = IF o = p /\ r = w THEN Owned(o, r) + n ELSE Owned(o, r)
         /\ Owned(o, r) \in Int /\ Owned(o, r) >= 0
  <2> TAKE o \in Orders, r \in RowIds
  <2>1. Owned(o, r)' = taken'[o][r] - given[o][r] /\ Owned(o, r) = taken[o][r] - given[o][r]
    BY <1>4 DEF Owned
  <2>2. Owned(o, r) >= 0
    BY DEF OwnedInv
  <2> QED
    BY <1>3, <1>7, <2>1, <2>2
<1>10. OwnedInv'
  <2>1. \A o \in Orders, r \in RowIds \ {w} : taken'[o][r] = taken[o][r]
    BY <1>7
  <2> QED
    BY <1>3, <1>4, <1>8, <1>9, <2>1, OwnedMoves
<1>11. ASSUME NEW r \in RowIds PROVE Owned(p, r)' >= 0 /\ Owned(p, r)' >= Part(q, p, r)
  <2>1. Upto(p, r, req[h].line + 1) = Upto(p, r, req[h].line) + (IF w = r THEN n ELSE 0)
    BY <1>0, <1>2, AtLineFacts
  <2>2. Upto(p, r, req[h].line) \in Nat
    BY <1>3, UptoFacts
  <2>3. Owned(p, r) >= Upto(p, r, req[h].line)
    <3>1. Part(req[h], p, r) = Upto(p, r, req[h].line)
      BY <1>0, <1>2 DEF Part
    <3> QED
      BY <1>3, <3>1 DEF PromiseInv
  <2>4. Part(q, p, r) = Upto(p, r, req[h].line + 1)
    BY <1>6 DEF Part
  <2> QED
    BY <1>3, <1>9, <2>1, <2>2, <2>3, <2>4
<1>12. status'[p] \in {"confirmed", "preparing"} => \A r \in RowIds : Owned(p, r)' >= Need(p, r)
  <2> SUFFICES ASSUME status[p] \in {"confirmed", "preparing"}, NEW r \in RowIds
               PROVE  Owned(p, r)' >= Need(p, r)
    BY <1>4
  <2>1. p \in Promised
    BY <1>3 DEF Promised
  <2>2. Owned(p, r) >= Need(p, r)
    BY <1>0, <1>2, <1>3, <2>1, PromiseAtRest
  <2>3. Need(p, r) \in Nat
    BY <1>3, UptoFacts
  <2> QED
    BY <1>3, <1>9, <2>2, <2>3
<1>13. Current(q)'
  <2>1. q.seen = status'[q.order]
    BY <1>0, <1>2, <1>4, <1>6 DEF PromiseInv, Current
  <2> QED
    BY <1>6, <2>1 DEF Current
<1>14. \A o \in Orders \ {p} : status'[o] = status[o] /\ \A r \in RowIds : Owned(o, r)' = Owned(o, r)
  BY <1>4, <1>9
<1>15. PromiseInv'
  <2>1. p = req[h].order /\ q.order = p /\ q.pc # "releasing"
    BY <1>0, <1>6
  <2> QED
    BY <1>3, <1>4, <1>5, <1>11, <1>12, <1>13, <1>14, <2>1, PromiseGoesOn
<1> QED
  BY <1>10, <1>15

(* A request that releases owns the line it is at, so the row is there and *)
(* cannot refuse.                                                          *)
LEMMA ReleaseIsOwned ==
    ASSUME OwnedInv, PromiseInv, NEW h \in Handlers, AtLine(h, "releasing")
    PROVE  /\ Owned(req[h].order, Line(req[h]).row) >= Line(req[h]).qty
           /\ rows[Line(req[h]).row] # NoRow
           /\ Accepts(rows[Line(req[h]).row], LineCommand(h, "release"))
<1>0. PICK p \in Orders, w \in RowIds, n \in Nat \ {0}, i \in Nat :
         p = req[h].order /\ w = Line(req[h]).row /\ n = Line(req[h]).qty /\ i = req[h].line
  BY AtLineFacts DEF OwnedInv
<1>1. /\ Upto(p, w, i + 1) = Upto(p, w, i) + n /\ Upto(p, w, i) \in Nat
      /\ Upto(p, w, i + 1) <= Need(p, w) /\ Need(p, w) \in Nat
  <2>1. i + 1 \in Nat
    OBVIOUS
  <2>2. Upto(p, w, i + 1) = Upto(p, w, i) + n
    BY <1>0, AtLineFacts DEF OwnedInv
  <2> QED
    BY <2>1, <2>2, UptoFacts
<1>2. Owned(p, w) >= Need(p, w) - Upto(p, w, i) /\ Owned(p, w) \in Int
  BY <1>0, OwnedType DEF PromiseInv, AtLine, OwnedInv
<1>3. Owned(p, w) >= n /\ Owned(p, w) > 0
  BY <1>1, <1>2
<1>4. rows[w] \in Row /\ Sound(rows[w]) /\ Owned(p, w) <= rows[w].reserved
  BY <1>3, OwnedIsReserved
<1>5. CanRelease(rows[w], n)
  <2>1. rows[w].reserved \in Nat
    BY <1>4 DEF Row
  <2> QED
    BY <1>2, <1>3, <1>4, <2>1 DEF CanRelease
<1>6. Accepts(rows[w], LineCommand(h, "release"))
  BY <1>0, <1>4, <1>5 DEF Accepts, LineCommand
<1> QED
  BY <1>0, <1>3, <1>4, <1>6, NoRowAssumption

LEMMA BackedRelease ==
    ASSUME OwnedInv, PromiseInv, OneAtATime, NEW h \in Handlers, ReleaseLine(h)
    PROVE  OwnedInv' /\ PromiseInv'
<1>0. PICK p \in Orders, w \in RowIds, n \in Nat \ {0} :
         p = req[h].order /\ w = Line(req[h]).row /\ n = Line(req[h]).qty
  BY AtLineFacts DEF ReleaseLine, OwnedInv
<1>1. PICK q : q = [req[h] EXCEPT !.line = req[h].line + 1]
  OBVIOUS
<1>2. AtLine(h, "releasing") /\ req[h].pc = "releasing" /\ OrderTypeOK
  BY DEF ReleaseLine, AtLine, OwnedInv
<1>3. /\ req[h] # NoReq /\ req[h] \in Transitions /\ req[h].line \in Nat
      /\ LineCommand(h, "release") \in Command(Int, Int)
  BY <1>2, AtLineFacts
<1>4. /\ OrderTypeOK' /\ UNCHANGED <<status, taken>> /\ req' = [req EXCEPT ![h] = q]
      /\ Mutate(w, LineCommand(h, "release")) /\ given' = Tally(given, h)
  BY <1>0, <1>1, <1>2, LineSteps DEF ReleaseLine
<1>5. q \in Request /\ Fits(q)
  BY <1>1, <1>3, FitsGoesOn DEF PromiseInv
<1>6. /\ q.pc = "releasing" /\ q.order = p /\ q.seen = req[h].seen /\ q.to = req[h].to
      /\ q.line = req[h].line + 1
  BY <1>0, <1>1, <1>2, <1>3, TransitionGoesOn DEF Transitions
<1>7. HeldChange(LineCommand(h, "release")) = -n
  BY <1>0 DEF HeldChange, LineCommand
<1>8. \A o \in Orders, r \in RowIds :
         /\ Owned(o, r)' = IF o = p /\ r = w THEN Owned(o, r) + (-n) ELSE Owned(o, r)
         /\ Owned(o, r) \in Int /\ Owned(o, r) >= 0
  <2> TAKE o \in Orders, r \in RowIds
  <2>1. taken[o][r] \in Nat /\ given[o][r] \in Nat /\ given \in [Orders -> [RowIds -> Nat]]
    BY <1>2 DEF OrderTypeOK
  <2>2. Tally(given, h)[o][r] = given[o][r] + (IF o = p /\ r = w THEN n ELSE 0)
    BY <1>0, <1>2, <2>1, TallyFacts
  <2>3. Owned(o, r)' = taken[o][r] - given'[o][r] /\ Owned(o, r) = taken[o][r] - given[o][r]
    BY <1>4 DEF Owned
  <2>4. Owned(o, r) >= 0
    BY DEF OwnedInv
  <2> QED
    BY <1>4, <2>1, <2>2, <2>3, <2>4
<1>9. Owned(p, w) >= n
  BY <1>0, <1>2, ReleaseIsOwned
<1>10. OwnedInv'
  <2>1. \A o \in Orders, r \in RowIds \ {w} : taken'[o][r] = taken[o][r]
    BY <1>4
  <2>2. Owned(p, w) + (-n) >= 0
    BY <1>8, <1>9
  <2> QED
    BY <1>3, <1>4, <1>7, <1>8, <2>1, <2>2, OwnedMoves
<1>11. ASSUME NEW r \in RowIds PROVE Owned(p, r)' >= 0 /\ Owned(p, r)' >= Part(q, p, r)
  <2>1. Part(q, p, r) = 0
    BY <1>6 DEF Part
  <2> QED
    BY <1>8, <1>9, <2>1
<1>12. ASSUME NEW r \in RowIds PROVE Owned(p, r)' >= Need(p, r) - Upto(p, r, q.line)
  <2>1. Upto(p, r, q.line) = Upto(p, r, req[h].line) + (IF w = r THEN n ELSE 0)
    BY <1>0, <1>2, <1>6, AtLineFacts
  <2>2. Upto(p, r, req[h].line) \in Nat /\ Need(p, r) \in Nat
    BY <1>3, UptoFacts
  <2>3. Owned(p, r) >= Need(p, r) - Upto(p, r, req[h].line)
    BY <1>0, <1>2 DEF PromiseInv
  <2> QED
    BY <1>8, <2>1, <2>2, <2>3
<1>13. Current(q)'
  <2>1. q.seen = status'[q.order]
    BY <1>0, <1>2, <1>4, <1>6 DEF PromiseInv, Current
  <2> QED
    BY <1>6, <2>1 DEF Current
<1>14. \A o \in Orders \ {p} : status'[o] = status[o] /\ \A r \in RowIds : Owned(o, r)' = Owned(o, r)
  BY <1>4, <1>8
<1>15. PromiseInv'
  BY <1>0, <1>3, <1>4, <1>5, <1>6, <1>11, <1>12, <1>13, <1>14, PromiseGoesOn
<1> QED
  BY <1>10, <1>15

(* A request ends that was not releasing.                                  *)
LEMMA BackedEnds ==
    ASSUME OwnedInv, PromiseInv, OneAtATime, OrderTypeOK',
           NEW h \in Handlers, req[h] # NoReq, req[h].pc # "releasing",
           req' = [req EXCEPT ![h] = NoReq], UNCHANGED <<rows, held, status, taken, given>>
    PROVE  OwnedInv' /\ PromiseInv'
<1>1. OwnedInv'
  BY OwnedKept
<1>2. PICK p \in Orders : p = req[h].order
  BY RequestIs DEF OwnedInv, OrderTypeOK, Transitions, Patches
<1>3. PICK q \in Request : q = NoReq /\ q.pc = "idle" /\ Fits(q)
  BY NoReqFits
<1>4. Current(q)' /\ \A r \in RowIds : Part(q, p, r) = 0
  BY <1>3 DEF Current, Part
<1>5. \A o \in Orders, r \in RowIds : Owned(o, r)' = Owned(o, r) /\ Owned(o, r) >= 0
  BY DEF Owned, OwnedInv
<1>6. status'[p] \in {"confirmed", "preparing"} => \A r \in RowIds : Owned(p, r)' >= Need(p, r)
  BY <1>2, <1>5, PromiseAtRest DEF Promised, OwnedInv
<1>7. req' = [req EXCEPT ![h] = q] /\ q.pc # "releasing"
  BY <1>3
<1>8. \A o \in Orders \ {p} : status'[o] = status[o] /\ \A r \in RowIds : Owned(o, r)' = Owned(o, r)
  BY <1>5
<1>9. \A r \in RowIds : Owned(p, r)' >= 0 /\ Owned(p, r)' >= Part(q, p, r)
  BY <1>4, <1>5
<1>10. PromiseInv'
  BY <1>2, <1>3, <1>4, <1>6, <1>7, <1>8, <1>9, PromiseGoesOn
<1> QED
  BY <1>1, <1>10

(* A save that will leave the status alone found the one it wants, and     *)
(* with one request at a time per order nobody changes it meanwhile.       *)
SavesSound ==
    \A h \in Handlers : Unwritten(h) => Decided(h) /\ status[req[h].order] = req[h].to

LEMMA SoundInitially == OrderInit => SavesSound
  BY DEF OrderInit, SavesSound, Unwritten, NoSave

LEMMA SoundKept ==
    ASSUME OrderTypeOK, SavesSound, NEW h \in Handlers,
           \A g \in Handlers \ {h} : save'[g] = save[g] /\ req'[g] = req[g],
           \A g \in Handlers \ {h} : Decided(g) => status'[req[g].order] = status[req[g].order],
           Unwritten(h)' => Decided(h)' /\ status'[req'[h].order] = req'[h].to
    PROVE  SavesSound'
<1> SUFFICES ASSUME NEW g \in Handlers, Unwritten(g)'
             PROVE  Decided(g)' /\ status'[req'[g].order] = req'[g].to
  BY DEF SavesSound
<1>1. CASE g = h
  BY <1>1
<1>2. CASE g # h
  <2>1. save'[g] = save[g] /\ req'[g] = req[g]
    BY <1>2
  <2>2. Unwritten(g) /\ (Decided(g)' <=> Decided(g))
    BY <2>1 DEF Unwritten, Decided
  <2> QED
    BY <1>2, <2>1, <2>2 DEF SavesSound
<1> QED
  BY <1>1, <1>2

LEMMA SoundAsIs ==
    ASSUME OrderTypeOK, SavesSound, UNCHANGED <<status, req, saving>>
    PROVE  SavesSound'
  BY DEF SavesSound, Unwritten, Decided, saving

(* A request that is not about to save moves on, and changes the status of *)
(* no order but its own.                                                   *)
LEMMA SoundGoesOn ==
    ASSUME OrderTypeOK, SavesSound, OneAtATime, NEW h \in Handlers, ~Decided(h), NEW q,
           req' = [req EXCEPT ![h] = q], UNCHANGED saving,
           \/ UNCHANGED status
           \/ req[h] # NoReq /\ \E v : status' = [status EXCEPT ![req[h].order] = v]
    PROVE  SavesSound'
<1>1. \A g \in Handlers \ {h} : save'[g] = save[g] /\ req'[g] = req[g]
  BY DEF OrderTypeOK, saving
<1>2. ~Unwritten(h) /\ ~Unwritten(h)'
  BY DEF SavesSound, Unwritten, saving
<1>3. ASSUME NEW g \in Handlers \ {h}, Decided(g)
      PROVE  status'[req[g].order] = status[req[g].order]
  <2>1. req[g] # NoReq /\ req[g].order \in Orders
    BY <1>3, RequestIs, NoReqFits DEF Decided, OrderTypeOK, Transitions
  <2>2. req[h] # NoReq => req[g].order # req[h].order
    BY <2>1 DEF OneAtATime
  <2> QED
    BY <2>1, <2>2 DEF OrderTypeOK
<1> QED
  BY <1>1, <1>2, <1>3, SoundKept

LEMMA SoundStep ==
    ASSUME OrderTypeOK, SavesSound, OneAtATime, [OrderNext]_orderVars
    PROVE  SavesSound'
<1>1. ASSUME NEW h \in Handlers, NEW q \in Request, Begins(h, q) PROVE SavesSound'
  BY <1>1, BeginSteps, SoundGoesOn
<1>2. ASSUME NEW h \in Handlers, ReserveLine(h) \/ ReleaseLine(h) \/ SkipLine(h) PROVE SavesSound'
  <2>1. UNCHANGED <<status, saving>> /\ ~Decided(h)
    BY <1>2, LineSteps
  <2>2. PICK q : req' = [req EXCEPT ![h] = q]
    BY <1>2, LineSteps
  <2> QED
    BY <2>1, <2>2, SoundGoesOn
<1>3. ASSUME NEW h \in Handlers, RefuseLine(h) \/ Fail(h) PROVE SavesSound'
  <2>1. /\ UNCHANGED status /\ req' = [req EXCEPT ![h] = NoReq]
        /\ save' = [save EXCEPT ![h] = NoSave]
    BY <1>3, EndSteps
  <2>2. /\ save'[h] = NoSave
        /\ \A g \in Handlers \ {h} : save'[g] = save[g] /\ req'[g] = req[g]
    BY <2>1 DEF OrderTypeOK
  <2>3. ~Unwritten(h)'
    BY <2>2, SaveIs DEF Unwritten
  <2> QED
    BY <2>1, <2>2, <2>3, SoundKept
<1>4. ASSUME NEW h \in Handlers, SaveTransition(h) PROVE SavesSound'
  <2>1. /\ req[h] \in Transitions
        /\ save' = [save EXCEPT ![h] = NoSave]
        /\ req' = [req EXCEPT ![h] = [req[h] EXCEPT !.pc = "announcing"]]
        /\ status' = [status EXCEPT ![req[h].order] =
                         IF save[h].writes THEN req[h].to ELSE status[req[h].order]]
    BY <1>4, SaveSteps
  <2>2. /\ save'[h] = NoSave
        /\ \A g \in Handlers \ {h} : save'[g] = save[g] /\ req'[g] = req[g]
    BY <2>1 DEF OrderTypeOK
  <2>3. ~Unwritten(h)'
    BY <2>2, SaveIs DEF Unwritten
  <2>4. req[h] # NoReq
    BY <1>4, SaveSteps, NoReqFits DEF Decided
  <2>5. ASSUME NEW g \in Handlers \ {h}, Decided(g)
        PROVE  status'[req[g].order] = status[req[g].order]
    <3>1. req[g] # NoReq /\ req[g].order \in Orders
      BY <2>5, RequestIs, NoReqFits DEF Decided, OrderTypeOK, Transitions
    <3>2. req[g].order # req[h].order
      BY <2>4, <3>1 DEF OneAtATime
    <3> QED
      BY <2>1, <3>1, <3>2 DEF OrderTypeOK
  <2> QED
    BY <2>2, <2>3, <2>5, SoundKept
<1>5. ASSUME NEW h \in Handlers, Announce(h) PROVE SavesSound'
  BY <1>5, EmitSteps, SoundGoesOn
<1>6. ASSUME NEW h \in Handlers, SavePatch(h) PROVE SavesSound'
  <2>1. /\ UNCHANGED saving /\ ~Decided(h) /\ req' = [req EXCEPT ![h] = NoReq]
        /\ \E v : status' = [status EXCEPT ![req[h].order] = v]
    BY <1>6, PatchSteps
  <2>2. req[h] # NoReq
    BY <1>6, NoReqFits DEF SavePatch
  <2> QED
    BY <2>1, <2>2, SoundGoesOn
<1>7. ASSUME NEW h \in Handlers, OpenSave(h) PROVE SavesSound'
  <2>1. /\ save'[h] = [pc |-> "begun", at |-> clock + 1] /\ UNCHANGED <<status, req>>
        /\ \A g \in Handlers \ {h} : save'[g] = save[g]
    BY <1>7 DEF OpenSave, OrderTypeOK
  <2>2. ~Unwritten(h)'
    BY <2>1 DEF Unwritten
  <2> QED
    BY <2>1, <2>2, SoundKept
<1>8. ASSUME NEW h \in Handlers, CompareStatus(h) PROVE SavesSound'
  <2>1. PICK w \in BOOLEAN : w = (status[req[h].order] # req[h].to)
    OBVIOUS
  <2>2. /\ save'[h] = [pc |-> "compared", at |-> save[h].at, writes |-> w]
        /\ UNCHANGED <<status, req>> /\ Decided(h)
        /\ \A g \in Handlers \ {h} : save'[g] = save[g]
    BY <1>8, <2>1 DEF CompareStatus, OrderTypeOK
  <2>3. save'[h].writes = w
    BY <2>2
  <2>4. Unwritten(h)' => Decided(h)' /\ status'[req'[h].order] = req'[h].to
    BY <2>1, <2>2, <2>3 DEF Unwritten, Decided
  <2> QED
    BY <2>2, <2>4, SoundKept
<1>9. CASE OrderTypeOK' /\ UNCHANGED orderOnly
  BY <1>9, SoundAsIs DEF orderOnly
<1> QED
  BY <1>1, <1>2, <1>3, <1>4, <1>5, <1>6, <1>7, <1>8, <1>9, SavingSteps

(* The save of a transition then leaves the order in the status it says.   *)
LEMMA SavesItsStatus ==
    ASSUME OrderTypeOK, SavesSound, NEW h \in Handlers, SaveTransition(h)
    PROVE  status' = [status EXCEPT ![req[h].order] = req[h].to]
<1>1. /\ save[h].pc = "compared"
      /\ status' = [status EXCEPT ![req[h].order] =
                       IF save[h].writes THEN req[h].to ELSE status[req[h].order]]
  BY SaveSteps
<1>2. ~save[h].writes => status[req[h].order] = req[h].to
  BY <1>1 DEF SavesSound, Unwritten
<1> QED
  BY <1>1, <1>2

(* What a request saves as promised it owns: a confirmation reserved it,   *)
(* and an order to be prepared was confirmed.                              *)
LEMMA BackedSave ==
    ASSUME OwnedInv, PromiseInv, OneAtATime, SavesSound, "preparing" \notin CreateStatuses,
           NEW h \in Handlers, SaveTransition(h)
    PROVE  OwnedInv' /\ PromiseInv'
<1>1. PICK q : q = [req[h] EXCEPT !.pc = "announcing"]
  OBVIOUS
<1>2. /\ OrderTypeOK /\ OrderTypeOK' /\ req[h] \in Transitions /\ req[h].pc # "announcing"
      /\ req' = [req EXCEPT ![h] = q] /\ Decided(h) /\ Fits(req[h]) /\ Current(req[h])
      /\ UNCHANGED <<rows, held, taken, given>>
  BY <1>1, SaveSteps DEF OwnedInv, PromiseInv
<1>3. q \in Request /\ Fits(q) /\ q.pc = "announcing" /\ q.order = req[h].order
  BY <1>1, <1>2, FitsGoesOn, TransitionGoesOn
<1>4. PICK p \in Orders : p = req[h].order /\ status' = [status EXCEPT ![p] = req[h].to]
  BY <1>2, SavesItsStatus DEF Transitions
<1>5. OwnedInv'
  BY <1>2, OwnedKept
<1>6. Current(q)' /\ \A r \in RowIds : Part(q, p, r) = 0
  BY <1>3 DEF Current, Part
<1>7. \A o \in Orders, r \in RowIds : Owned(o, r)' = Owned(o, r) /\ Owned(o, r) >= 0
  BY <1>2 DEF Owned, OwnedInv
<1>8. \A o \in Orders \ {p} : status'[o] = status[o]
  BY <1>2, <1>4 DEF OrderTypeOK
<1>9. req[h] # NoReq /\ req[h].line \in Nat
  BY <1>2, NoReqFits DEF Transitions
<1>10. ASSUME req[h].to \in {"confirmed", "preparing"}, NEW r \in RowIds
       PROVE  Owned(p, r) >= Need(p, r)
  <2>1. CASE req[h].to = "confirmed"
    <3>1. req[h].pc = "reserving" /\ req[h].line > Len(Lines[p])
      BY <1>2, <1>4, <2>1 DEF Fits, Decided
    <3>2. Part(req[h], p, r) = Need(p, r)
      BY <1>4, <1>9, <3>1, UptoFacts DEF Part
    <3> QED
      BY <1>4, <3>2 DEF PromiseInv
  <2>2. CASE req[h].to = "preparing"
    <3>1. req[h].seen = "confirmed" /\ req[h].pc = "saving"
      BY <1>2, <2>2 DEF Fits, Decided
    <3>2. p \in Promised
      BY <1>2, <1>4, <3>1 DEF Current, Promised
    <3> QED
      BY <1>2, <1>4, <1>9, <3>1, <3>2, PromiseAtRest
  <2> QED
    BY <1>10, <2>1, <2>2
<1>11. status'[p] \in {"confirmed", "preparing"} => \A r \in RowIds : Owned(p, r)' >= Need(p, r)
  <2>1. status'[p] = req[h].to
    BY <1>2, <1>4 DEF OrderTypeOK
  <2> QED
    BY <1>7, <1>10, <2>1
<1>12. /\ \A o \in Orders \ {p}, r \in RowIds : Owned(o, r)' = Owned(o, r)
       /\ \A r \in RowIds : Owned(p, r)' >= 0 /\ Owned(p, r)' >= Part(q, p, r)
       /\ q.pc # "releasing" /\ q.order = p
  BY <1>3, <1>4, <1>6, <1>7
<1>13. PromiseInv'
  BY <1>2, <1>3, <1>4, <1>6, <1>8, <1>9, <1>11, <1>12, PromiseGoesOn
<1> QED
  BY <1>5, <1>13

(* A request begins on an order that nobody else works on.                 *)
LEMMA BackedBegin ==
    ASSUME OwnedInv, PromiseInv, OneAtATime', PatchStatuses \subseteq {Same},
           NEW h \in Handlers, NEW q \in Request, Begins(h, q)
    PROVE  OwnedInv' /\ PromiseInv'
<1>1. /\ OrderTypeOK /\ OrderTypeOK' /\ UNCHANGED <<rows, held, status, taken, given>>
      /\ req[h] = NoReq /\ req' = [req EXCEPT ![h] = q] /\ Fits(q) /\ status[q.order] = q.seen
  BY BeginSteps DEF OwnedInv, Begins, Begin
<1>2. OwnedInv'
  BY <1>1, OwnedKept
<1>3. /\ req'[h] = q /\ \A g \in Handlers \ {h} : req'[g] = req[g]
      /\ \A g \in Handlers : req[g] \in Request
  BY <1>1, ReqTyped DEF OrderTypeOK
<1>4. q.order \in Orders /\ q # NoReq /\ (q.pc \in {"reserving", "releasing"} => q.line = 1)
  BY NoReqFits DEF Begins, Transitions, Patches
<1>5. Current(q)
  <2>1. q.pc = "patching" => q.to = Same /\ q.seen # None
    BY StatusFacts DEF Begins, Transitions, Patches
  <2> QED
    BY <1>1, <2>1 DEF Current
<1>6. \A g \in Handlers : Current(req'[g]) /\ Fits(req'[g])
  BY <1>1, <1>3, <1>5 DEF PromiseInv
<1>7. \A o \in Orders, r \in RowIds : Owned(o, r)' = Owned(o, r) /\ Owned(o, r) >= 0
  BY <1>1 DEF Owned, OwnedInv
<1>8. ASSUME NEW g \in Handlers, NEW o \in Orders, NEW r \in RowIds
      PROVE  Owned(o, r)' >= Part(req'[g], o, r)
  <2>1. Part(q, o, r) = 0
    BY <1>4, UptoFacts DEF Part
  <2> QED
    BY <1>3, <1>7, <2>1 DEF PromiseInv
<1>9. ASSUME q.pc = "releasing", NEW r \in RowIds
      PROVE  Owned(q.order, r) >= Need(q.order, r) - Upto(q.order, r, q.line)
  <2>1. q.order \in Promised
    BY <1>1, <1>4, <1>9, RequestIs DEF Fits, Promised
  <2>2. ASSUME NEW g \in Handlers, req[g].pc = "releasing", req[g].order = q.order PROVE FALSE
    <3>1. g # h /\ req'[g] # NoReq /\ req'[g].order = req'[h].order /\ req'[h] # NoReq
      BY <1>1, <1>3, <1>4, <2>2, NoReqFits
    <3> QED
      BY <3>1 DEF OneAtATime
  <2>3. Owned(q.order, r) >= Need(q.order, r)
    BY <2>1, <2>2 DEF PromiseInv
  <2>4. Upto(q.order, r, q.line) = 0 /\ Need(q.order, r) \in Nat
    BY <1>4, <1>9, UptoFacts
  <2> QED
    BY <2>3, <2>4
<1>10. ASSUME NEW g \in Handlers, req'[g].pc = "releasing", NEW r \in RowIds
       PROVE  (Owned(req[g].order, r) >= Need(req[g].order, r)
                                            - Upto(req[g].order, r, req[g].line))'
  <2>1. Owned(req'[g].order, r) >= Need(req'[g].order, r) - Upto(req'[g].order, r, req'[g].line)
    BY <1>3, <1>9, <1>10 DEF PromiseInv
  <2> QED
    BY <1>1, <2>1 DEF Owned, Need, Upto
<1>11. ASSUME NEW o \in Promised, NEW r \in RowIds,
              \A g \in Handlers : ~(req'[g].pc = "releasing" /\ req'[g].order = o)
       PROVE  Owned(o, r)' >= Need(o, r)
  <2>1. \A g \in Handlers : ~(req[g].pc = "releasing" /\ req[g].order = o)
    BY <1>1, <1>3, <1>11, NoReqFits
  <2>2. o \in Orders
    BY DEF Promised
  <2> QED
    BY <1>7, <2>1, <2>2 DEF PromiseInv
<1>12. \A g \in Handlers : Current(req[g])'
  BY <1>1, <1>6 DEF Current
<1>13. Promised' = Promised
  BY <1>1 DEF Promised
<1>14. PromiseInv'
  BY <1>6, <1>8, <1>10, <1>11, <1>12, <1>13 DEF PromiseInv
<1> QED
  BY <1>2, <1>14

BackedInv == OwnedInv /\ PromiseInv

(* What is asked of the constants: no request fails midway, no order is    *)
(* created as one that is already being packed, a PATCH leaves the status  *)
(* alone, and staff do not release by hand what an order holds.            *)
Orderly ==
    /\ MayFail = FALSE /\ "preparing" \notin CreateStatuses /\ PatchStatuses \subseteq {Same}
    /\ \A cmd \in StaffCommands : cmd.kind # "release"

LEMMA BackedStep ==
    ASSUME Orderly, BackedInv, OneAtATime, OneAtATime', SavesSound, [OrderNext]_orderVars
    PROVE  BackedInv'
<1>0. OrderTypeOK /\ OwnedInv /\ PromiseInv
  BY DEF BackedInv, OwnedInv
<1>1. ASSUME NEW h \in Handlers, NEW q \in Request, Begins(h, q) PROVE BackedInv'
  BY <1>0, <1>1, BackedBegin DEF Orderly, BackedInv
<1>2. ASSUME NEW h \in Handlers, ReserveLine(h) \/ ReleaseLine(h) PROVE BackedInv'
  BY <1>0, <1>2, BackedReserve, BackedRelease DEF BackedInv
<1>3. ASSUME NEW h \in Handlers, SkipLine(h) PROVE BackedInv'
  BY <1>0, <1>3, ReleaseIsOwned DEF SkipLine
<1>4. ASSUME NEW h \in Handlers, RefuseLine(h) \/ Fail(h) PROVE BackedInv'
  <2>1. AtLine(h, "reserving") /\ End(h)
    BY <1>0, <1>4, ReleaseIsOwned DEF RefuseLine, Fail, Orderly
  <2>2. req[h] # NoReq /\ req[h].pc # "releasing"
    BY <2>1, NoReqFits DEF AtLine
  <2>3. OrderTypeOK'
    BY <1>0, <1>4, EndSteps
  <2> QED
    BY <1>0, <2>1, <2>2, <2>3, BackedEnds DEF End, BackedInv
<1>5. ASSUME NEW h \in Handlers, SaveTransition(h) PROVE BackedInv'
  BY <1>0, <1>5, BackedSave DEF Orderly, BackedInv
<1>6. ASSUME NEW h \in Handlers, Announce(h) PROVE BackedInv'
  <2>1. OrderTypeOK' /\ req' = [req EXCEPT ![h] = NoReq] /\ req[h].pc = "announcing"
    BY <1>0, <1>6, EmitSteps
  <2>2. req[h] # NoReq /\ req[h].pc # "releasing"
    BY <2>1, NoReqFits
  <2>3. UNCHANGED <<rows, held, status, taken, given>>
    BY <1>6 DEF Announce
  <2> QED
    BY <1>0, <2>1, <2>2, <2>3, BackedEnds DEF BackedInv
<1>7. ASSUME NEW h \in Handlers, SavePatch(h) PROVE BackedInv'
  <2>1. /\ OrderTypeOK' /\ req' = [req EXCEPT ![h] = NoReq] /\ req[h] \in Patches
        /\ status' = [status EXCEPT ![req[h].order] =
                         IF req[h].to = Same THEN req[h].seen ELSE req[h].to]
    BY <1>0, <1>7, PatchSteps
  <2>2. req[h].pc = "patching" /\ req[h].order \in Orders
    BY <2>1 DEF Patches
  <2>3. status' = status
    BY <1>0, <2>1, <2>2 DEF PromiseInv, Current, OrderTypeOK
  <2>4. req[h] # NoReq /\ req[h].pc # "releasing"
    BY <2>2, NoReqFits
  <2>5. UNCHANGED <<rows, held, taken, given>>
    BY <1>7 DEF SavePatch
  <2> QED
    BY <1>0, <2>1, <2>3, <2>4, <2>5, BackedEnds DEF BackedInv
<1>8. ASSUME OwnedInv', UNCHANGED orderCore PROVE BackedInv'
  <2>1. UNCHANGED <<req, taken, given, status>>
    BY <1>8 DEF orderCore
  <2>2. \A o, r : Owned(o, r)' = Owned(o, r)
    BY <2>1 DEF Owned
  <2>3. Promised' = Promised /\ \A q : Current(q)' <=> Current(q)
    BY <2>1 DEF Promised, Current
  <2>4. PromiseInv'
    <3>1. \A h \in Handlers : Current(req[h])' /\ Fits(req[h])'
      BY <1>0, <2>1, <2>3 DEF PromiseInv
    <3>2. \A h \in Handlers, o \in Orders, r \in RowIds : Owned(o, r)' >= Part(req[h], o, r)'
      BY <1>0, <2>1, <2>2 DEF PromiseInv
    <3>3. \A h \in Handlers : req'[h].pc = "releasing" =>
             \A r \in RowIds :
                Owned(req[h].order, r)' >= (Need(req[h].order, r) - Upto(req[h].order, r, req[h].line))'
      BY <1>0, <2>1, <2>2 DEF PromiseInv
    <3>4. \A o \in Promised', r \in RowIds :
             (\A h \in Handlers : ~(req'[h].pc = "releasing" /\ req'[h].order = o))
                 => Owned(o, r)' >= Need(o, r)'
      BY <1>0, <2>1, <2>2, <2>3 DEF PromiseInv
    <3> QED
      BY <3>1, <3>2, <3>3, <3>4 DEF PromiseInv
  <2> QED
    BY <1>8, <2>4 DEF BackedInv
<1>9. CASE \/ \E r \in RowIds, cmd \in StaffCommands : StaffMutate(r, cmd)
           \/ \E levels \in Feeds : SyncUpsert(levels)
           \/ \E delisted \in SUBSET RowIds : SyncDelist(delisted)
  <2>1. OwnedInv'
    BY <1>0, <1>9, OwnedInventory DEF Orderly
  <2>2. UNCHANGED orderCore
    BY <1>0, <1>9, InventorySteps DEF orderOnly, orderCore
  <2> QED
    BY <1>8, <2>1, <2>2
<1>10. CASE UNCHANGED orderVars
  <2>1. OrderTypeOK' /\ UNCHANGED orderCore /\ UNCHANGED <<rows, held, taken, given>>
    BY <1>0, <1>10 DEF orderVars, orderCore, saving, OrderTypeOK, TypeOK
  <2>2. OwnedInv'
    BY <1>0, <2>1, OwnedKept
  <2> QED
    BY <1>8, <2>1, <2>2
<1>12. ASSUME NEW h \in Handlers, OpenSave(h) \/ CompareStatus(h) PROVE BackedInv'
  <2>1. OrderTypeOK' /\ UNCHANGED orderCore /\ UNCHANGED <<rows, held, taken, given>>
    BY <1>0, <1>12, OpenSteps DEF orderCore
  <2>2. OwnedInv'
    BY <1>0, <2>1, OwnedKept
  <2> QED
    BY <1>8, <2>1, <2>2
<1>11. CASE OrderNext
  BY <1>0, <1>1, <1>2, <1>3, <1>4, <1>5, <1>6, <1>7, <1>9, <1>11, <1>12, BeginIs
     DEF OrderNext, HandlerStep
<1> QED
  BY <1>10, <1>11

LEMMA BackedAtRest == BackedInv => Backed
<1> SUFFICES ASSUME BackedInv, NEW o \in Promised, NEW r \in RowIds, ~Busy(o)
             PROVE  Owned(o, r) >= Need(o, r)
  BY DEF Backed
<1>1. ASSUME NEW h \in Handlers, req[h].pc = "releasing" PROVE req[h].order # o
  <2>1. req[h] # NoReq
    BY <1>1, NoReqFits
  <2> QED
    BY <2>1 DEF Busy
<1> QED
  BY <1>1 DEF BackedInv, PromiseInv

LEMMA BackedCovers == BackedInv => NoOversell
<1> SUFFICES ASSUME BackedInv, NEW r \in RowIds
             PROVE  SumFunctionOnSet([o \in Orders |-> Need(o, r)], {o \in Promised : ~Busy(o)})
                        <= IF rows[r] = NoRow THEN 0 ELSE rows[r].stock
  BY DEF NoOversell
<1> DEFINE need == [o \in Orders |-> Need(o, r)]
           own == [o \in Orders |-> Owned(o, r)]
           zero == [o \in Orders |-> 0]
<1>1. OrderTypeOK /\ OwnedInv /\ Backed
  BY BackedAtRest DEF BackedInv, OwnedInv
<1>2. PICK S \in SUBSET Orders : S = {o \in Promised : ~Busy(o)}
  BY DEF Promised
<1>3. /\ need \in [Orders -> Int] /\ own \in [Orders -> Int] /\ zero \in [Orders -> Int]
      /\ IsFiniteSet(Orders) /\ IsFiniteSet(S)
      /\ \A o \in Orders : own[o] >= 0 /\ own[o] \in Int /\ need[o] \in Int
  BY <1>1, <1>2, OwnedType, UptoFacts, OrderAssumption, FS_Subset DEF OwnedInv
<1>4. \A o \in S : need[o] <= own[o]
  <2> SUFFICES ASSUME NEW o \in S PROVE need[o] <= own[o]
    OBVIOUS
  <2>1. Owned(o, r) >= Need(o, r)
    BY <1>1, <1>2 DEF Backed
  <2>2. need[o] \in Int /\ own[o] \in Int
    BY <1>3
  <2> QED
    BY <2>1, <2>2
<1>5. OwnedInAll(r) = SumFunctionOnSet(own, Orders)
  BY DEF OwnedInAll
<1>6. rows[r] = NoRow \/ ~Sound(rows[r]) => \A o \in Orders : own[o] <= zero[o]
  BY <1>1 DEF OwnedInv, Owned, OrderTypeOK
<1>7. SumFunctionOnSet(zero, Orders) = 0
  BY SumOfZeros, <1>3
<1> HIDE DEF need, own, zero
<1>8. /\ SumFunctionOnSet(need, S) <= SumFunctionOnSet(own, S)
      /\ SumFunctionOnSet(own, S) <= SumFunctionOnSet(own, Orders)
      /\ SumFunctionOnSet(need, S) \in Int /\ SumFunctionOnSet(own, S) \in Int
      /\ SumFunctionOnSet(own, Orders) \in Int
  <2>1. SumFunctionOnSet(need, S) <= SumFunctionOnSet(own, S)
    BY <1>3, <1>4, SumMonotone
  <2>2. SumFunctionOnSet(own, S) <= SumFunctionOnSet(own, Orders)
    BY <1>3, SumOfFewer
  <2> QED
    BY <1>3, <2>1, <2>2, SumType
<1>9. CASE rows[r] = NoRow \/ ~Sound(rows[r])
  <2>1. SumFunctionOnSet(own, Orders) <= SumFunctionOnSet(zero, Orders)
    BY <1>3, <1>6, <1>9, SumMonotone
  <2>2. rows[r] # NoRow => rows[r].stock \in Nat
    BY <1>1 DEF OrderTypeOK, TypeOK, Row
  <2> QED
    BY <1>2, <1>7, <1>8, <2>1, <2>2 DEF need
<1>10. CASE rows[r] # NoRow /\ Sound(rows[r])
  <2>1. /\ rows[r].reserved = held[r] /\ rows[r].reserved <= rows[r].stock
        /\ held[r] \in Int /\ rows[r].stock \in Nat /\ held[r] >= OwnedInAll(r)
    BY <1>1, <1>10 DEF OwnedInv, InventoryInv, ReservedIsHeld, Sound, OrderTypeOK, TypeOK, Row
  <2> QED
    BY <1>2, <1>5, <1>8, <1>10, <2>1 DEF need
<1> QED
  BY <1>9, <1>10

(* As long as no two requests work on one order at a time, and none fails  *)
(* midway, a confirmed or preparing order that nobody is working on holds  *)
(* every unit its lines ask for - whatever other orders, the feed and the  *)
(* staff's adjustments do meanwhile.                                       *)
THEOREM OrdersBacked ==
    ASSUME Orderly
    PROVE  OrderSpec /\ []OneAtATime => []Backed
<1>1. OrderInit => BackedInv /\ SavesSound
  BY OwnedInitially, SoundInitially DEF BackedInv
<1>2. BackedInv /\ SavesSound /\ OneAtATime /\ OneAtATime' /\ [OrderNext]_orderVars
          => BackedInv' /\ SavesSound'
  BY BackedStep, SoundStep DEF BackedInv, OwnedInv
<1>3. BackedInv => Backed
  BY BackedAtRest
<1> QED
  BY <1>1, <1>2, <1>3, PTL DEF OrderSpec

(* And then the stock on the shelf covers what all those orders were       *)
(* promised together, also after the feed reports less than that.          *)
THEOREM OrdersNoOversell ==
    ASSUME Orderly
    PROVE  OrderSpec /\ []OneAtATime => []NoOversell
<1>1. OrderInit => BackedInv /\ SavesSound
  BY OwnedInitially, SoundInitially DEF BackedInv
<1>2. BackedInv /\ SavesSound /\ OneAtATime /\ OneAtATime' /\ [OrderNext]_orderVars
          => BackedInv' /\ SavesSound'
  BY BackedStep, SoundStep DEF BackedInv, OwnedInv
<1>3. BackedInv => NoOversell
  BY BackedCovers
<1> QED
  BY <1>1, <1>2, <1>3, PTL DEF OrderSpec

(* With one request at a time nothing more is asked: both then hold of     *)
(* every behaviour of OrderSpec.                                           *)
THEOREM OrdersSerialPromises ==
    ASSUME NEW h, Handlers = {h}, Orderly
    PROVE  OrderSpec => [](Backed /\ NoOversell)
<1>1. OneAtATime
  BY DEF OneAtATime
<1>2. OrderSpec => []OneAtATime
  BY <1>1, PTL
<1> QED
  BY <1>2, OrdersBacked, OrdersNoOversell, PTL

-------------------------------------------------------------------------------
(* What a cancellation gives back *)

Last(o) == trail[o][Len(trail[o])]

CancelledPromise(o) ==
    status[o] = "cancelled" /\ Last(o).from \in {"confirmed", "preparing"}

(* A cancellation has given back the lines it went through, and an order   *)
(* cancelled as a promised one every unit it needs.                        *)
ReturnInv ==
    /\ \A h \in Handlers : req[h].pc = "releasing" =>
          \A r \in RowIds : given[req[h].order][r] >= Upto(req[h].order, r, req[h].line)
    /\ \A o \in Orders : status[o] # None => trail[o] # <<>>
    /\ \A o \in Branchless : status[o] \notin {"confirmed", "preparing"}
    /\ \A o \in Orders, r \in RowIds : CancelledPromise(o) => given[o][r] >= Need(o, r)

LEMMA ReturnInitially == OrderInit => ReturnInv
<1> SUFFICES ASSUME OrderInit PROVE ReturnInv
  OBVIOUS
<1>1. \A h \in Handlers : req[h].pc # "releasing"
  BY NoReqFits DEF OrderInit
<1>2. \A o \in Orders : status[o] = None
  BY DEF OrderInit
<1>3. None \notin {"confirmed", "preparing", "cancelled"}
  BY StatusFacts
<1> QED
  BY <1>1, <1>2, <1>3, OrderAssumption DEF ReturnInv, CancelledPromise

(* A step of one request that saves nothing and releases nothing.          *)
LEMMA ReturnGoesOn ==
    ASSUME ReturnInv, OrderTypeOK, NEW h \in Handlers, NEW q, req' = [req EXCEPT ![h] = q],
           UNCHANGED <<given, status, trail>>,
           q.pc = "releasing" => \A r \in RowIds : given[q.order][r] >= Upto(q.order, r, q.line)
    PROVE  ReturnInv'
<1>1. req'[h] = q /\ \A g \in Handlers \ {h} : req'[g] = req[g]
  BY DEF OrderTypeOK
<1>2. ASSUME NEW g \in Handlers, req'[g].pc = "releasing", NEW r \in RowIds
      PROVE  (given[req[g].order][r] >= Upto(req[g].order, r, req[g].line))'
  <2>1. given[req'[g].order][r] >= Upto(req'[g].order, r, req'[g].line)
    BY <1>1, <1>2 DEF ReturnInv
  <2> QED
    BY <2>1 DEF Upto
<1>3. \A o : CancelledPromise(o)' <=> CancelledPromise(o)
  BY DEF CancelledPromise, Last
<1>4. \A o, r : Need(o, r)' = Need(o, r)
  BY DEF Need
<1> QED
  BY <1>2, <1>3, <1>4 DEF ReturnInv

(* Nothing the services do takes back what was given.                      *)
LEMMA ReturnRelease ==
    ASSUME ReturnInv, OrderTypeOK, NEW h \in Handlers, ReleaseLine(h)
    PROVE  ReturnInv'
<1>0. PICK p \in Orders, w \in RowIds, n \in Nat \ {0} :
         p = req[h].order /\ w = Line(req[h]).row /\ n = Line(req[h]).qty
  BY AtLineFacts DEF ReleaseLine
<1>1. PICK q : q = [req[h] EXCEPT !.line = req[h].line + 1]
  OBVIOUS
<1>2. AtLine(h, "releasing") /\ req[h].pc = "releasing"
  BY DEF ReleaseLine, AtLine
<1>3. req[h] \in Transitions /\ req[h].line \in Nat
  BY <1>2, AtLineFacts
<1>4. UNCHANGED <<status, trail>> /\ req' = [req EXCEPT ![h] = q] /\ given' = Tally(given, h)
  BY <1>1, LineSteps DEF ReleaseLine
<1>5. q.order = p /\ q.line = req[h].line + 1
  BY <1>0, <1>1, <1>3, TransitionGoesOn DEF Transitions
<1>6. req'[h] = q /\ \A g \in Handlers \ {h} : req'[g] = req[g]
  BY <1>4 DEF OrderTypeOK
<1>7. \A o \in Orders, r \in RowIds :
         /\ given'[o][r] = given[o][r] + (IF o = p /\ r = w THEN n ELSE 0)
         /\ given[o][r] \in Nat
  <2> TAKE o \in Orders, r \in RowIds
  <2>1. given[o][r] \in Nat /\ given \in [Orders -> [RowIds -> Nat]]
    BY DEF OrderTypeOK
  <2>2. Tally(given, h)[o][r] = given[o][r] + (IF o = p /\ r = w THEN n ELSE 0)
    BY <1>0, <1>2, <2>1, TallyFacts
  <2> QED
    BY <1>4, <2>1, <2>2
<1>8. \A o \in Orders, r \in RowIds : given'[o][r] \in Nat /\ given'[o][r] >= given[o][r]
  <2> TAKE o \in Orders, r \in RowIds
  <2>1. given'[o][r] = given[o][r] + (IF o = p /\ r = w THEN n ELSE 0) /\ given[o][r] \in Nat
    BY <1>7
  <2> QED
    BY <2>1
<1>9. ASSUME NEW r \in RowIds PROVE given'[p][r] >= Upto(p, r, q.line)
  <2>1. Upto(p, r, q.line) = Upto(p, r, req[h].line) + (IF w = r THEN n ELSE 0)
    BY <1>0, <1>2, <1>5, AtLineFacts
  <2>2. Upto(p, r, req[h].line) \in Nat
    BY <1>3, UptoFacts
  <2>3. given[p][r] >= Upto(p, r, req[h].line)
    BY <1>0, <1>2 DEF ReturnInv
  <2>4. given'[p][r] = given[p][r] + (IF r = w THEN n ELSE 0) /\ given[p][r] \in Nat
    BY <1>7
  <2> QED
    BY <2>1, <2>2, <2>3, <2>4
<1>10. ASSUME NEW g \in Handlers, req'[g].pc = "releasing", NEW r \in RowIds
       PROVE  (given[req[g].order][r] >= Upto(req[g].order, r, req[g].line))'
  <2>1. given'[req'[g].order][r] >= Upto(req'[g].order, r, req'[g].line)
    <3>1. CASE g = h
      BY <1>5, <1>6, <1>9, <3>1
    <3>2. CASE g # h
      <4>1. PICK o \in Orders, i \in Nat : o = req[g].order /\ i = req[g].line
        BY <1>6, <1>10, <3>2, RequestIs DEF OrderTypeOK, Transitions
      <4>2. given[o][r] >= Upto(o, r, i) /\ Upto(o, r, i) \in Nat
        BY <1>6, <1>10, <3>2, <4>1, UptoFacts DEF ReturnInv
      <4>3. given'[o][r] >= given[o][r] /\ given'[o][r] \in Nat /\ given[o][r] \in Nat
        BY <1>7, <1>8
      <4>4. given'[o][r] >= Upto(o, r, i)
        BY <4>2, <4>3
      <4> QED
        BY <1>6, <3>2, <4>1, <4>4
    <3> QED
      BY <3>1, <3>2
  <2> QED
    BY <2>1 DEF Upto
<1>11. ASSUME NEW o \in Orders, NEW r \in RowIds, CancelledPromise(o)'
       PROVE  given'[o][r] >= Need(o, r)
  <2>1. CancelledPromise(o)
    BY <1>4, <1>11 DEF CancelledPromise, Last
  <2>2. given[o][r] >= Need(o, r) /\ Need(o, r) \in Nat
    BY <2>1, UptoFacts DEF ReturnInv
  <2>3. given'[o][r] >= given[o][r] /\ given'[o][r] \in Nat /\ given[o][r] \in Nat
    BY <1>7, <1>8
  <2> QED
    BY <2>2, <2>3
<1>12. \A o, r : Need(o, r)' = Need(o, r)
  BY DEF Need
<1> QED
  BY <1>4, <1>10, <1>11, <1>12 DEF ReturnInv

(* The save of a cancellation comes after all its lines were released, if  *)
(* the order was promised; no other save leaves an order cancelled so.     *)
LEMMA ReturnSave ==
    ASSUME ReturnInv, PromiseInv, OrderTypeOK, SavesSound, "preparing" \notin CreateStatuses,
           NEW h \in Handlers, SaveTransition(h)
    PROVE  ReturnInv'
<1>1. PICK q : q = [req[h] EXCEPT !.pc = "announcing"]
  OBVIOUS
<1>2. /\ req[h] \in Transitions /\ req[h].pc # "announcing"
      /\ req' = [req EXCEPT ![h] = q] /\ Decided(h) /\ Fits(req[h]) /\ Current(req[h])
      /\ UNCHANGED given
  BY <1>1, SaveSteps DEF PromiseInv
<1>3. q.pc = "announcing"
  BY <1>1, <1>2, TransitionGoesOn
<1>4. req'[h] = q /\ \A g \in Handlers \ {h} : req'[g] = req[g]
  BY <1>2 DEF OrderTypeOK
<1>5. PICK p \in Orders, e \in Event, s \in Seq(Event) :
         /\ p = req[h].order /\ s = trail[p] /\ e.from = req[h].seen /\ e.to = req[h].to
         /\ status' = [status EXCEPT ![p] = req[h].to]
         /\ trail' = [trail EXCEPT ![p] = Append(s, e)]
  <2>1. req[h].order \in Orders /\ trail[req[h].order] \in Seq(Event)
    BY SaveSteps DEF Transitions, OrderTypeOK
  <2>2. PICK e \in Event : e = EventOf(h) /\ e.from = req[h].seen /\ e.to = req[h].to
    BY SaveSteps
  <2>3. /\ status' = [status EXCEPT ![req[h].order] = req[h].to]
        /\ trail' = [trail EXCEPT ![req[h].order] = Append(trail[req[h].order], e)]
    BY <2>2, SaveSteps, SavesItsStatus
  <2> QED
    BY <2>1, <2>2, <2>3
<1>6. Append(s, e) # <<>> /\ Append(s, e)[Len(Append(s, e))] = e
  BY Appended
<1>7. \A o \in Orders : IF o = p THEN status'[o] = req[h].to /\ trail'[o] = Append(s, e)
                        ELSE status'[o] = status[o] /\ trail'[o] = trail[o]
  BY <1>5 DEF OrderTypeOK
<1>8. req[h].seen = status[p] /\ req[h].line \in Nat
  BY <1>2, <1>5 DEF Current, Decided, Transitions
<1>9. ASSUME NEW g \in Handlers, req'[g].pc = "releasing", NEW r \in RowIds
      PROVE  (given[req[g].order][r] >= Upto(req[g].order, r, req[g].line))'
  <2>1. given[req'[g].order][r] >= Upto(req'[g].order, r, req'[g].line)
    BY <1>3, <1>4, <1>9 DEF ReturnInv
  <2> QED
    BY <1>2, <2>1 DEF Upto
<1>10. \A o \in Orders : status'[o] # None => trail'[o] # <<>>
  BY <1>6, <1>7 DEF ReturnInv
<1>11. ASSUME NEW o \in Branchless PROVE status'[o] \notin {"confirmed", "preparing"}
  <2>0. o \in Orders
    BY OrderAssumption
  <2>1. CASE o = p
    <3>1. req[h].pc # "reserving" /\ req[h].seen # "confirmed"
      BY <1>2, <1>5, <1>8, <2>1 DEF Fits, ReturnInv
    <3>2. req[h].to # "confirmed"
      BY <1>2, <3>1 DEF Fits, Decided
    <3>3. req[h].to # "preparing"
      BY <1>2, <3>1 DEF Fits
    <3> QED
      BY <1>7, <2>0, <2>1, <3>2, <3>3
  <2>2. CASE o # p
    BY <1>7, <2>0, <2>2 DEF ReturnInv
  <2> QED
    BY <2>1, <2>2
<1>12. ASSUME NEW o \in Orders, NEW r \in RowIds, CancelledPromise(o)'
       PROVE  given[o][r] >= Need(o, r)
  <2>1. CASE o = p
    <3>1. req[h].to = "cancelled" /\ req[h].seen \in {"confirmed", "preparing"}
      BY <1>5, <1>6, <1>7, <1>12, <2>1 DEF CancelledPromise, Last
    <3>2. p \notin Branchless
      BY <1>8, <3>1 DEF ReturnInv
    <3>3. req[h].pc = "releasing" /\ req[h].line > Len(Lines[p])
      BY <1>2, <1>5, <3>1, <3>2 DEF Fits, Decided
    <3>4. Upto(p, r, req[h].line) = Need(p, r)
      BY <1>8, <3>3, UptoFacts
    <3> QED
      BY <1>5, <2>1, <3>3, <3>4 DEF ReturnInv
  <2>2. CASE o # p
    <3>1. CancelledPromise(o)
      BY <1>7, <1>12, <2>2 DEF CancelledPromise, Last
    <3> QED
      BY <3>1 DEF ReturnInv
  <2> QED
    BY <2>1, <2>2
<1>13. \A o, r : Need(o, r)' = Need(o, r)
  BY DEF Need
<1> QED
  BY <1>2, <1>9, <1>10, <1>11, <1>12, <1>13 DEF ReturnInv

LEMMA ReturnStep ==
    ASSUME Orderly, BackedInv, SavesSound, ReturnInv, [OrderNext]_orderVars
    PROVE  ReturnInv'
<1>0. OrderTypeOK /\ OwnedInv /\ PromiseInv
  BY DEF BackedInv, OwnedInv
<1>1. ASSUME NEW h \in Handlers, NEW q \in Request, Begins(h, q) PROVE ReturnInv'
  <2>1. UNCHANGED <<status, trail, given>> /\ req' = [req EXCEPT ![h] = q]
    BY <1>0, <1>1, BeginSteps DEF Begins, Begin
  <2>2. ASSUME q.pc = "releasing", NEW r \in RowIds
        PROVE  given[q.order][r] >= Upto(q.order, r, q.line)
    <3>1. q.order \in Orders /\ q.line = 1
      BY <1>1, <2>2 DEF Begins, Transitions, Patches
    <3>2. Upto(q.order, r, q.line) = 0
      BY <3>1, UptoFacts
    <3> QED
      BY <1>0, <3>1, <3>2 DEF OrderTypeOK
  <2> QED
    BY <1>0, <2>1, <2>2, ReturnGoesOn
<1>2. ASSUME NEW h \in Handlers, ReserveLine(h) PROVE ReturnInv'
  <2>1. PICK q : q = [req[h] EXCEPT !.line = req[h].line + 1]
    OBVIOUS
  <2>2. /\ req[h] \in Transitions /\ req' = [req EXCEPT ![h] = q] /\ req[h].pc = "reserving"
        /\ UNCHANGED <<status, trail, given>>
    BY <1>0, <1>2, <2>1, LineSteps DEF ReserveLine, AtLine
  <2>3. q.pc # "releasing"
    BY <2>1, <2>2, TransitionGoesOn
  <2> QED
    BY <1>0, <2>2, <2>3, ReturnGoesOn
<1>3. ASSUME NEW h \in Handlers, SkipLine(h) PROVE ReturnInv'
  BY <1>0, <1>3, ReleaseIsOwned DEF SkipLine
<1>4. ASSUME NEW h \in Handlers, RefuseLine(h) \/ Fail(h) \/ Announce(h) PROVE ReturnInv'
  <2>1. req' = [req EXCEPT ![h] = NoReq] /\ UNCHANGED <<status, trail, given>>
    BY <1>0, <1>4, EndSteps DEF RefuseLine, Fail, End, Announce
  <2> QED
    BY <1>0, <2>1, NoReqFits, ReturnGoesOn
<1>5. ASSUME NEW h \in Handlers, SavePatch(h) PROVE ReturnInv'
  <2>1. /\ req' = [req EXCEPT ![h] = NoReq] /\ req[h] \in Patches
        /\ status' = [status EXCEPT ![req[h].order] =
                         IF req[h].to = Same THEN req[h].seen ELSE req[h].to]
    BY <1>0, <1>5, PatchSteps
  <2>2. req[h].pc = "patching" /\ req[h].order \in Orders
    BY <2>1 DEF Patches
  <2>3. status' = status
    BY <1>0, <2>1, <2>2 DEF PromiseInv, Current, OrderTypeOK
  <2>4. UNCHANGED <<trail, given>>
    BY <1>5 DEF SavePatch
  <2> QED
    BY <1>0, <2>1, <2>3, <2>4, NoReqFits, ReturnGoesOn
<1>6. CASE UNCHANGED orderCore
  <2>1. UNCHANGED <<req, status, trail, given>>
    BY <1>6 DEF orderCore
  <2>2. \A o : CancelledPromise(o)' <=> CancelledPromise(o)
    BY <2>1 DEF CancelledPromise, Last
  <2>3. \A o, r : Need(o, r)' = Need(o, r)
    BY DEF Need
  <2>4. \A o, r, n : Upto(o, r, n)' = Upto(o, r, n)
    BY DEF Upto
  <2>5. \A h \in Handlers : req'[h].pc = "releasing" =>
           \A r \in RowIds : (given[req[h].order][r] >= Upto(req[h].order, r, req[h].line))'
    BY <2>1 DEF Upto, ReturnInv
  <2> QED
    BY <2>1, <2>2, <2>3, <2>5 DEF ReturnInv
<1> QED
  BY <1>0, <1>1, <1>2, <1>3, <1>4, <1>5, <1>6, OrderSteps, ReturnRelease, ReturnSave DEF Orderly

(* NothingStranded, for the orders that reserved their lines once.         *)
CancelReturns ==
    \A o \in Orders, r \in RowIds :
        CancelledPromise(o) /\ taken[o][r] <= Need(o, r) => Owned(o, r) = 0

(* releaseForOrder gives back everything its order holds, for any number   *)
(* of orders, lines and rows and whatever the feed does meanwhile, to an   *)
(* order whose lines were reserved once: what a cancellation strands was   *)
(* taken by a second confirmation, or by one that was refused midway.      *)
THEOREM OrdersCancelReturns ==
    ASSUME Orderly
    PROVE  OrderSpec /\ []OneAtATime => []CancelReturns
<1>1. OrderInit => BackedInv /\ SavesSound /\ ReturnInv
  BY OwnedInitially, SoundInitially, ReturnInitially DEF BackedInv
<1>2. BackedInv /\ SavesSound /\ ReturnInv /\ OneAtATime /\ OneAtATime' /\ [OrderNext]_orderVars
          => BackedInv' /\ SavesSound' /\ ReturnInv'
  BY BackedStep, SoundStep, ReturnStep DEF BackedInv, OwnedInv
<1>3. BackedInv /\ ReturnInv => CancelReturns
  <2> SUFFICES ASSUME BackedInv, ReturnInv, NEW o \in Orders, NEW r \in RowIds,
                      CancelledPromise(o), taken[o][r] <= Need(o, r)
               PROVE  Owned(o, r) = 0
    BY DEF CancelReturns
  <2>1. Owned(o, r) >= 0 /\ taken[o][r] \in Nat /\ given[o][r] \in Nat /\ Need(o, r) \in Nat
    BY OwnedType, UptoFacts DEF BackedInv, OwnedInv
  <2>2. given[o][r] >= Need(o, r)
    BY DEF ReturnInv
  <2> QED
    BY <2>1, <2>2 DEF Owned
<1> QED
  BY <1>1, <1>2, <1>3, PTL DEF OrderSpec

================================================================================
