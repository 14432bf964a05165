------------------------------ MODULE QuotesProofs ------------------------------
(***************************************************************************)
(* Proofs about Quotes: the types of its rows, and that it implements      *)
(* QuoteLifecycle while no request that saves a whole row overlaps         *)
(* another, for any number of quotes, requests and failures.               *)
(***************************************************************************)
EXTENDS Quotes, SequenceTheorems, TLAPS

(* What a handler carries, by what it is doing.                            *)
QuoteRequest ==
    {NoReq}
        \cup [pc : {"creating", "editing"}, quote : Quotes, lines : Lines, row : Row]
        \cup [pc : {"moving"}, quote : Quotes, row : Row, to : Life!Statuses]
        \cup [pc : {"removing"}, quote : Quotes]
        \cup [pc : {"claiming", "ordering"}, quote : Quotes, row : Row, lines : Lines]
        \cup [pc : {"recording"}, quote : Quotes, order : Nat]
        \cup [pc : {"linking", "sweeping"}, account : Accounts]
        \cup [pc : {"profiling"}, account : Accounts \cup {None}]

TypesInv ==
    /\ quotes \in [Quotes -> Row]
    /\ lines \in [Quotes -> Lines \cup {None}]
    /\ orders \in [Quotes -> Seq(Lines)]
    /\ profile \in Accounts \cup {None}
    /\ selves \subseteq Accounts
    /\ now \in 0..MaxTime
    /\ started \in 0..MaxRequests
    /\ approved \in [Quotes -> Lines \cup {None}]
    /\ missed \in BOOLEAN
    /\ req \in [Handlers -> QuoteRequest]
    /\ \A q \in Quotes : Exists(q) => lines[q] \in Lines
    /\ \A h \in Handlers : req[h].pc = "moving" => lines[req[h].quote] \in Lines

LEMMA QuoteRequestIs ==
    ASSUME NEW r \in QuoteRequest
    PROVE  /\ r.pc \in {"creating", "editing"} =>
                 r \in [pc : {"creating", "editing"}, quote : Quotes, lines : Lines, row : Row]
           /\ r.pc = "moving" => r \in [pc : {"moving"}, quote : Quotes, row : Row, to : Life!Statuses]
           /\ r.pc = "removing" => r \in [pc : {"removing"}, quote : Quotes]
           /\ r.pc \in {"claiming", "ordering"} =>
                 r \in [pc : {"claiming", "ordering"}, quote : Quotes, row : Row, lines : Lines]
           /\ r.pc = "recording" => r \in [pc : {"recording"}, quote : Quotes, order : Nat]
           /\ r.pc \in {"linking", "sweeping"} => r \in [pc : {"linking", "sweeping"}, account : Accounts]
           /\ r.pc = "profiling" => r \in [pc : {"profiling"}, account : Accounts \cup {None}]
           /\ r = NoReq <=> r.pc = "idle"
  BY DEF QuoteRequest, NoReq

LEMMA TypesInitially == QuoteInit => TypesInv
<1> SUFFICES ASSUME QuoteInit PROVE TypesInv
  OBVIOUS
<1> USE QuotesAssumption DEF QuoteInit
<1>1. quotes \in [Quotes -> Row]
  BY DEF Row
<1>2. orders \in [Quotes -> Seq(Lines)]
  BY EmptySeq
<1>3. req \in [Handlers -> QuoteRequest] /\ \A h \in Handlers : req[h].pc = "idle"
  BY DEF QuoteRequest, NoReq
<1>4. \A q \in Quotes : ~Exists(q)
  BY DEF Exists, Life!Statuses
<1>5. now \in 0..MaxTime /\ started \in 0..MaxRequests
  OBVIOUS
<1>6. missed \in BOOLEAN
  OBVIOUS
<1> QED
  BY <1>1, <1>2, <1>3, <1>4, <1>5, <1>6 DEF TypesInv

(* Row by row: a change of a field keeps the type.                         *)
LEMMA RowChanges ==
    ASSUME NEW row \in Row
    PROVE  /\ \A s \in Life!Statuses \cup {"none", "gone"} : [row EXCEPT !.status = s] \in Row
           /\ \A u \in 0..MaxTime : [row EXCEPT !.until = u] \in Row
           /\ \A n \in Nat : [row EXCEPT !.order = n] \in Row
           /\ \A a \in Accounts : [row EXCEPT !.reader = a] \in Row
  BY DEF Row

(* The status of a row is of the lifecycle, and the actions lead there.    *)
LEMMA FromTo ==
    \A a \in {"send", "approve", "reject", "convert"} :
        /\ Life!From[a] \in Life!Statuses /\ Life!To[a] \in Life!Statuses
        /\ Life!To[a] \notin {"draft", "none", "gone"}
        /\ a # "convert" => Life!To[a] # "converted" /\ Life!From[a] # "approved"
        /\ Life!From[a] \notin {"none", "gone", "converted"}
  BY DEF Life!From, Life!To, Life!Statuses

-------------------------------------------------------------------------------
(* Types *)

(* The requests as they begin.                                             *)
LEMMA BeginTypes ==
    ASSUME TypesInv, NEW h \in Handlers,
           \/ \E q \in Quotes : \/ BeginCreate(h, q) \/ BeginEdit(h, q) \/ BeginRemove(h, q)
                                \/ BeginConvert(h, q)
                                \/ \E a \in {"send", "approve", "reject"} : BeginMove(h, q, a)
           \/ \E a \in Accounts : BeginLink(h, a)
           \/ BeginProfile(h)
    PROVE  /\ TypesInv' /\ UNCHANGED <<quotes, lines, orders, clients, ghosts>>
           /\ \E r \in QuoteRequest : Take(h, r)
<1>1. UNCHANGED <<quotes, lines, orders, clients, ghosts>>
  BY DEF BeginCreate, BeginEdit, BeginRemove, BeginConvert, BeginMove, BeginLink, BeginProfile
<1>2. PICK r \in QuoteRequest : Take(h, r) /\ (r.pc = "moving" => lines[r.quote] \in Lines)
  <2> DEFINE G == \E r \in QuoteRequest : Take(h, r) /\ (r.pc = "moving" => lines[r.quote] \in Lines)
  <2>1. ASSUME NEW q \in Quotes, BeginCreate(h, q) PROVE G
    <3>1. PICK a \in Accounts \cup {None}, l \in Lines, u \in now..MaxTime :
            Take(h, [pc |-> "creating", quote |-> q, lines |-> l,
                     row |-> [status |-> "draft", reader |-> Target(a).reader,
                              profiled |-> Target(a).profiled, until |-> u, order |-> 0]])
      BY <2>1 DEF BeginCreate
    <3>2. PICK row : row = [status |-> "draft", reader |-> Target(a).reader,
                            profiled |-> Target(a).profiled, until |-> u, order |-> 0]
      OBVIOUS
    <3>3. Target(a).reader \in Accounts \cup {None} /\ Target(a).profiled \in BOOLEAN
      BY DEF Target, TypesInv
    <3>4. u \in 0..MaxTime
      BY QuotesAssumption DEF TypesInv
    <3>5. row \in Row
      BY <3>2, <3>3, <3>4 DEF Row, Life!Statuses
    <3>6. PICK r : r = [pc |-> "creating", quote |-> q, lines |-> l, row |-> row]
      OBVIOUS
    <3>7. r \in QuoteRequest /\ r.pc = "creating"
      BY <3>5, <3>6 DEF QuoteRequest
    <3> QED
      BY <3>1, <3>2, <3>6, <3>7
  <2>2. ASSUME NEW q \in Quotes, BeginEdit(h, q) PROVE G
    <3>1. PICK l \in Lines, u \in (now..MaxTime) \cup {quotes[q].until} :
            Take(h, [pc |-> "editing", quote |-> q, lines |-> l, row |-> [quotes[q] EXCEPT !.until = u]])
      BY <2>2 DEF BeginEdit
    <3>2. u \in 0..MaxTime /\ quotes[q] \in Row
      BY QuotesAssumption DEF TypesInv, Row
    <3>3. PICK row \in Row : row = [quotes[q] EXCEPT !.until = u]
      BY <3>2, RowChanges
    <3>4. PICK r : r = [pc |-> "editing", quote |-> q, lines |-> l, row |-> row]
      OBVIOUS
    <3>5. r \in QuoteRequest /\ r.pc = "editing"
      BY <3>4 DEF QuoteRequest
    <3> QED
      BY <3>1, <3>3, <3>4, <3>5
  <2>3. ASSUME NEW q \in Quotes, BeginRemove(h, q) PROVE G
    <3>1. PICK r : r = [pc |-> "removing", quote |-> q]
      OBVIOUS
    <3>2. r \in QuoteRequest /\ r.pc = "removing"
      BY <3>1 DEF QuoteRequest
    <3> QED
      BY <2>3, <3>1, <3>2 DEF BeginRemove
  <2>4. ASSUME NEW q \in Quotes, BeginConvert(h, q) PROVE G
    <3>1. quotes[q] \in Row /\ lines[q] \in Lines
      BY <2>4 DEF BeginConvert, TypesInv
    <3>2. PICK r : r = [pc |-> "claiming", quote |-> q, row |-> quotes[q], lines |-> lines[q]]
      OBVIOUS
    <3>3. r \in QuoteRequest /\ r.pc = "claiming"
      BY <3>1, <3>2 DEF QuoteRequest
    <3> QED
      BY <2>4, <3>2, <3>3 DEF BeginConvert
  <2>5. ASSUME NEW q \in Quotes, NEW a \in {"send", "approve", "reject"}, BeginMove(h, q, a) PROVE G
    <3>1. quotes[q] \in Row /\ lines[q] \in Lines /\ Life!To[a] \in Life!Statuses
      BY <2>5, FromTo DEF BeginMove, TypesInv
    <3>2. PICK r : r = [pc |-> "moving", quote |-> q, row |-> quotes[q], to |-> Life!To[a]]
      OBVIOUS
    <3>3. r \in QuoteRequest /\ r.quote = q
      BY <3>1, <3>2 DEF QuoteRequest
    <3> QED
      BY <2>5, <3>1, <3>2, <3>3 DEF BeginMove
  <2>6. ASSUME NEW a \in Accounts, BeginLink(h, a) PROVE G
    <3>1. PICK r : r = [pc |-> "linking", account |-> a]
      OBVIOUS
    <3>2. r \in QuoteRequest /\ r.pc = "linking"
      BY <3>1 DEF QuoteRequest
    <3> QED
      BY <2>6, <3>1, <3>2 DEF BeginLink
  <2>7. CASE BeginProfile(h)
    <3>1. PICK r : r = [pc |-> "profiling", account |-> profile]
      OBVIOUS
    <3>2. r \in QuoteRequest /\ r.pc = "profiling"
      BY <3>1 DEF QuoteRequest, TypesInv
    <3> QED
      BY <2>7, <3>1, <3>2 DEF BeginProfile
  <2> QED
    BY <2>1, <2>2, <2>3, <2>4, <2>5, <2>6, <2>7
<1>3. TypesInv'
  <2>1. started' \in 0..MaxRequests
    BY <1>2, QuotesAssumption DEF Take, TypesInv
  <2>2. req' \in [Handlers -> QuoteRequest] /\ req'[h] = r
        /\ \A g \in Handlers \ {h} : req'[g] = req[g]
    BY <1>2 DEF Take, Goto, TypesInv
  <2> QED
    BY <1>1, <1>2, <2>1, <2>2 DEF TypesInv, clients, ghosts, Exists
<1> QED
  BY <1>1, <1>2, <1>3

(* A step that changes one handler's request only.                         *)
LEMMA GotoTypes ==
    ASSUME TypesInv, NEW h \in Handlers, NEW r \in QuoteRequest, Goto(h, r),
           r.pc # "moving"
    PROVE  /\ req' \in [Handlers -> QuoteRequest]
           /\ \A g \in Handlers : req'[g].pc = "moving" => g # h /\ req'[g] = req[g]
  BY DEF Goto, TypesInv

(* A row is replaced by another.                                           *)
LEMMA SaveRowTypes ==
    ASSUME TypesInv, NEW q \in Quotes, NEW row \in Row, SaveRow(q, row)
    PROVE  /\ quotes' \in [Quotes -> Row]
           /\ quotes'[q] = row
           /\ \A p \in Quotes \ {q} : quotes'[p] = quotes[p]
  BY DEF SaveRow, TypesInv

(* The steps that end a request, or take it further.                       *)
LEMMA SaveTypes ==
    ASSUME TypesInv, NEW h \in Handlers,
           SaveQuote(h) \/ SaveMove(h) \/ Remove(h) \/ RecordOrder(h)
    PROVE  TypesInv'
<1>0. NoReq \in QuoteRequest /\ NoReq.pc = "idle" /\ req[h] \in QuoteRequest
  BY DEF QuoteRequest, NoReq, TypesInv
<1>1. CASE SaveQuote(h)
  <2>1. /\ req[h].quote \in Quotes /\ req[h].row \in Row /\ req[h].lines \in Lines
    BY <1>0, <1>1, QuoteRequestIs DEF SaveQuote
  <2>2. /\ quotes' \in [Quotes -> Row]
        /\ \A p \in Quotes \ {req[h].quote} : quotes'[p] = quotes[p]
    BY <1>1, <2>1, SaveRowTypes DEF SaveQuote
  <2>3. /\ lines' \in [Quotes -> Lines \cup {None}] /\ lines'[req[h].quote] \in Lines
        /\ \A p \in Quotes \ {req[h].quote} : lines'[p] = lines[p]
    BY <1>1, <2>1 DEF SaveQuote, TypesInv
  <2>4. /\ req' \in [Handlers -> QuoteRequest]
        /\ \A g \in Handlers : req'[g].pc = "moving" => g # h /\ req'[g] = req[g]
    BY <1>0, <1>1, GotoTypes DEF SaveQuote
  <2>5. \A q \in Quotes : Exists(q)' => lines'[q] \in Lines
    BY <2>2, <2>3 DEF Exists, TypesInv
  <2>6. \A g \in Handlers : req'[g].pc = "moving" => lines'[req'[g].quote] \in Lines
    <3> SUFFICES ASSUME NEW g \in Handlers, req'[g].pc = "moving" PROVE lines'[req[g].quote] \in Lines
      BY <2>4
    <3>1. req[g].pc = "moving" /\ req[g] \in QuoteRequest
      BY <2>4 DEF TypesInv
    <3>2. req[g].quote \in Quotes
      BY <3>1, QuoteRequestIs
    <3> QED
      BY <2>3, <3>1, <3>2 DEF TypesInv
  <2> QED
    BY <1>1, <2>2, <2>3, <2>4, <2>5, <2>6 DEF SaveQuote, TypesInv, clients, ghosts
<1>2. CASE SaveMove(h)
  <2>1. /\ req[h].quote \in Quotes /\ req[h].row \in Row /\ req[h].to \in Life!Statuses
        /\ lines[req[h].quote] \in Lines
    BY <1>0, <1>2, QuoteRequestIs DEF SaveMove, TypesInv
  <2>2. Moved(req[h].row, req[h].to) \in Row
    BY <2>1, RowChanges DEF Moved
  <2>3. /\ quotes' \in [Quotes -> Row]
        /\ \A p \in Quotes \ {req[h].quote} : quotes'[p] = quotes[p]
    BY <1>2, <2>1, <2>2, SaveRowTypes DEF SaveMove
  <2>4. /\ req' \in [Handlers -> QuoteRequest]
        /\ \A g \in Handlers : req'[g].pc = "moving" => g # h /\ req'[g] = req[g]
    BY <1>0, <1>2, GotoTypes DEF SaveMove
  <2>5. \A q \in Quotes : Exists(q)' => lines'[q] \in Lines
    BY <1>2, <2>1, <2>3 DEF Exists, TypesInv, SaveMove
  <2>6. approved' \in [Quotes -> Lines \cup {None}]
    BY <1>2, <2>1 DEF SaveMove, TypesInv
  <2> QED
    BY <1>2, <2>3, <2>4, <2>5, <2>6 DEF SaveMove, TypesInv, clients
<1>3. CASE Remove(h)
  <2>1. req[h].quote \in Quotes /\ quotes[req[h].quote] \in Row
    BY <1>0, <1>3, QuoteRequestIs DEF Remove, TypesInv
  <2>2. [quotes[req[h].quote] EXCEPT !.status = "gone"] \in Row
    BY <2>1, RowChanges
  <2>3. [quotes[req[h].quote] EXCEPT !.status = "gone"].status = "gone"
    BY <2>1 DEF Row
  <2>4. /\ quotes' \in [Quotes -> Row] /\ quotes'[req[h].quote].status = "gone"
        /\ \A p \in Quotes \ {req[h].quote} : quotes'[p] = quotes[p]
    BY <1>3, <2>1, <2>2, <2>3, SaveRowTypes DEF Remove
  <2>5. /\ req' \in [Handlers -> QuoteRequest]
        /\ \A g \in Handlers : req'[g].pc = "moving" => g # h /\ req'[g] = req[g]
    BY <1>0, <1>3, GotoTypes DEF Remove
  <2>6. \A q \in Quotes : Exists(q)' => lines'[q] \in Lines
    BY <1>3, <2>4 DEF Exists, TypesInv, Remove, Life!Statuses
  <2> QED
    BY <1>3, <2>4, <2>5, <2>6 DEF Remove, TypesInv, clients, ghosts
<1>4. CASE RecordOrder(h)
  <2>1. req[h].quote \in Quotes /\ quotes[req[h].quote] \in Row /\ req[h].order \in Nat
    BY <1>0, <1>4, QuoteRequestIs DEF RecordOrder, TypesInv
  <2>2. [quotes[req[h].quote] EXCEPT !.order = req[h].order] \in Row
    BY <2>1, RowChanges
  <2>3. [quotes[req[h].quote] EXCEPT !.order = req[h].order].status = quotes[req[h].quote].status
    BY <2>1 DEF Row
  <2>4. /\ quotes' \in [Quotes -> Row]
        /\ \A p \in Quotes : quotes'[p].status = quotes[p].status
    BY <1>4, <2>1, <2>2, <2>3, SaveRowTypes DEF RecordOrder
  <2>5. /\ req' \in [Handlers -> QuoteRequest]
        /\ \A g \in Handlers : req'[g].pc = "moving" => g # h /\ req'[g] = req[g]
    BY <1>0, <1>4, GotoTypes DEF RecordOrder
  <2>6. \A q \in Quotes : Exists(q)' => lines'[q] \in Lines
    BY <1>4, <2>4 DEF Exists, TypesInv, RecordOrder
  <2> QED
    BY <1>4, <2>4, <2>5, <2>6 DEF RecordOrder, TypesInv, clients, ghosts
<1> QED
  BY <1>1, <1>2, <1>3, <1>4

(* The steps of a conversion.                                              *)
LEMMA ConvertTypes ==
    ASSUME TypesInv, NEW h \in Handlers,
           Claim(h) \/ ClaimRefused(h) \/ CreateOrder(h)
    PROVE  TypesInv'
<1>0. NoReq \in QuoteRequest /\ NoReq.pc = "idle" /\ req[h] \in QuoteRequest
  BY DEF QuoteRequest, NoReq, TypesInv
<1>1. CASE Claim(h)
  <2>1. PICK q \in Quotes : q = req[h].quote /\ quotes[q] \in Row /\ Exists(q)
    BY <1>0, <1>1, QuoteRequestIs, FromTo DEF Claim, TypesInv, Exists
  <2>2. req[h] \in [pc : {"claiming", "ordering"}, quote : Quotes, row : Row, lines : Lines]
    BY <1>0, <1>1, QuoteRequestIs DEF Claim
  <2>3. PICK r : r = [req[h] EXCEPT !.pc = "ordering"]
    OBVIOUS
  <2>4. r \in QuoteRequest /\ r.pc # "moving"
    BY <2>2, <2>3 DEF QuoteRequest
  <2>5. PICK row \in Row : row = [quotes[q] EXCEPT !.status = Life!To["convert"]]
    BY <2>1, RowChanges, FromTo
  <2>6. /\ quotes' \in [Quotes -> Row]
        /\ \A p \in Quotes \ {q} : quotes'[p] = quotes[p]
    BY <1>1, <2>1, <2>5, SaveRowTypes DEF Claim
  <2>7. /\ req' \in [Handlers -> QuoteRequest]
        /\ \A g \in Handlers : req'[g].pc = "moving" => g # h /\ req'[g] = req[g]
    BY <1>1, <2>3, <2>4, GotoTypes DEF Claim
  <2>8. \A p \in Quotes : Exists(p)' => lines'[p] \in Lines
    BY <1>1, <2>1, <2>6 DEF Exists, TypesInv, Claim
  <2> QED
    BY <1>1, <2>6, <2>7, <2>8 DEF Claim, TypesInv, clients, ghosts
<1>2. CASE ClaimRefused(h)
  <2>1. /\ req' \in [Handlers -> QuoteRequest]
        /\ \A g \in Handlers : req'[g].pc = "moving" => g # h /\ req'[g] = req[g]
    BY <1>0, <1>2, GotoTypes DEF ClaimRefused
  <2> QED
    BY <1>2, <2>1 DEF ClaimRefused, TypesInv, clients, ghosts, Exists
<1>3. CASE CreateOrder(h)
  <2>1. PICK q \in Quotes : q = req[h].quote /\ req[h].lines \in Lines /\ orders[q] \in Seq(Lines)
    BY <1>0, <1>3, QuoteRequestIs DEF CreateOrder, TypesInv
  <2>2. /\ orders' \in [Quotes -> Seq(Lines)]
        /\ req' \in [Handlers -> QuoteRequest]
        /\ \A g \in Handlers : req'[g].pc = "moving" => g # h /\ req'[g] = req[g]
    <3>1. CASE Goto(h, NoReq) /\ UNCHANGED orders
      BY <1>0, <3>1, GotoTypes DEF TypesInv
    <3>2. CASE /\ orders' = [orders EXCEPT ![q] = Append(@, req[h].lines)]
               /\ Goto(h, [pc |-> "recording", quote |-> q, order |-> Len(orders[q]) + 1])
      <4>1. Append(orders[q], req[h].lines) \in Seq(Lines) /\ Len(orders[q]) + 1 \in Nat
        BY <2>1
      <4>2. orders' \in [Quotes -> Seq(Lines)]
        BY <3>2, <4>1 DEF TypesInv
      <4>3. PICK r : r = [pc |-> "recording", quote |-> q, order |-> Len(orders[q]) + 1]
        OBVIOUS
      <4>4. r \in QuoteRequest /\ r.pc = "recording"
        BY <4>1, <4>3 DEF QuoteRequest
      <4> QED
        BY <3>2, <4>2, <4>3, <4>4, GotoTypes
    <3> QED
      BY <1>3, <2>1, <3>1, <3>2 DEF CreateOrder
  <2> QED
    BY <1>3, <2>2 DEF CreateOrder, TypesInv, clients, ghosts, Exists
<1> QED
  BY <1>1, <1>2, <1>3

(* The sweep gives a reader to rows, and changes nothing else of them.     *)
LEMMA SweepRows ==
    ASSUME TypesInv, NEW h \in Handlers, Sweep(h)
    PROVE  /\ req[h].account \in Accounts
           /\ quotes' \in [Quotes -> Row]
           /\ \A q \in Quotes : quotes'[q].status = quotes[q].status
<1>1. req[h].account \in Accounts
  BY QuoteRequestIs DEF Sweep, TypesInv
<1>2. \A q \in Quotes :
         LET row == [quotes[q] EXCEPT !.reader = req[h].account]
         IN  row \in Row /\ row.status = quotes[q].status
  BY <1>1, RowChanges DEF TypesInv, Row
<1>3. CASE UNCHANGED quotes
  BY <1>1, <1>3 DEF TypesInv
<1>4. CASE quotes' = [q \in Quotes |->
                         IF quotes[q].profiled /\ quotes[q].reader = None /\ Exists(q)
                         THEN [quotes[q] EXCEPT !.reader = req[h].account]
                         ELSE quotes[q]]
  BY <1>1, <1>2, <1>4 DEF TypesInv
<1> QED
  BY <1>3, <1>4 DEF Sweep

(* The steps of the customer's profile, the clock and failures.            *)
LEMMA OtherTypes ==
    ASSUME TypesInv,
           \/ \E h \in Handlers : Link(h) \/ Sweep(h) \/ SaveProfile(h) \/ Fail(h)
           \/ \E a \in Accounts : EnsureSelf(a)
           \/ Tick
    PROVE  TypesInv'
<1>0. NoReq \in QuoteRequest /\ NoReq.pc = "idle" /\ \A h \in Handlers : req[h] \in QuoteRequest
  BY DEF QuoteRequest, NoReq, TypesInv
<1> DEFINE Kept(h) == /\ req' \in [Handlers -> QuoteRequest]
                      /\ \A g \in Handlers : req'[g].pc = "moving" => g # h /\ req'[g] = req[g]
<1>1. ASSUME NEW h \in Handlers, Link(h) PROVE TypesInv'
  <2>1. req[h] \in [pc : {"linking", "sweeping"}, account : Accounts]
    BY <1>0, <1>1, QuoteRequestIs DEF Link
  <2>2. PICK r : r = [req[h] EXCEPT !.pc = "sweeping"]
    OBVIOUS
  <2>3. r \in QuoteRequest /\ r.pc = "sweeping"
    BY <2>1, <2>2 DEF QuoteRequest
  <2>4. Kept(h)
    BY <1>0, <1>1, <2>2, <2>3, GotoTypes DEF Link
  <2> QED
    BY <1>1, <2>1, <2>4 DEF Link, TypesInv, ghosts, Exists
<1>2. ASSUME NEW h \in Handlers, Sweep(h) PROVE TypesInv'
  <2>1. Kept(h)
    BY <1>0, <1>2, GotoTypes DEF Sweep
  <2>2. missed' \in BOOLEAN
    BY <1>2 DEF Sweep, TypesInv
  <2> QED
    BY <1>2, <2>1, <2>2, SweepRows DEF Sweep, TypesInv, clients, Exists
<1>3. ASSUME NEW h \in Handlers, SaveProfile(h) PROVE TypesInv'
  <2>1. Kept(h)
    BY <1>0, <1>3, GotoTypes DEF SaveProfile
  <2>2. profile' \in Accounts \cup {None}
    BY <1>0, <1>3, QuoteRequestIs DEF SaveProfile
  <2> QED
    BY <1>3, <2>1, <2>2 DEF SaveProfile, TypesInv, ghosts, Exists
<1>4. ASSUME NEW h \in Handlers, Fail(h) PROVE TypesInv'
  <2>1. Kept(h)
    BY <1>0, <1>4, GotoTypes DEF Fail
  <2>2. missed' \in BOOLEAN
    BY <1>4 DEF Fail, TypesInv
  <2> QED
    BY <1>4, <2>1, <2>2 DEF Fail, TypesInv, clients, Exists
<1>5. ASSUME NEW a \in Accounts, EnsureSelf(a) PROVE TypesInv'
  BY <1>5 DEF EnsureSelf, TypesInv, ghosts, Exists
<1>6. CASE Tick
  <2>1. now' \in 0..MaxTime
    BY <1>6, QuotesAssumption DEF Tick, TypesInv
  <2> QED
    BY <1>6, <2>1 DEF Tick, TypesInv, ghosts, Exists
<1> QED
  BY <1>1, <1>2, <1>3, <1>4, <1>5, <1>6

(* A request begins, ends or goes on, or something else happens.           *)
LEMMA EveryStep ==
    ASSUME QuoteNext
    PROVE  \/ \E h \in Handlers :
                \/ \E q \in Quotes : \/ BeginCreate(h, q) \/ BeginEdit(h, q) \/ BeginRemove(h, q)
                                     \/ BeginConvert(h, q)
                                     \/ \E a \in {"send", "approve", "reject"} : BeginMove(h, q, a)
                \/ \E a \in Accounts : BeginLink(h, a)
                \/ BeginProfile(h)
           \/ \E h \in Handlers : SaveQuote(h) \/ SaveMove(h) \/ Remove(h) \/ RecordOrder(h)
           \/ \E h \in Handlers : Claim(h) \/ ClaimRefused(h) \/ CreateOrder(h)
           \/ \E h \in Handlers : Link(h) \/ Sweep(h) \/ SaveProfile(h) \/ Fail(h)
           \/ \E a \in Accounts : EnsureSelf(a)
           \/ Tick
  BY DEF QuoteNext

LEMMA TypesAlways == QuoteSpec => []TypesInv
<1>1. TypesInv /\ [QuoteNext]_quoteVars => TypesInv'
  <2> SUFFICES ASSUME TypesInv, [QuoteNext]_quoteVars PROVE TypesInv'
    OBVIOUS
  <2>1. CASE QuoteNext
    BY <2>1, EveryStep, BeginTypes, SaveTypes, ConvertTypes, OtherTypes
  <2>2. CASE UNCHANGED quoteVars
    BY <2>2 DEF quoteVars, TypesInv, Exists
  <2> QED
    BY <2>1, <2>2
<1> QED
  BY <1>1, TypesInitially, PTL DEF QuoteSpec

(* The rows of quotes and what the handlers carry keep their types in      *)
(* every behaviour; `expired` is never the status of a row.                *)
THEOREM QuotesTyped == QuoteSpec => []QuoteTypeOK
<1>1. TypesInv => QuoteTypeOK
  <2> SUFFICES ASSUME TypesInv, NEW h \in Handlers
               PROVE  \/ req[h] = NoReq
                      \/ req[h].pc \in {"creating", "editing"} /\ req[h].quote \in Quotes
                         /\ req[h].row \in Row /\ req[h].lines \in Lines
                      \/ req[h].pc = "moving" /\ req[h].quote \in Quotes /\ req[h].row \in Row
                         /\ req[h].to \in Life!Statuses
                      \/ req[h].pc = "removing" /\ req[h].quote \in Quotes
                      \/ req[h].pc \in {"claiming", "ordering"} /\ req[h].quote \in Quotes
                         /\ req[h].row \in Row /\ req[h].lines \in Lines
                      \/ req[h].pc = "recording" /\ req[h].quote \in Quotes /\ req[h].order \in Nat
                      \/ req[h].pc \in {"linking", "sweeping"} /\ req[h].account \in Accounts
                      \/ req[h].pc = "profiling" /\ req[h].account \in Accounts \cup {None}
    BY DEF QuoteTypeOK, TypesInv
  <2>1. req[h] \in QuoteRequest
    BY DEF TypesInv
  <2> QED
    BY <2>1 DEF QuoteRequest
<1> QED
  BY <1>1, TypesAlways, PTL

-------------------------------------------------------------------------------
(* The lifecycle *)

(* A request that saves a whole row is alone.                              *)
Alone == \A g, h \in Handlers : req[g].pc \in Writing /\ g # h => req[h].pc = "idle"

(* What the row of a quote is while a handler works on it.                 *)
Working(h) ==
    LET q == req[h].quote
    IN  /\ req[h].pc = "creating" => quotes[q].status = "none" /\ req[h].row.status = "draft"
        /\ req[h].pc = "editing" => quotes[q].status = "draft" /\ req[h].row.status = "draft"
        /\ req[h].pc = "moving" =>
              \E a \in {"send", "approve", "reject"} :
                 /\ quotes[q].status = Life!From[a] /\ req[h].to = Life!To[a]
        /\ req[h].pc = "removing" => quotes[q].status = "draft"
        /\ req[h].pc \in {"claiming", "ordering"} => req[h].lines = lines[q]
        /\ req[h].pc = "ordering" => quotes[q].status = "converted" /\ orders[q] = <<>>

(* One conversion of a quote at most gets past the claim.                  *)
OneClaim ==
    \A g, h \in Handlers :
        g # h /\ req[g].pc = "ordering" /\ req[h].pc = "ordering" => req[g].quote # req[h].quote

(* What a quote became, and what it says, by its status.                   *)
Became(q) ==
    /\ orders[q] # <<>> => quotes[q].status = "converted" /\ orders[q] = <<approved[q]>>
    /\ quotes[q].status \in {"approved", "converted"} => approved[q] = lines[q]

CycleInv ==
    /\ Alone /\ OneClaim
    /\ \A h \in Handlers : Working(h)
    /\ \A q \in Quotes : Became(q)

(* A quote's status changes, and nothing it became.                        *)
LEMMA StatusStep ==
    ASSUME NEW p \in Quotes, UNCHANGED orders,
           \A q \in Quotes \ {p} : quotes'[q].status = quotes[q].status,
           NEW from, NEW to, quotes[p].status = from, quotes'[p].status = to
    PROVE  Life!Step(p, from, to)
  BY DEF Life!Step

(* No status changes, and nothing any quote became.                        *)
LEMMA StatusesStay ==
    ASSUME UNCHANGED orders, \A q \in Quotes : quotes'[q].status = quotes[q].status
    PROVE  UNCHANGED Life!lifeVars
  BY DEF Life!lifeVars

(* A request ends, or goes on past the rows it works on.                   *)
LEMMA EndsQuietly ==
    ASSUME CycleInv, NEW h \in Handlers,
           \A g \in Handlers \ {h} : req'[g] = req[g],
           \/ req'[h].pc = "idle"
           \/ req[h].pc # "idle" /\ req'[h].pc \in {"recording", "sweeping"},
           UNCHANGED <<lines, orders, approved>>,
           \A q \in Quotes : quotes'[q].status = quotes[q].status,
           TypesInv
    PROVE  CycleInv' /\ UNCHANGED Life!lifeVars
<1>1. Alone' /\ OneClaim'
  BY DEF CycleInv, Alone, OneClaim, Writing
<1>2. \A q \in Quotes : Became(q)'
  BY DEF CycleInv, Became
<1>3. ASSUME NEW g \in Handlers PROVE Working(g)'
  <2>1. CASE g = h
    BY <2>1 DEF Working
  <2>2. CASE g # h
    <3>1. CASE req[g].pc \in {"creating", "editing", "moving", "removing", "claiming", "ordering"}
      <4>1. req[g].quote \in Quotes
        BY <3>1, QuoteRequestIs DEF TypesInv
      <4> QED
        BY <2>2, <4>1 DEF CycleInv, Working
    <3>2. CASE req[g].pc \notin {"creating", "editing", "moving", "removing", "claiming", "ordering"}
      BY <2>2, <3>2 DEF Working
    <3> QED
      BY <3>1, <3>2
  <2> QED
    BY <2>1, <2>2
<1> QED
  BY <1>1, <1>2, <1>3, StatusesStay DEF CycleInv

(* A request that saves a whole row ends: no other was in progress.        *)
LEMMA EndsAlone ==
    ASSUME CycleInv, TypesInv, NEW h \in Handlers, req[h].pc \in Writing, Goto(h, NoReq),
           NEW q \in Quotes, q = req[h].quote,
           UNCHANGED orders,
           \A p \in Quotes \ {q} : /\ quotes'[p] = quotes[p] /\ lines'[p] = lines[p]
                                   /\ approved'[p] = approved[p],
           Became(q)'
    PROVE  CycleInv'
<1>1. \A g \in Handlers : req'[g].pc = "idle"
  BY DEF CycleInv, Alone, Goto, TypesInv, NoReq
<1>2. Alone' /\ OneClaim' /\ \A g \in Handlers : Working(g)'
  BY <1>1 DEF Alone, OneClaim, Working, Writing
<1>3. \A p \in Quotes : Became(p)'
  <2>1. ASSUME NEW p \in Quotes \ {q} PROVE Became(p)'
    BY <2>1 DEF CycleInv, Became
  <2> QED
    BY <2>1
<1> QED
  BY <1>2, <1>3 DEF CycleInv

LEMMA CycleInitially == QuoteInit => CycleInv /\ Life!LifeInit
<1> SUFFICES ASSUME QuoteInit PROVE CycleInv /\ Life!LifeInit
  OBVIOUS
<1>1. \A h \in Handlers : req[h].pc = "idle"
  BY DEF QuoteInit, NoReq
<1>2. Alone /\ OneClaim /\ \A h \in Handlers : Working(h)
  BY <1>1 DEF Alone, OneClaim, Working, Writing
<1>3. \A q \in Quotes : Became(q)
  BY DEF QuoteInit, Became
<1>4. Life!LifeInit
  BY DEF QuoteInit, Life!LifeInit
<1> QED
  BY <1>2, <1>3, <1>4 DEF CycleInv

(* The requests as they begin.                                             *)
LEMMA BeginCycle ==
    ASSUME Overlap = FALSE, TypesInv, CycleInv, NEW h \in Handlers,
           \/ \E q \in Quotes : \/ BeginCreate(h, q) \/ BeginEdit(h, q) \/ BeginRemove(h, q)
                                \/ BeginConvert(h, q)
                                \/ \E a \in {"send", "approve", "reject"} : BeginMove(h, q, a)
           \/ \E a \in Accounts : BeginLink(h, a)
           \/ BeginProfile(h)
    PROVE  CycleInv' /\ UNCHANGED Life!lifeVars
<1>1. /\ UNCHANGED <<quotes, lines, orders, clients, ghosts>>
      /\ \E r \in QuoteRequest : Take(h, r)
  BY BeginTypes
<1>2. PICK r \in QuoteRequest : Take(h, r)
  BY <1>1
<1>3. /\ req[h].pc = "idle" /\ req'[h] = r
      /\ \A g \in Handlers \ {h} : req'[g] = req[g]
      /\ \A g \in Handlers \ {h} :
            req[g].pc \notin Writing /\ (r.pc \in Writing => req[g].pc = "idle")
  BY <1>2 DEF Take, Goto, NoReq, TypesInv
<1>4. Alone'
  BY <1>3 DEF Alone, CycleInv
<1>5. r.pc # "ordering"
  BY <1>3 DEF BeginCreate, BeginEdit, BeginRemove, BeginConvert, BeginMove, BeginLink, BeginProfile,
              Take, Goto, TypesInv
<1>6. OneClaim'
  BY <1>3, <1>5 DEF OneClaim, CycleInv
<1>7. \A g \in Handlers \ {h} : Working(g)'
  BY <1>1, <1>3 DEF Working, CycleInv
<1>8. Working(h)'
  <2>1. ASSUME NEW q \in Quotes, BeginCreate(h, q) PROVE Working(h)'
    <3>1. PICK a, l, u :
             Take(h, [pc |-> "creating", quote |-> q, lines |-> l,
                      row |-> [status |-> "draft", reader |-> Target(a).reader,
                               profiled |-> Target(a).profiled, until |-> u, order |-> 0]])
      BY <2>1 DEF BeginCreate
    <3>2. PICK row : row = [status |-> "draft", reader |-> Target(a).reader,
                            profiled |-> Target(a).profiled, until |-> u, order |-> 0]
      OBVIOUS
    <3>3. PICK s : s = [pc |-> "creating", quote |-> q, lines |-> l, row |-> row]
      OBVIOUS
    <3>4. req'[h] = s
      BY <3>1, <3>2, <3>3 DEF Take, Goto, TypesInv
    <3>5. s.pc = "creating" /\ s.quote = q /\ s.row.status = "draft" /\ quotes[q].status = "none"
      BY <2>1, <3>2, <3>3 DEF BeginCreate
    <3> QED
      BY <1>1, <3>4, <3>5 DEF Working
  <2>2. ASSUME NEW q \in Quotes, BeginEdit(h, q) PROVE Working(h)'
    <3>1. PICK u, l : Take(h, [pc |-> "editing", quote |-> q, lines |-> l,
                               row |-> [quotes[q] EXCEPT !.until = u]])
      BY <2>2 DEF BeginEdit
    <3>2. quotes[q].status = "draft" /\ quotes[q] \in Row
      BY <2>2 DEF BeginEdit, Editable, IsEditable, TypesInv
    <3>3. [quotes[q] EXCEPT !.until = u].status = "draft"
      BY <3>2 DEF Row
    <3>4. PICK s : s = [pc |-> "editing", quote |-> q, lines |-> l,
                        row |-> [quotes[q] EXCEPT !.until = u]]
      OBVIOUS
    <3>5. req'[h] = s
      BY <3>1, <3>4 DEF Take, Goto, TypesInv
    <3>6. s.pc = "editing" /\ s.quote = q /\ s.row.status = "draft"
      BY <3>3, <3>4
    <3> QED
      BY <1>1, <3>2, <3>5, <3>6 DEF Working
  <2>3. ASSUME NEW q \in Quotes, BeginRemove(h, q) PROVE Working(h)'
    <3>1. req'[h] = [pc |-> "removing", quote |-> q] /\ quotes[q].status = "draft"
      BY <2>3 DEF BeginRemove, IsEditable, Take, Goto, TypesInv
    <3> QED
      BY <1>1, <3>1 DEF Working
  <2>4. ASSUME NEW q \in Quotes, BeginConvert(h, q) PROVE Working(h)'
    <3>1. req'[h] = [pc |-> "claiming", quote |-> q, row |-> quotes[q], lines |-> lines[q]]
      BY <2>4 DEF BeginConvert, Take, Goto, TypesInv
    <3> QED
      BY <1>1, <3>1 DEF Working
  <2>5. ASSUME NEW q \in Quotes, NEW a \in {"send", "approve", "reject"}, BeginMove(h, q, a)
        PROVE  Working(h)'
    <3>1. /\ req'[h] = [pc |-> "moving", quote |-> q, row |-> quotes[q], to |-> Life!To[a]]
          /\ quotes[q].status = Life!From[a]
      BY <2>5 DEF BeginMove, Take, Goto, TypesInv
    <3> QED
      BY <1>1, <3>1 DEF Working
  <2>6. ASSUME NEW a \in Accounts, BeginLink(h, a) PROVE Working(h)'
    <3>1. req'[h].pc = "linking"
      BY <2>6 DEF BeginLink, Take, Goto, TypesInv
    <3> QED
      BY <3>1 DEF Working
  <2>7. CASE BeginProfile(h)
    <3>1. req'[h].pc = "profiling"
      BY <2>7 DEF BeginProfile, Take, Goto, TypesInv
    <3> QED
      BY <3>1 DEF Working
  <2> QED
    BY <2>1, <2>2, <2>3, <2>4, <2>5, <2>6, <2>7
<1>9. \A q \in Quotes : Became(q)'
  BY <1>1 DEF Became, CycleInv, ghosts
<1> QED
  BY <1>1, <1>4, <1>6, <1>7, <1>8, <1>9, StatusesStay DEF CycleInv

(* The steps that end a request that saves a row, and RecordOrder.         *)
LEMMA SaveCycle ==
    ASSUME TypesInv, CycleInv, NEW h \in Handlers,
           SaveQuote(h) \/ SaveMove(h) \/ Remove(h) \/ RecordOrder(h)
    PROVE  CycleInv' /\ [Life!LifeNext]_Life!lifeVars
<1>0. req[h] \in QuoteRequest /\ NoReq.pc = "idle"
  BY DEF TypesInv, NoReq
<1>1. CASE SaveQuote(h)
  <2>1. PICK q \in Quotes : q = req[h].quote
    BY <1>0, <1>1, QuoteRequestIs DEF SaveQuote
  <2>2. /\ quotes'[q] = req[h].row /\ UNCHANGED <<orders, approved>> /\ Goto(h, NoReq)
        /\ \A p \in Quotes \ {q} : quotes'[p] = quotes[p] /\ lines'[p] = lines[p]
    BY <1>1, <2>1 DEF SaveQuote, SaveRow, TypesInv, ghosts
  <2>3. quotes'[q].status = "draft" /\ quotes[q].status \in {"none", "draft"} /\ orders[q] = <<>>
    BY <1>1, <2>1, <2>2 DEF SaveQuote, CycleInv, Working, Became
  <2>4. Became(q)'
    BY <2>2, <2>3 DEF Became
  <2>5. CycleInv'
    BY <1>1, <2>1, <2>2, <2>4, EndsAlone DEF SaveQuote, Writing
  <2>6. CASE quotes[q].status = "draft"
    BY <2>2, <2>3, <2>5, <2>6, StatusesStay
  <2>7. CASE quotes[q].status = "none"
    <3>1. Life!Step(q, "none", "draft")
      BY <2>2, <2>3, <2>7, StatusStep
    <3> QED
      BY <2>5, <3>1 DEF Life!LifeNext
  <2> QED
    BY <2>3, <2>6, <2>7
<1>2. CASE SaveMove(h)
  <2>1. PICK q \in Quotes : q = req[h].quote
    BY <1>0, <1>2, QuoteRequestIs DEF SaveMove
  <2>2. PICK a \in {"send", "approve", "reject"} :
           quotes[q].status = Life!From[a] /\ req[h].to = Life!To[a]
    BY <1>2, <2>1 DEF SaveMove, CycleInv, Working
  <2>3. req[h].row \in Row /\ Moved(req[h].row, req[h].to).status = Life!To[a]
    BY <1>0, <1>2, <2>2, QuoteRequestIs DEF SaveMove, Moved, Row
  <2>4. /\ quotes'[q].status = Life!To[a] /\ UNCHANGED <<orders, lines>> /\ Goto(h, NoReq)
        /\ \A p \in Quotes \ {q} : quotes'[p] = quotes[p] /\ approved'[p] = approved[p]
        /\ Life!To[a] = "approved" => approved'[q] = lines[q]
    BY <1>2, <2>1, <2>2, <2>3 DEF SaveMove, SaveRow, TypesInv
  <2>5. orders[q] = <<>>
    BY <2>2, FromTo DEF CycleInv, Became
  <2>6. Became(q)'
    BY <2>4, <2>5, FromTo DEF Became
  <2>7. CycleInv'
    BY <1>2, <2>1, <2>4, <2>6, EndsAlone DEF SaveMove, Writing
  <2>8. Life!Step(q, Life!From[a], Life!To[a])
    BY <2>2, <2>4, StatusStep
  <2> QED
    BY <2>7, <2>8 DEF Life!LifeNext, Life!Actions
<1>3. CASE Remove(h)
  <2>1. PICK q \in Quotes : q = req[h].quote
    BY <1>0, <1>3, QuoteRequestIs DEF Remove
  <2>2. [quotes[q] EXCEPT !.status = "gone"].status = "gone"
    BY DEF Row, TypesInv
  <2>3. /\ quotes'[q].status = "gone" /\ UNCHANGED <<orders, lines, approved>> /\ Goto(h, NoReq)
        /\ \A p \in Quotes \ {q} : quotes'[p] = quotes[p]
    BY <1>3, <2>1, <2>2 DEF Remove, SaveRow, TypesInv, ghosts
  <2>4. quotes[q].status = "draft" /\ orders[q] = <<>>
    BY <1>3, <2>1 DEF Remove, CycleInv, Working, Became
  <2>5. Became(q)'
    BY <2>3, <2>4 DEF Became
  <2>6. CycleInv'
    BY <1>3, <2>1, <2>3, <2>5, EndsAlone DEF Remove, Writing
  <2>7. Life!Step(q, "draft", "gone")
    BY <2>3, <2>4, StatusStep
  <2> QED
    BY <2>6, <2>7 DEF Life!LifeNext
<1>4. CASE RecordOrder(h)
  <2>1. PICK q \in Quotes : q = req[h].quote
    BY <1>0, <1>4, QuoteRequestIs DEF RecordOrder
  <2>2. [quotes[q] EXCEPT !.order = req[h].order].status = quotes[q].status
    BY DEF Row, TypesInv
  <2>3. /\ req'[h].pc = "idle" /\ \A g \in Handlers \ {h} : req'[g] = req[g]
        /\ UNCHANGED <<lines, orders, approved>>
        /\ \A p \in Quotes : quotes'[p].status = quotes[p].status
    BY <1>0, <1>4, <2>1, <2>2 DEF RecordOrder, SaveRow, Goto, TypesInv, ghosts
  <2> QED
    BY <2>3, EndsQuietly
<1> QED
  BY <1>1, <1>2, <1>3, <1>4

(* The steps of a conversion.                                              *)
LEMMA ConvertCycle ==
    ASSUME TypesInv, CycleInv, NEW h \in Handlers,
           Claim(h) \/ ClaimRefused(h) \/ CreateOrder(h)
    PROVE  CycleInv' /\ [Life!LifeNext]_Life!lifeVars
<1>0. req[h] \in QuoteRequest /\ NoReq.pc = "idle"
  BY DEF TypesInv, NoReq
<1>1. CASE Claim(h)
  <2>1. PICK q \in Quotes : q = req[h].quote
    BY <1>0, <1>1, QuoteRequestIs DEF Claim
  <2>2. req[h] \in [pc : {"claiming", "ordering"}, quote : Quotes, row : Row, lines : Lines]
    BY <1>0, <1>1, QuoteRequestIs DEF Claim
  <2>3. PICK r : r = [req[h] EXCEPT !.pc = "ordering"]
    OBVIOUS
  <2>4. r.pc = "ordering" /\ r.quote = q /\ r.lines = req[h].lines
    BY <2>1, <2>2, <2>3
  <2>5. [quotes[q] EXCEPT !.status = Life!To["convert"]].status = Life!To["convert"]
    BY DEF Row, TypesInv
  <2>6. /\ quotes[q].status = "approved" /\ quotes'[q].status = "converted"
        /\ \A p \in Quotes \ {q} : quotes'[p] = quotes[p]
        /\ req'[h] = r /\ \A g \in Handlers \ {h} : req'[g] = req[g]
        /\ UNCHANGED <<lines, orders, approved>>
    BY <1>1, <2>1, <2>3, <2>5 DEF Claim, SaveRow, Goto, TypesInv, ghosts, Life!From, Life!To
  <2>7. Alone' /\ \A g \in Handlers : req[g].pc \notin Writing
    BY <1>1, <2>4, <2>6 DEF CycleInv, Alone, Claim, Writing
  <2>8. orders[q] = <<>> /\ approved[q] = lines[q]
    BY <2>6 DEF CycleInv, Became
  <2>9. \A g \in Handlers : req[g].pc = "ordering" => req[g].quote # q
    BY <2>6 DEF CycleInv, Working
  <2>10. OneClaim'
    BY <2>4, <2>6, <2>9 DEF CycleInv, OneClaim
  <2>11. Working(h)'
    BY <1>1, <2>1, <2>4, <2>6, <2>8 DEF CycleInv, Working, Claim
  <2>12. ASSUME NEW g \in Handlers \ {h} PROVE Working(g)'
    <3>1. CASE req[g].pc \in {"claiming", "ordering"}
      <4>1. req[g].quote \in Quotes
        BY <3>1, QuoteRequestIs DEF TypesInv
      <4> QED
        BY <2>6, <2>9, <3>1, <4>1 DEF CycleInv, Working
    <3>2. CASE req[g].pc \notin {"claiming", "ordering"}
      BY <2>6, <2>7, <3>2 DEF Working, Writing
    <3> QED
      BY <3>1, <3>2
  <2>13. \A p \in Quotes : Became(p)'
    BY <2>6, <2>8 DEF CycleInv, Became
  <2>14. CycleInv'
    BY <2>7, <2>10, <2>11, <2>12, <2>13 DEF CycleInv
  <2>15. Life!Step(q, Life!From["convert"], Life!To["convert"])
    BY <2>6, StatusStep DEF Life!From, Life!To
  <2> QED
    BY <2>14, <2>15 DEF Life!LifeNext, Life!Actions
<1>2. CASE ClaimRefused(h)
  <2>1. /\ req'[h].pc = "idle" /\ \A g \in Handlers \ {h} : req'[g] = req[g]
        /\ UNCHANGED <<quotes, lines, orders, approved>>
    BY <1>0, <1>2 DEF ClaimRefused, Goto, TypesInv, ghosts
  <2> QED
    BY <2>1, EndsQuietly
<1>3. CASE CreateOrder(h)
  <2>1. PICK q \in Quotes : q = req[h].quote /\ req[h].lines \in Lines
    BY <1>0, <1>3, QuoteRequestIs DEF CreateOrder
  <2>2. UNCHANGED <<quotes, lines, approved>> /\ req[h].pc = "ordering"
    BY <1>3 DEF CreateOrder, ghosts
  <2>3. CASE Goto(h, NoReq) /\ UNCHANGED orders
    <3>1. req'[h].pc = "idle" /\ \A g \in Handlers \ {h} : req'[g] = req[g]
      BY <1>0, <2>3 DEF Goto, TypesInv
    <3> QED
      BY <2>2, <2>3, <3>1, EndsQuietly
  <2>4. CASE /\ orders' = [orders EXCEPT ![q] = Append(@, req[h].lines)]
             /\ Goto(h, [pc |-> "recording", quote |-> q, order |-> Len(orders[q]) + 1])
    <3>1. /\ req'[h].pc = "recording" /\ \A g \in Handlers \ {h} : req'[g] = req[g]
      BY <2>4 DEF Goto, TypesInv
    <3>2. /\ quotes[q].status = "converted" /\ orders[q] = <<>> /\ req[h].lines = lines[q]
          /\ approved[q] = lines[q]
      BY <2>1, <2>2 DEF CycleInv, Working, Became
    <3>3. /\ orders'[q] = <<approved[q]>>
          /\ \A p \in Quotes \ {q} : orders'[p] = orders[p]
      BY <2>1, <2>4, <3>2 DEF TypesInv
    <3>4. Alone' /\ OneClaim' /\ \A g \in Handlers : req[g].pc \notin Writing
      BY <2>2, <3>1 DEF CycleInv, Alone, OneClaim, Writing
    <3>5. ASSUME NEW g \in Handlers PROVE Working(g)'
      <4>1. CASE g = h
        BY <3>1, <4>1 DEF Working
      <4>2. CASE g # h /\ req[g].pc \in {"claiming", "ordering"}
        <5>1. req[g].quote \in Quotes
          BY <4>2, QuoteRequestIs DEF TypesInv
        <5>2. req[g].pc = "ordering" => req[g].quote # q
          BY <2>1, <2>2, <4>2 DEF CycleInv, OneClaim
        <5> QED
          BY <2>2, <3>1, <3>3, <4>2, <5>1, <5>2 DEF CycleInv, Working
      <4>3. CASE g # h /\ req[g].pc \notin {"claiming", "ordering"}
        BY <3>1, <3>4, <4>3 DEF Working, Writing
      <4> QED
        BY <4>1, <4>2, <4>3
    <3>6. \A p \in Quotes : Became(p)'
      BY <2>2, <3>2, <3>3 DEF CycleInv, Became
    <3>7. Life!Order(q)
      <4>1. Len(orders[q]) = 0 /\ Len(orders'[q]) = 1
        BY <3>2, <3>3
      <4> QED
        BY <2>2, <3>2, <3>3, <4>1 DEF Life!Order
    <3> QED
      BY <3>4, <3>5, <3>6, <3>7 DEF CycleInv, Life!LifeNext
  <2> QED
    BY <1>3, <2>1, <2>3, <2>4 DEF CreateOrder
<1> QED
  BY <1>1, <1>2, <1>3

(* The steps of the customer's profile, the clock and failures.            *)
LEMMA OtherCycle ==
    ASSUME TypesInv, CycleInv,
           \/ \E h \in Handlers : Link(h) \/ Sweep(h) \/ SaveProfile(h) \/ Fail(h)
           \/ \E a \in Accounts : EnsureSelf(a)
           \/ Tick
    PROVE  CycleInv' /\ UNCHANGED Life!lifeVars
<1>1. ASSUME NEW h \in Handlers, Link(h) \/ Sweep(h) \/ SaveProfile(h) \/ Fail(h)
      PROVE  CycleInv' /\ UNCHANGED Life!lifeVars
  <2>1. req[h] \in QuoteRequest /\ NoReq.pc = "idle"
    BY DEF TypesInv, NoReq
  <2>2. /\ UNCHANGED <<lines, orders, approved>>
        /\ \A q \in Quotes : quotes'[q].status = quotes[q].status
    BY <1>1, SweepRows DEF Link, Sweep, SaveProfile, Fail, ghosts
  <2>3. /\ \A g \in Handlers \ {h} : req'[g] = req[g]
        /\ \/ req'[h].pc = "idle"
           \/ req[h].pc # "idle" /\ req'[h].pc = "sweeping"
    <3>1. CASE Link(h)
      <4>1. req[h] \in [pc : {"linking", "sweeping"}, account : Accounts]
        BY <2>1, <3>1, QuoteRequestIs DEF Link
      <4>2. [req[h] EXCEPT !.pc = "sweeping"].pc = "sweeping"
        BY <4>1
      <4> QED
        BY <2>1, <3>1, <4>2 DEF Link, Goto, TypesInv
    <3>2. CASE Sweep(h) \/ SaveProfile(h) \/ Fail(h)
      BY <2>1, <3>2 DEF Sweep, SaveProfile, Fail, Goto, TypesInv
    <3> QED
      BY <1>1, <3>1, <3>2
  <2> QED
    BY <2>2, <2>3, EndsQuietly
<1>2. CASE (\E a \in Accounts : EnsureSelf(a)) \/ Tick
  <2>1. UNCHANGED <<quotes, lines, orders, req, approved>>
    BY <1>2 DEF EnsureSelf, Tick, ghosts
  <2> QED
    BY <2>1, StatusesStay DEF CycleInv, Alone, OneClaim, Working, Became
<1> QED
  BY <1>1, <1>2

LEMMA CycleStep ==
    ASSUME Overlap = FALSE, TypesInv, CycleInv, [QuoteNext]_quoteVars
    PROVE  CycleInv' /\ [Life!LifeNext]_Life!lifeVars
<1>1. CASE QuoteNext
  BY <1>1, EveryStep, BeginCycle, SaveCycle, ConvertCycle, OtherCycle
<1>2. CASE UNCHANGED quoteVars
  BY <1>2, StatusesStay DEF quoteVars, CycleInv, Alone, OneClaim, Working, Became
<1> QED
  BY <1>1, <1>2

(* While no request that saves a whole row overlaps another, every quote   *)
(* moves along QUOTE_TRANSITIONS, is removed only as a draft and becomes   *)
(* one order at most, whatever claims race and wherever requests die.      *)
THEOREM QuotesKeepLifecycle ==
    ASSUME Overlap = FALSE
    PROVE  QuoteSpec => KeepsLifecycle
<1>1. QuoteInit => CycleInv /\ Life!LifeInit
  BY CycleInitially
<1>2. TypesInv /\ CycleInv /\ [QuoteNext]_quoteVars => CycleInv' /\ [Life!LifeNext]_Life!lifeVars
  BY CycleStep
<1> QED
  BY <1>1, <1>2, TypesAlways, PTL DEF QuoteSpec, KeepsLifecycle, Life!LifeSpec

(* The order a quote became says what the quote said when it was approved. *)
THEOREM QuotesOrderAsApproved ==
    ASSUME Overlap = FALSE
    PROVE  QuoteSpec => []OrderIsAsApproved
<1>1. QuoteInit => CycleInv
  BY CycleInitially
<1>2. TypesInv /\ CycleInv /\ [QuoteNext]_quoteVars => CycleInv'
  BY CycleStep
<1>3. CycleInv => OrderIsAsApproved
  <2> SUFFICES ASSUME CycleInv, NEW q \in Quotes, NEW i \in DOMAIN orders[q]
               PROVE  orders[q][i] = approved[q]
    BY DEF OrderIsAsApproved
  <2>1. CASE orders[q] = <<>>
    BY <2>1
  <2>2. CASE orders[q] = <<approved[q]>>
    BY <2>2
  <2> QED
    BY <2>1, <2>2 DEF CycleInv, Became
<1> QED
  BY <1>1, <1>2, <1>3, TypesAlways, PTL DEF QuoteSpec

-------------------------------------------------------------------------------
(* The readers *)

(* What a handler carries agrees with the row and the profile.             *)
Carried(h) ==
    /\ req[h].pc = "creating" => (req[h].row.profiled => req[h].row.reader = profile)
    /\ req[h].pc \in {"editing", "moving"} =>
          /\ req[h].row.profiled = quotes[req[h].quote].profiled
          /\ req[h].row.reader = quotes[req[h].quote].reader
    /\ req[h].pc = "profiling" => req[h].account = profile
    /\ req[h].pc = "sweeping" => req[h].account = profile /\ profile # None

(* A quote of the profile is read by its account, or by nobody yet.        *)
Awaiting(q) == Exists(q) /\ quotes[q].profiled => quotes[q].reader \in {None, profile}

ReaderInv ==
    /\ ReaderFound
    /\ \A h \in Handlers : Carried(h)
    /\ \A q \in Quotes : Awaiting(q)

(* The rows keep their readers, or get the profile's account.              *)
LEMMA ReadersStay ==
    ASSUME ReaderInv, UNCHANGED <<profile, missed>>,
           \A h \in Handlers : req[h].pc = "sweeping" => req'[h].pc = "sweeping",
           \A q \in Quotes : Exists(q)' /\ quotes'[q].profiled =>
               \/ Exists(q) /\ quotes[q].profiled /\ quotes'[q].reader = quotes[q].reader
               \/ quotes'[q].reader = profile
    PROVE  ReaderFound' /\ \A q \in Quotes : Awaiting(q)'
<1>1. \A q \in Quotes : Awaiting(q)'
  BY DEF ReaderInv, Awaiting
<1>2. CASE missed \/ profile = None
  BY <1>1, <1>2 DEF ReaderFound
<1>3. CASE \E h \in Handlers : req[h].pc = "sweeping"
  BY <1>1, <1>3 DEF ReaderFound
<1>4. CASE \A q \in Quotes : Exists(q) /\ quotes[q].profiled => quotes[q].reader = profile
  <2>1. \A q \in Quotes : Exists(q)' /\ quotes'[q].profiled => quotes'[q].reader = profile'
    BY <1>4
  <2> QED
    BY <1>1, <2>1 DEF ReaderFound
<1> QED
  BY <1>2, <1>3, <1>4 DEF ReaderInv, ReaderFound

(* The requests as they begin.                                             *)
LEMMA BeginReaders ==
    ASSUME TypesInv, ReaderInv, NEW h \in Handlers,
           \/ \E q \in Quotes : \/ BeginCreate(h, q) \/ BeginEdit(h, q) \/ BeginRemove(h, q)
                                \/ BeginConvert(h, q)
                                \/ \E a \in {"send", "approve", "reject"} : BeginMove(h, q, a)
           \/ \E a \in Accounts : BeginLink(h, a)
           \/ BeginProfile(h)
    PROVE  ReaderInv'
<1>1. /\ UNCHANGED <<quotes, lines, orders, clients, ghosts>>
      /\ \E r \in QuoteRequest : Take(h, r)
  BY BeginTypes
<1>2. req[h].pc = "idle" /\ \A g \in Handlers \ {h} : req'[g] = req[g]
  BY <1>1 DEF Take, Goto, NoReq, TypesInv
<1>3. ReaderFound' /\ \A q \in Quotes : Awaiting(q)'
  BY <1>1, <1>2, ReadersStay DEF clients, ghosts, Exists
<1>4. \A g \in Handlers \ {h} : Carried(g)'
  BY <1>1, <1>2 DEF ReaderInv, Carried, clients
<1>5. Carried(h)'
  <2>1. ASSUME NEW q \in Quotes, BeginCreate(h, q) PROVE Carried(h)'
    <3>1. PICK a, l, u :
             Take(h, [pc |-> "creating", quote |-> q, lines |-> l,
                      row |-> [status |-> "draft", reader |-> Target(a).reader,
                               profiled |-> Target(a).profiled, until |-> u, order |-> 0]])
      BY <2>1 DEF BeginCreate
    <3>2. PICK row : row = [status |-> "draft", reader |-> Target(a).reader,
                            profiled |-> Target(a).profiled, until |-> u, order |-> 0]
      OBVIOUS
    <3>3. PICK s : s = [pc |-> "creating", quote |-> q, lines |-> l, row |-> row]
      OBVIOUS
    <3>4. req'[h] = s
      BY <3>1, <3>2, <3>3 DEF Take, Goto, TypesInv
    <3>5. Target(a).profiled => Target(a).reader = profile
      BY DEF Target
    <3>6. s.pc = "creating" /\ (s.row.profiled => s.row.reader = profile)
      BY <3>2, <3>3, <3>5
    <3> QED
      BY <1>1, <3>4, <3>6 DEF Carried, clients
  <2>2. ASSUME NEW q \in Quotes, BeginEdit(h, q) PROVE Carried(h)'
    <3>1. PICK u, l : Take(h, [pc |-> "editing", quote |-> q, lines |-> l,
                               row |-> [quotes[q] EXCEPT !.until = u]])
      BY <2>2 DEF BeginEdit
    <3>2. PICK row : row = [quotes[q] EXCEPT !.until = u]
      OBVIOUS
    <3>3. row.profiled = quotes[q].profiled /\ row.reader = quotes[q].reader
      BY <3>2 DEF TypesInv, Row
    <3>4. PICK s : s = [pc |-> "editing", quote |-> q, lines |-> l, row |-> row]
      OBVIOUS
    <3>5. req'[h] = s
      BY <3>1, <3>2, <3>4 DEF Take, Goto, TypesInv
    <3>6. s.pc = "editing" /\ s.quote = q /\ s.row = row
      BY <3>4
    <3> QED
      BY <1>1, <3>3, <3>5, <3>6 DEF Carried
  <2>3. ASSUME NEW q \in Quotes, NEW a \in {"send", "approve", "reject"}, BeginMove(h, q, a)
        PROVE  Carried(h)'
    <3>1. req'[h] = [pc |-> "moving", quote |-> q, row |-> quotes[q], to |-> Life!To[a]]
      BY <2>3 DEF BeginMove, Take, Goto, TypesInv
    <3> QED
      BY <1>1, <3>1 DEF Carried
  <2>4. ASSUME BeginProfile(h) PROVE Carried(h)'
    <3>1. req'[h] = [pc |-> "profiling", account |-> profile]
      BY <2>4 DEF BeginProfile, Take, Goto, TypesInv
    <3> QED
      BY <1>1, <3>1 DEF Carried, clients
  <2>5. ASSUME NEW q \in Quotes, BeginRemove(h, q) \/ BeginConvert(h, q) PROVE Carried(h)'
    <3>1. req'[h].pc \in {"removing", "claiming"}
      BY <2>5 DEF BeginRemove, BeginConvert, Take, Goto, TypesInv
    <3> QED
      BY <3>1 DEF Carried
  <2>6. ASSUME NEW a \in Accounts, BeginLink(h, a) PROVE Carried(h)'
    <3>1. req'[h].pc = "linking"
      BY <2>6 DEF BeginLink, Take, Goto, TypesInv
    <3> QED
      BY <3>1 DEF Carried
  <2> QED
    BY <2>1, <2>2, <2>3, <2>4, <2>5, <2>6
<1> QED
  BY <1>3, <1>4, <1>5 DEF ReaderInv

(* The steps that save a row, and those of a conversion.                   *)
LEMMA SaveReaders ==
    ASSUME TypesInv, CycleInv, ReaderInv, NEW h \in Handlers,
           \/ SaveQuote(h) \/ SaveMove(h) \/ Remove(h) \/ RecordOrder(h)
           \/ Claim(h) \/ ClaimRefused(h) \/ CreateOrder(h)
    PROVE  ReaderInv'
<1>0. req[h] \in QuoteRequest /\ NoReq.pc = "idle"
  BY DEF TypesInv, NoReq
<1>1. PICK q \in Quotes : q = req[h].quote
  BY <1>0, QuoteRequestIs
     DEF SaveQuote, SaveMove, Remove, RecordOrder, Claim, ClaimRefused, CreateOrder
<1>2. UNCHANGED <<profile, missed>> /\ \A g \in Handlers \ {h} : req'[g] = req[g]
  BY DEF SaveQuote, SaveMove, Remove, RecordOrder, Claim, ClaimRefused, CreateOrder, clients,
         ghosts, Goto, TypesInv
<1>3. req[h].pc \notin {"idle", "sweeping"} /\ req'[h].pc \in {"idle", "ordering", "recording"}
  <2>1. CASE Claim(h)
    <3>1. req[h] \in [pc : {"claiming", "ordering"}, quote : Quotes, row : Row, lines : Lines]
      BY <1>0, <2>1, QuoteRequestIs DEF Claim
    <3>2. [req[h] EXCEPT !.pc = "ordering"].pc = "ordering"
      BY <3>1
    <3> QED
      BY <2>1, <3>2 DEF Claim, Goto, TypesInv
  <2>2. CASE ~Claim(h)
    BY <1>0, <2>2 DEF SaveQuote, SaveMove, Remove, RecordOrder, ClaimRefused, CreateOrder, Goto, TypesInv
  <2> QED
    BY <2>1, <2>2
<1>4. \A g \in Handlers : req'[g].pc \notin Writing
  BY <1>2, <1>3 DEF CycleInv, Alone, Writing
<1>5. \A g \in Handlers : Carried(g)'
  BY <1>2, <1>3, <1>4 DEF Carried, Writing, ReaderInv
<1>6. /\ \A p \in Quotes \ {q} : quotes'[p] = quotes[p]
      /\ Exists(q)' /\ quotes'[q].profiled =>
             \/ Exists(q) /\ quotes[q].profiled /\ quotes'[q].reader = quotes[q].reader
             \/ quotes'[q].reader = profile
  <2>1. CASE SaveQuote(h)
    <3>1. quotes' = [quotes EXCEPT ![q] = req[h].row] /\ quotes'[q] = req[h].row
      BY <1>1, <2>1 DEF SaveQuote, SaveRow, TypesInv
    <3>2. req[h].pc = "creating" => (req[h].row.profiled => req[h].row.reader = profile)
      BY DEF ReaderInv, Carried
    <3>3. req[h].pc = "editing" =>
             /\ Exists(q) /\ req[h].row.profiled = quotes[q].profiled
             /\ req[h].row.reader = quotes[q].reader
      BY <1>1 DEF ReaderInv, Carried, CycleInv, Working, Exists, Life!Statuses
    <3> QED
      BY <2>1, <3>1, <3>2, <3>3 DEF SaveQuote, TypesInv
  <2>2. CASE SaveMove(h)
    <3>1. req[h].row \in Row
      BY <1>0, <2>2, QuoteRequestIs DEF SaveMove
    <3>2. /\ Moved(req[h].row, req[h].to).profiled = req[h].row.profiled
          /\ Moved(req[h].row, req[h].to).reader = req[h].row.reader
      BY <3>1 DEF Moved, Row
    <3>3. /\ req[h].row.profiled = quotes[q].profiled /\ req[h].row.reader = quotes[q].reader
          /\ Exists(q)
      BY <1>1, <2>2, FromTo DEF SaveMove, ReaderInv, Carried, CycleInv, Working, Exists
    <3> QED
      BY <1>1, <2>2, <3>2, <3>3 DEF SaveMove, SaveRow, TypesInv
  <2>3. CASE Remove(h)
    <3>1. [quotes[q] EXCEPT !.status = "gone"].status = "gone"
      BY DEF TypesInv, Row
    <3> QED
      BY <1>1, <2>3, <3>1 DEF Remove, SaveRow, TypesInv, Exists, Life!Statuses
  <2>4. CASE RecordOrder(h)
    <3>1. PICK row : row = [quotes[q] EXCEPT !.order = req[h].order]
      OBVIOUS
    <3>2. row.status = quotes[q].status /\ row.profiled = quotes[q].profiled
          /\ row.reader = quotes[q].reader
      BY <3>1 DEF TypesInv, Row
    <3> QED
      BY <1>1, <2>4, <3>1, <3>2 DEF RecordOrder, SaveRow, TypesInv, Exists
  <2>5. CASE Claim(h)
    <3>1. PICK row : row = [quotes[q] EXCEPT !.status = Life!To["convert"]]
      OBVIOUS
    <3>2. row.profiled = quotes[q].profiled /\ row.reader = quotes[q].reader
      BY <3>1 DEF TypesInv, Row
    <3>3. Exists(q)
      BY <1>1, <2>5, FromTo DEF Claim, Exists
    <3> QED
      BY <1>1, <2>5, <3>1, <3>2, <3>3 DEF Claim, SaveRow, TypesInv
  <2>6. CASE ClaimRefused(h) \/ CreateOrder(h)
    BY <2>6 DEF ClaimRefused, CreateOrder, Exists
  <2> QED
    BY <2>1, <2>2, <2>3, <2>4, <2>5, <2>6
<1>7. \A p \in Quotes : Exists(p)' /\ quotes'[p].profiled =>
          \/ Exists(p) /\ quotes[p].profiled /\ quotes'[p].reader = quotes[p].reader
          \/ quotes'[p].reader = profile
  BY <1>6 DEF Exists
<1>8. ReaderFound' /\ \A p \in Quotes : Awaiting(p)'
  BY <1>2, <1>3, <1>7, ReadersStay
<1> QED
  BY <1>5, <1>8 DEF ReaderInv

(* The steps of the customer's profile, the clock and failures.            *)
LEMMA OtherReaders ==
    ASSUME TypesInv, CycleInv, ReaderInv,
           \/ \E h \in Handlers : Link(h) \/ Sweep(h) \/ SaveProfile(h) \/ Fail(h)
           \/ \E a \in Accounts : EnsureSelf(a)
           \/ Tick
    PROVE  ReaderInv'
<1>1. ASSUME NEW h \in Handlers, Link(h) PROVE ReaderInv'
  <2>1. req[h] \in [pc : {"linking", "sweeping"}, account : Accounts] /\ NoReq.pc = "idle"
    BY <1>1, QuoteRequestIs DEF Link, TypesInv, NoReq
  <2>2. PICK r : r = [req[h] EXCEPT !.pc = "sweeping"]
    OBVIOUS
  <2>3. r.pc = "sweeping" /\ r.account = req[h].account /\ req[h].account # None
    BY <2>1, <2>2, QuotesAssumption
  <2>4. UNCHANGED <<quotes, missed>> /\ \A g \in Handlers \ {h} : req'[g] = req[g]
    BY <1>1 DEF Link, Goto, TypesInv, ghosts
  <2>5. \A g \in Handlers : req[g].pc \notin Writing
    BY <1>1 DEF Link, CycleInv, Alone, Writing
  <2>6. CASE profile = None /\ profile' = req[h].account /\ req'[h] = r
    <3>1. \A g \in Handlers : Carried(g)'
      BY <2>3, <2>4, <2>5, <2>6 DEF ReaderInv, Carried, Writing
    <3>2. \A q \in Quotes : Awaiting(q)'
      BY <2>4, <2>6 DEF ReaderInv, Awaiting, Exists
    <3>3. ReaderFound'
      BY <2>3, <2>6 DEF ReaderFound
    <3> QED
      BY <3>1, <3>2, <3>3 DEF ReaderInv
  <2>7. CASE UNCHANGED profile /\ req'[h].pc = "idle"
    <3>1. \A g \in Handlers : Carried(g)'
      BY <2>4, <2>7 DEF ReaderInv, Carried
    <3>2. \A g \in Handlers : req[g].pc = "sweeping" => req'[g].pc = "sweeping"
      BY <1>1, <2>4 DEF Link
    <3>3. ReaderFound' /\ \A q \in Quotes : Awaiting(q)'
      BY <2>4, <2>7, <3>2, ReadersStay DEF Exists
    <3> QED
      BY <3>1, <3>3 DEF ReaderInv
  <2> QED
    BY <1>1, <2>1, <2>2, <2>6, <2>7 DEF Link, Goto, TypesInv
<1>2. ASSUME NEW h \in Handlers, Sweep(h) PROVE ReaderInv'
  <2>1. /\ req'[h].pc = "idle" /\ \A g \in Handlers \ {h} : req'[g] = req[g]
        /\ UNCHANGED profile /\ req[h].account = profile /\ profile # None
    BY <1>2 DEF Sweep, Goto, TypesInv, clients, NoReq, ReaderInv, Carried
  <2>2. \A g \in Handlers : req[g].pc \notin Writing
    BY <1>2 DEF Sweep, CycleInv, Alone, Writing
  <2>3. \A g \in Handlers : Carried(g)'
    BY <2>1, <2>2 DEF ReaderInv, Carried, Writing
  <2>4. CASE missed' = TRUE /\ UNCHANGED quotes
    <3>1. ReaderFound'
      BY <2>4 DEF ReaderFound
    <3>2. \A q \in Quotes : Awaiting(q)'
      BY <2>1, <2>4 DEF ReaderInv, Awaiting, Exists
    <3> QED
      BY <2>3, <3>1, <3>2 DEF ReaderInv
  <2>5. CASE quotes' = [q \in Quotes |->
                           IF quotes[q].profiled /\ quotes[q].reader = None /\ Exists(q)
                           THEN [quotes[q] EXCEPT !.reader = req[h].account]
                           ELSE quotes[q]]
    <3>1. ASSUME NEW q \in Quotes, Exists(q)', quotes'[q].profiled
          PROVE  quotes'[q].reader = profile
      <4>1. PICK row : row = [quotes[q] EXCEPT !.reader = req[h].account]
        OBVIOUS
      <4>2. row.reader = profile
        BY <2>1, <4>1 DEF TypesInv, Row
      <4>3. CASE quotes[q].profiled /\ quotes[q].reader = None /\ Exists(q)
        BY <2>5, <4>1, <4>2, <4>3
      <4>4. CASE ~(quotes[q].profiled /\ quotes[q].reader = None /\ Exists(q))
        <5>1. quotes'[q] = quotes[q]
          BY <2>5, <4>4
        <5> QED
          BY <3>1, <4>4, <5>1 DEF ReaderInv, Awaiting, Exists
      <4> QED
        BY <4>3, <4>4
    <3>2. ReaderFound' /\ \A q \in Quotes : Awaiting(q)'
      BY <2>1, <3>1 DEF ReaderFound, Awaiting
    <3> QED
      BY <2>3, <3>2 DEF ReaderInv
  <2> QED
    BY <1>2, <2>4, <2>5 DEF Sweep
<1>3. ASSUME NEW h \in Handlers, SaveProfile(h) PROVE ReaderInv'
  <2>1. /\ req'[h].pc = "idle" /\ \A g \in Handlers \ {h} : req'[g] = req[g]
        /\ UNCHANGED <<profile, quotes, missed>>
    BY <1>3 DEF SaveProfile, Goto, TypesInv, NoReq, ReaderInv, Carried, ghosts
  <2>2. \A g \in Handlers : Carried(g)'
    BY <2>1 DEF ReaderInv, Carried
  <2>3. ReaderFound' /\ \A q \in Quotes : Awaiting(q)'
    <3>1. \A g \in Handlers : req[g].pc = "sweeping" => req'[g].pc = "sweeping"
      BY <1>3, <2>1 DEF SaveProfile
    <3> QED
      BY <2>1, <3>1, ReadersStay DEF Exists
  <2> QED
    BY <2>2, <2>3 DEF ReaderInv
<1>4. ASSUME NEW h \in Handlers, Fail(h) PROVE ReaderInv'
  <2>1. /\ req'[h].pc = "idle" /\ \A g \in Handlers \ {h} : req'[g] = req[g]
        /\ UNCHANGED <<profile, quotes>>
    BY <1>4 DEF Fail, Goto, TypesInv, NoReq, clients
  <2>2. \A g \in Handlers : Carried(g)'
    BY <2>1 DEF ReaderInv, Carried
  <2>3. CASE req[h].pc = "sweeping"
    <3>1. missed'
      BY <1>4, <2>3 DEF Fail
    <3>2. ReaderFound' /\ \A q \in Quotes : Awaiting(q)'
      BY <2>1, <3>1 DEF ReaderFound, ReaderInv, Awaiting, Exists
    <3> QED
      BY <2>2, <3>2 DEF ReaderInv
  <2>4. CASE req[h].pc # "sweeping"
    <3>1. missed' = missed
      BY <1>4, <2>4 DEF Fail, TypesInv
    <3>2. \A g \in Handlers : req[g].pc = "sweeping" => req'[g].pc = "sweeping"
      BY <2>1, <2>4
    <3>3. ReaderFound' /\ \A q \in Quotes : Awaiting(q)'
      BY <2>1, <3>1, <3>2, ReadersStay DEF Exists
    <3> QED
      BY <2>2, <3>3 DEF ReaderInv
  <2> QED
    BY <2>3, <2>4
<1>5. CASE (\E a \in Accounts : EnsureSelf(a)) \/ Tick
  <2>1. UNCHANGED <<quotes, profile, req, missed>>
    BY <1>5 DEF EnsureSelf, Tick, ghosts
  <2> QED
    BY <2>1 DEF ReaderInv, ReaderFound, Carried, Awaiting, Exists
<1> QED
  BY <1>1, <1>2, <1>3, <1>4, <1>5

(* Once a profile is linked and the sweep has run, every quote written for *)
(* the customer has the linked account as its reader, while requests that  *)
(* save a whole row do not overlap others.                                 *)
THEOREM QuotesFindReader ==
    ASSUME Overlap = FALSE
    PROVE  QuoteSpec => []ReaderFound
<1>1. QuoteInit => CycleInv /\ ReaderInv
  <2> SUFFICES ASSUME QuoteInit PROVE ReaderInv
    BY CycleInitially
  <2>1. \A h \in Handlers : req[h].pc = "idle"
    BY DEF QuoteInit, NoReq
  <2>2. \A q \in Quotes : ~Exists(q)
    BY DEF QuoteInit, Exists, Life!Statuses
  <2> QED
    BY <2>1, <2>2 DEF QuoteInit, ReaderInv, ReaderFound, Carried, Awaiting
<1>2. TypesInv /\ CycleInv /\ ReaderInv /\ [QuoteNext]_quoteVars => CycleInv' /\ ReaderInv'
  <2> SUFFICES ASSUME TypesInv, CycleInv, ReaderInv, [QuoteNext]_quoteVars
               PROVE  CycleInv' /\ ReaderInv'
    OBVIOUS
  <2>1. CycleInv'
    BY CycleStep
  <2>2. CASE QuoteNext
    BY <2>1, <2>2, EveryStep, BeginReaders, SaveReaders, OtherReaders
  <2>3. CASE UNCHANGED quoteVars
    BY <2>1, <2>3 DEF quoteVars, ReaderInv, ReaderFound, Carried, Awaiting, Exists
  <2> QED
    BY <2>2, <2>3
<1>3. ReaderInv => ReaderFound
  BY DEF ReaderInv
<1> QED
  BY <1>1, <1>2, <1>3, TypesAlways, PTL DEF QuoteSpec

================================================================================
