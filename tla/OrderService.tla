------------------------------ MODULE OrderService -----------------------------
(***************************************************************************)
(* OrderService: orders are created, confirmed, prepared, cancelled and    *)
(* patched by requests that run side by side.  A request loads the order   *)
(* once, works through its lines with one inventory call per line - each   *)
(* a transaction of its own - and then saves what it decided from the      *)
(* order it loaded.  Nothing locks the order in between, and nothing       *)
(* undoes the lines already reserved when a later one is refused.          *)
(*                                                                         *)
(* A save is a transaction: it begins, and its event is dated with that    *)
(* moment; it compares the order with the row in the database; it writes   *)
(* what differs, its event, and commits.                                   *)
(*                                                                         *)
(* The inventory calls are the atomic operations of Inventory, which       *)
(* InventoryTx shows the repository to implement.                          *)
(***************************************************************************)
EXTENDS Inventory, Sequences, Functions

CONSTANTS
    Orders,          \* order ids
    Handlers,        \* requests that may be in progress at the same time
    Lines,           \* per order, the lines: the inventory row and ceil(qty)
    Branchless,      \* orders without a providerBranchId
    Opening,         \* the inventory as it is when the model starts
    CreateStatuses,  \* statuses staff put into a create request
    PatchStatuses,   \* statuses of PATCH bodies; Same is a body without one
    StaffCommands,   \* commands the inventory endpoints are called with
    MayFail,         \* whether a request may fail, or the process die, midway
    MaxRequests      \* bound of the model: requests in a behaviour

None == "none"   \* no row: the order does not exist (yet)
Same == "same"

Status == {"draft", "confirmed", "preparing", "cancelled"}
              \cup CreateStatuses \cup (PatchStatuses \ {Same})

ASSUME OrderAssumption ==
    /\ Lines \in [Orders -> Seq([row : RowIds, qty : Nat \ {0}])]
    /\ Branchless \subseteq Orders
    /\ IsFiniteSet(Orders) /\ IsFiniteSet(Handlers)
    /\ Opening \in [RowIds -> Row \cup {NoRow}]
    /\ None \notin Status /\ Same \notin Status
    /\ StaffCommands \subseteq Commands
    /\ MayFail \in BOOLEAN
    /\ MaxRequests \in Nat

VARIABLES
    status,    \* orders.status, None where there is no row
    trail,     \* orders.order_status_events of each order, as committed
    announced, \* how often each order.* event was emitted, per order
    req,       \* what each handler is doing, with the order as it loaded it
    taken,     \* ghost: units each order ever reserved, per row
    given,     \* ghost: units each order ever released, per row
    started,   \* requests begun so far
    save,      \* the transaction each handler has open to save its transition
    clock,     \* the database's time, at which the last of them began
    mixed      \* ghost: orders two of them were open on at the same time

saving == <<save, clock, mixed>>

orderVars == <<rows, held, status, trail, announced, req, taken, given, started, saving>>

Keys == {"placed", "confirmed", "preparing", "cancelled"}

NoReq == [pc |-> "idle"]

(* at: occurred_at.                                                        *)
Event == [from : Status \cup {None}, to : Status, at : Nat]

NoSave == [pc |-> "none"]

(* writes: the row differs from the order in its status.                   *)
Save == {NoSave} \cup [pc : {"begun"}, at : Nat] \cup [pc : {"compared"}, at : Nat, writes : BOOLEAN]

Request ==
    {NoReq}
        \cup [pc : {"reserving", "releasing", "saving", "announcing"},
              op : {"create", "confirm", "prepare", "cancel"}, order : Orders,
              seen : Status \cup {None}, to : Status, line : Nat \ {0}]
        \cup [pc : {"patching"}, order : Orders, seen : Status,
              to : Status \cup {Same}]

OrderInit ==
    /\ rows = Opening
    /\ held = [r \in RowIds |-> IF Opening[r] = NoRow THEN 0 ELSE Opening[r].reserved]
    /\ status = [o \in Orders |-> None]
    /\ trail = [o \in Orders |-> <<>>]
    /\ announced = [o \in Orders |-> [k \in Keys |-> 0]]
    /\ req = [h \in Handlers |-> NoReq]
    /\ taken = [o \in Orders |-> [r \in RowIds |-> 0]]
    /\ given = taken
    /\ started = 0
    /\ save = [h \in Handlers |-> NoSave]
    /\ clock = 0
    /\ mixed = {}

-------------------------------------------------------------------------------
(* Requests come in and load their order. *)

Begin(h, request) ==
    /\ req[h] = NoReq
    /\ started < MaxRequests
    /\ started' = started + 1
    /\ req' = [req EXCEPT ![h] = request]
    /\ UNCHANGED <<rows, held, status, trail, announced, taken, given, saving>>

Transition(op, pc, o, to) ==
    [pc |-> pc, op |-> op, order |-> o, seen |-> status[o], to |-> to, line |-> 1]

Creating(o) == \E h \in Handlers : req[h] # NoReq /\ req[h].order = o

(* create / createInternal: bindCreate leaves staff the status of the      *)
(* body and makes a shopper's order, and a converted quote's, a draft.     *)
(* The row, its lines and its first event stay uncommitted meanwhile.      *)
BeginCreate(h, o, to) ==
    /\ status[o] = None /\ ~Creating(o)
    /\ \A r \in RowIds : taken[o][r] = 0     \* the id of a failed create is not used again
    /\ to = "confirmed" => o \notin Branchless
    /\ Begin(h, Transition("create", IF to = "confirmed" THEN "reserving" ELSE "saving", o, to))

\* mutant: an order already being packed is confirmed without a reservation
BeginConfirmUnreserved(h, o) ==
    /\ status[o] \notin {None, "confirmed", "cancelled"}
    /\ o \notin Branchless
    /\ Begin(h, Transition("confirm", "saving", o, "confirmed"))

BeginConfirm(h, o) ==
    /\ status[o] \notin {None, "confirmed", "cancelled"}
    /\ o \notin Branchless
    /\ Begin(h, Transition("confirm", "reserving", o, "confirmed"))

BeginPrepare(h, o) ==
    /\ status[o] = "confirmed"
    /\ Begin(h, Transition("prepare", "saving", o, "preparing"))

BeginCancel(h, o) ==
    /\ status[o] \notin {None, "cancelled"}
    /\ LET holds == status[o] \in {"confirmed", "preparing"} /\ o \notin Branchless
       IN  Begin(h, Transition("cancel", IF holds THEN "releasing" ELSE "saving", o, "cancelled"))

(* PATCH.  A body without a status still ends in a save of the whole row   *)
(* as it was loaded, and so do the saves of the payments and shipping      *)
(* modules, which load an order, change other columns and save it.         *)
BeginPatch(h, o, to) ==
    /\ status[o] # None
    /\ Begin(h, [pc |-> "patching", order |-> o, seen |-> status[o], to |-> to])

-------------------------------------------------------------------------------
(* reserveForOrder and releaseForOrder, line by line. *)

Line(q) == Lines[q.order][q.line]

AtLine(h, pc) == req[h].pc = pc /\ req[h].line <= Len(Lines[req[h].order])

LineCommand(h, kind) == [kind |-> kind, qty |-> Line(req[h]).qty]

NextLine(h) == req' = [req EXCEPT ![h].line = @ + 1]

Tally(ghost, h) == [ghost EXCEPT ![req[h].order][Line(req[h]).row] = @ + Line(req[h]).qty]

(* A create as `confirmed` reserves before it commits, and the lines it    *)
(* has inserted hold their products FOR KEY SHARE (InventoryTx): no        *)
(* mutate() of such a product is answered, its own neither, which already  *)
(* has the lock of its row.                                                *)
Unanswered(h) == req[h].pc = "reserving" /\ req[h].op = "create"

ProductHeld(p) ==
    \E h \in Handlers :
        Unanswered(h) /\ \E i \in DOMAIN Lines[req[h].order] : Lines[req[h].order][i].row[1] = p

RowHeld(r) ==
    /\ rows[r] # NoRow
    /\ \E h \in Handlers : Unanswered(h) /\ AtLine(h, "reserving") /\ Line(req[h]).row = r

\* mutant: a missing row is skipped, as releaseForOrder does
ReserveLineOrSkip(h) ==
    /\ AtLine(h, "reserving")
    /\ \/ /\ ~ProductHeld(Line(req[h]).row[1])
          /\ Mutate(Line(req[h]).row, LineCommand(h, "reserve"))
          /\ taken' = Tally(taken, h)
       \/ /\ rows[Line(req[h]).row] = NoRow
          /\ UNCHANGED <<rows, held, taken>>
    /\ NextLine(h)
    /\ UNCHANGED <<status, trail, announced, given, started, saving>>

ReserveLine(h) ==
    /\ AtLine(h, "reserving") /\ ~ProductHeld(Line(req[h]).row[1])
    /\ Mutate(Line(req[h]).row, LineCommand(h, "reserve"))
    /\ taken' = Tally(taken, h)
    /\ NextLine(h)
    /\ UNCHANGED <<status, trail, announced, given, started, saving>>

ReleaseLine(h) ==
    /\ AtLine(h, "releasing") /\ ~ProductHeld(Line(req[h]).row[1])
    /\ Mutate(Line(req[h]).row, LineCommand(h, "release"))
    /\ given' = Tally(given, h)
    /\ NextLine(h)
    /\ UNCHANGED <<status, trail, announced, taken, started, saving>>

SkipLine(h) ==
    /\ AtLine(h, "releasing")
    /\ rows[Line(req[h]).row] = NoRow
    /\ NextLine(h)
    /\ UNCHANGED <<rows, held, status, trail, announced, taken, given, started, saving>>

End(h) ==
    /\ req' = [req EXCEPT ![h] = NoReq]
    /\ save' = [save EXCEPT ![h] = NoSave]
    /\ UNCHANGED <<rows, held, status, trail, announced, taken, given, started, clock, mixed>>

(* The line is refused and the request answers an error.  What earlier     *)
(* lines did is committed and stays; a create loses its order.             *)
RefuseLine(h) ==
    /\ LET row == rows[Line(req[h]).row]
           Refuses(kind) == /\ row # NoRow /\ ~Accepts(row, LineCommand(h, kind))
                            /\ ~ProductHeld(Line(req[h]).row[1])
       IN  \/ AtLine(h, "reserving") /\ (row = NoRow \/ Refuses("reserve"))
           \/ AtLine(h, "releasing") /\ Refuses("release")
    /\ End(h)

(* A call to the database fails, or the process dies and with it every     *)
(* request (each of them then fails here).  An open transaction is undone; *)
(* an event not yet emitted is never emitted.                              *)
Fail(h) ==
    /\ MayFail
    /\ req[h] # NoReq
    /\ End(h)

-------------------------------------------------------------------------------
(* Requests save what they decided. *)

Decided(h) ==
    /\ req[h].pc \in {"reserving", "releasing", "saving"}
    /\ req[h].pc # "saving" => req[h].line > Len(Lines[req[h].order])

(* BEGIN.  The rows of an order are its own until it is created, so that a *)
(* create, whose transaction began before it reserved, may as well be      *)
(* dated here.                                                             *)
OpenSave(h) ==
    /\ Decided(h) /\ save[h] = NoSave
    /\ clock' = clock + 1
    /\ save' = [save EXCEPT ![h] = [pc |-> "begun", at |-> clock + 1]]
    /\ mixed' = IF \E g \in Handlers : save[g] # NoSave /\ req[g].order = req[h].order
                THEN mixed \cup {req[h].order} ELSE mixed
    /\ UNCHANGED <<rows, held, status, trail, announced, req, taken, given, started>>

(* save(order) reads the row, without a lock, and looks for what differs.  *)
CompareStatus(h) ==
    /\ Decided(h) /\ save[h].pc = "begun"
    /\ save' = [save EXCEPT ![h] = [pc |-> "compared", at |-> @.at,
                                   writes |-> status[req[h].order] # req[h].to]]
    /\ UNCHANGED <<rows, held, status, trail, announced, req, taken, given, started, clock, mixed>>

EndSave(h) ==
    /\ req' = [req EXCEPT ![h].pc = "announcing"]
    /\ save' = [save EXCEPT ![h] = NoSave]
    /\ UNCHANGED <<rows, held, announced, taken, given, started, clock, mixed>>

\* mutant: fromStatus is read after order.status has been assigned
SaveTransitionSwapped(h) ==
    /\ Decided(h) /\ save[h].pc = "compared"
    /\ LET q == req[h]
       IN  /\ status' = [status EXCEPT ![q.order] = IF save[h].writes THEN q.to ELSE @]
           /\ trail' = [trail EXCEPT ![q.order] =
                           Append(@, [from |-> q.to, to |-> q.to, at |-> save[h].at])]
    /\ EndSave(h)

\* mutant: only the status is saved, its event is left for later
SaveTransitionUnrecorded(h) ==
    /\ Decided(h) /\ save[h].pc = "compared"
    /\ status' = [status EXCEPT ![req[h].order] = IF save[h].writes THEN req[h].to ELSE @]
    /\ UNCHANGED trail
    /\ EndSave(h)

(* transitionTo, and the commit of persist: the status, where it differed, *)
(* and its event in one transaction, the event's from being the status as  *)
(* it was loaded.  The UPDATE locks the order up to the COMMIT.            *)
SaveTransition(h) ==
    /\ Decided(h) /\ save[h].pc = "compared"
    /\ LET q == req[h]
       IN  /\ status' = [status EXCEPT ![q.order] = IF save[h].writes THEN q.to ELSE @]
           /\ trail' = [trail EXCEPT ![q.order] =
                           Append(@, [from |-> q.seen, to |-> q.to, at |-> save[h].at])]
    /\ EndSave(h)

Announcing(q) ==
    IF q.op = "create"
    THEN {"placed"} \cup (IF q.to = "confirmed" THEN {"confirmed"} ELSE {})
    ELSE {q.to}

Emit(q) ==
    announced' = [announced EXCEPT ![q.order] =
                     [k \in Keys |-> IF k \in Announcing(q) THEN @[k] + 1 ELSE @[k]]]

\* mutant: the events are emitted inside the transaction
AnnounceEarly(h) ==
    /\ req[h] # NoReq
    /\ Decided(h) \/ req[h].pc = "announcing"
    /\ Emit(req[h])
    /\ req' = [req EXCEPT ![h] = IF @.pc = "announcing" THEN NoReq ELSE @]
    /\ UNCHANGED <<rows, held, status, trail, taken, given, started, saving>>

(* emit(), after the commit.                                               *)
Announce(h) ==
    /\ req[h].pc = "announcing"
    /\ Emit(req[h])
    /\ req' = [req EXCEPT ![h] = NoReq]
    /\ UNCHANGED <<rows, held, status, trail, taken, given, started, saving>>

(* Without an event the comparison needs no step of its own: a save that   *)
(* found no difference is this one at the time it looked.                  *)
SavePatch(h) ==
    /\ req[h].pc = "patching"
    /\ status' = [status EXCEPT ![req[h].order] =
                     IF req[h].to = Same THEN req[h].seen ELSE req[h].to]
    /\ req' = [req EXCEPT ![h] = NoReq]
    /\ UNCHANGED <<rows, held, trail, announced, taken, given, started, saving>>

-------------------------------------------------------------------------------
(* What else changes the inventory meanwhile. *)

orderOnly == <<status, trail, announced, req, taken, given, started, saving>>

StaffMutate(r, cmd) ==
    ~ProductHeld(r[1]) /\ Mutate(r, cmd) /\ UNCHANGED orderOnly

SyncUpsert(feed) ==
    (\A r \in DOMAIN feed : ~RowHeld(r)) /\ BulkUpsert(feed) /\ UNCHANGED orderOnly

SyncDelist(delisted) ==
    (\A r \in delisted : ~RowHeld(r)) /\ ZeroOut(delisted) /\ UNCHANGED orderOnly

HandlerStep(h) ==
    \/ ReserveLine(h) \/ ReleaseLine(h) \/ SkipLine(h) \/ RefuseLine(h) \/ Fail(h)
    \/ OpenSave(h) \/ CompareStatus(h) \/ SaveTransition(h) \/ Announce(h) \/ SavePatch(h)

OrderNext ==
    \/ \E h \in Handlers, o \in Orders :
          \/ \E to \in CreateStatuses : BeginCreate(h, o, to)
          \/ BeginConfirm(h, o) \/ BeginPrepare(h, o) \/ BeginCancel(h, o)
          \/ \E to \in PatchStatuses : BeginPatch(h, o, to)
    \/ \E h \in Handlers : HandlerStep(h)
    \/ \E r \in RowIds, cmd \in StaffCommands : StaffMutate(r, cmd)
    \/ \E feed \in Feeds : SyncUpsert(feed)
    \/ \E delisted \in SUBSET RowIds : SyncDelist(delisted)

OrderSpec == OrderInit /\ [][OrderNext]_orderVars

-------------------------------------------------------------------------------

OrderTypeOK ==
    /\ TypeOK
    /\ status \in [Orders -> Status \cup {None}]
    /\ trail \in [Orders -> Seq(Event)]
    /\ announced \in [Orders -> [Keys -> Nat]]
    /\ req \in [Handlers -> Request]
    /\ taken \in [Orders -> [RowIds -> Nat]]
    /\ given \in [Orders -> [RowIds -> Nat]]
    /\ started \in Nat
    /\ save \in [Handlers -> Save]
    /\ clock \in Nat
    /\ mixed \in SUBSET Orders

Times(o, s) == Cardinality({i \in DOMAIN trail[o] : trail[o][i].to = s})

(* Nobody is told of a transition that was not committed: "a listener must *)
(* never observe an order that a rollback is about to erase".              *)
AnnouncedIsCommitted ==
    \A o \in Orders :
        /\ announced[o]["placed"] <= Cardinality({i \in DOMAIN trail[o] : trail[o][i].from = None})
        /\ \A k \in Keys \ {"placed"} : announced[o][k] <= Times(o, k)

(* listStatusEvents orders by occurred_at.                                 *)
ServedLast(o, i) == \A j \in DOMAIN trail[o] : trail[o][j].at <= trail[o][i].at

(* The trail tells of the status an order is in, whichever requests        *)
(* overlapped or failed; and it ends there as it is served, unless two     *)
(* transitions were being saved at once: then the one that began first may *)
(* commit last.                                                            *)
TrailEndsAtStatus ==
    \A o \in Orders :
        IF status[o] = None THEN trail[o] = <<>>
        ELSE \E i \in DOMAIN trail[o] :
                 trail[o][i].to = status[o] /\ (o \notin mixed => ServedLast(o, i))

(* When requests do not overlap the trail is a chain as well: every event  *)
(* starts where the one before it ended, and is served after it.           *)
TrailIsChain ==
    \A o \in Orders : \A i \in DOMAIN trail[o] :
        IF i = 1 THEN trail[o][i].from = None
        ELSE /\ trail[o][i].from = trail[o][i - 1].to
             /\ trail[o][i].at > trail[o][i - 1].at

Need(o, r) ==
    SumFunctionOnSet([i \in DOMAIN Lines[o] |-> Lines[o][i].qty],
                     {i \in DOMAIN Lines[o] : Lines[o][i].row = r})

(* Every confirmation on the trail reserved the whole order first, on its  *)
(* own account: not what another request, or an earlier confirmation, took.*)
ConfirmedAfterReserving ==
    \A o \in Orders, r \in RowIds :
        o \notin Branchless => taken[o][r] >= Times(o, "confirmed") * Need(o, r)

Owned(o, r) == taken[o][r] - given[o][r]

Busy(o) == \E h \in Handlers : req[h] # NoReq /\ req[h].order = o

Promised == {o \in Orders : status[o] \in {"confirmed", "preparing"}}

(* A confirmed or preparing order that nobody is working on still holds    *)
(* every unit it needs: no cancel stops halfway through its lines, and no  *)
(* feed run or adjustment takes the units away.                            *)
Backed ==
    \A o \in Promised, r \in RowIds : ~Busy(o) => Owned(o, r) >= Need(o, r)

(* The stock on the shelf covers what was promised, also after the feed    *)
(* reports less than that.                                                 *)
NoOversell ==
    \A r \in RowIds :
        SumFunctionOnSet([o \in Orders |-> Need(o, r)], {o \in Promised : ~Busy(o)})
            <= IF rows[r] = NoRow THEN 0 ELSE rows[r].stock


(* "cannot confirm a cancelled order".                                     *)
CancelledIsFinal ==
    [][\A o \in Orders : status[o] = "cancelled" => status'[o] = "cancelled"]_orderVars
===============================================================================
