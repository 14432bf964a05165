------------------------------- MODULE Inventory ------------------------------
(***************************************************************************)
(* What the inventory component promises its callers: the orders module,   *)
(* the staff endpoints and the supplier feed each see their operation      *)
(* happen at once, on the row as it is.  InventoryTx shows that the row    *)
(* locks and transactions of the repository deliver this.                  *)
(***************************************************************************)
EXTENDS InventoryRow, FiniteSets

CONSTANTS
    Products,      \* products known to pim.product
    Branches,      \* provider branches
    Quantities,    \* quantities passed to reserve and release
    Deltas,        \* deltas passed to adjust
    Levels,        \* stock levels a supplier feed may report
    CreateInputs,  \* the stock / reservedStock pairs a create request carries
    MaxStock       \* bound of the model on the stock of a row

ASSUME InventoryAssumption ==
    /\ Quantities \subseteq Int
    /\ Deltas \subseteq Int
    /\ Levels \subseteq Nat
    /\ CreateInputs \subseteq Row
    /\ MaxStock \in Nat

RowIds == Products \X Branches

Commands == Command(Quantities, Deltas)

Feeds == UNION {[S -> Levels] : S \in (SUBSET RowIds) \ {{}}}

VARIABLES
    rows,   \* inventory.inventory, keyed by its UNIQUE (product_id, branch)
    held    \* ghost: units the callers were told they hold in reserve

vars == <<rows, held>>

Init ==
    /\ rows = [r \in RowIds |-> NoRow]
    /\ held = [r \in RowIds |-> 0]

(* POST /inventory: CreateInventoryDto bounds stock and reservedStock      *)
(* below by 0 each and never against each other.                           *)
Create(r, row) ==
    /\ rows[r] = NoRow
    /\ rows' = [rows EXCEPT ![r] = row]
    /\ held' = [held EXCEPT ![r] = row.reserved]

(* Reserve, release and adjust through the aggregate.                      *)
Mutate(r, cmd) ==
    /\ rows[r] # NoRow
    /\ Accepts(rows[r], cmd)
    /\ Apply(rows[r], cmd).stock <= MaxStock
    /\ rows' = [rows EXCEPT ![r] = Apply(@, cmd)]
    /\ held' = [held EXCEPT ![r] = @ + HeldChange(cmd)]

(* bulkUpsertStock: every row of the feed is written, or none is.          *)
BulkUpsert(feed) ==
    /\ rows' = [r \in RowIds |->
                   IF r \in DOMAIN feed THEN FeedWrite(rows[r], feed[r]) ELSE rows[r]]
    /\ UNCHANGED held

(* zeroOutMissing: rows the supplier no longer lists lose what is not      *)
(* reserved.  Under READ COMMITTED a row that comes to qualify while the   *)
(* statement runs may be missed, so the promise is about the rows it takes.*)
ZeroOut(delisted) ==
    /\ \A r \in delisted : Delistable(rows[r])
    /\ rows' = [r \in RowIds |->
                   IF r \in delisted THEN Delisted(rows[r]) ELSE rows[r]]
    /\ UNCHANGED held

Next ==
    \/ \E r \in RowIds, row \in CreateInputs : Create(r, row)
    \/ \E r \in RowIds, cmd \in Commands : Mutate(r, cmd)
    \/ \E feed \in Feeds : BulkUpsert(feed)
    \/ \E delisted \in SUBSET RowIds : ZeroOut(delisted)

Spec == Init /\ [][Next]_vars

-------------------------------------------------------------------------------

TypeOK ==
    /\ rows \in [RowIds -> Row \cup {NoRow}]
    /\ held \in [RowIds -> Int]

(* No call is lost: what a row counts as reserved is what its callers were *)
(* told they hold, whatever mixture of reservations, releases, manual      *)
(* adjustments and feed runs they came from.                               *)
ReservedIsHeld ==
    \A r \in RowIds : rows[r] # NoRow => rows[r].reserved = held[r]

(* The invariant the aggregate's header declares, over the whole table.    *)
AllSound == \A r \in RowIds : rows[r] # NoRow => Sound(rows[r])

(* Every create request keeps reservedStock within stock.  Nothing in the  *)
(* code says so; AllSound depends on it.                                   *)
SoundInputs == \A row \in CreateInputs : Sound(row)

(* A row that is sound stays sound whoever writes it next, the feed's two  *)
(* set-based statements included, which never go through the aggregate.    *)
SoundStaysSound ==
    [][\A r \in RowIds :
          rows[r] # NoRow /\ Sound(rows[r])
              => rows'[r] # NoRow /\ Sound(rows'[r])]_vars

(* A row seeded unsound is out of reach of reserve, release and adjust:    *)
(* the only write that can ever change it is the supplier feed's upsert,   *)
(* which repairs it and takes nothing away from its reservation.           *)
UnsoundOnlyRepaired ==
    [][\A r \in RowIds :
          rows[r] # NoRow /\ ~Sound(rows[r]) /\ rows'[r] # rows[r]
              => Sound(rows'[r]) /\ rows'[r].reserved = rows[r].reserved]_vars
===============================================================================
