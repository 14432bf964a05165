----------------------------- MODULE InventoryRow -----------------------------
(***************************************************************************)
(* The Inventory aggregate (modules/inventory/domain/inventory.aggregate): *)
(* one stock row of one product at one provider branch, the three          *)
(* operations the use cases call on it, and the two set-based formulas     *)
(* the repository applies in SQL instead of going through the aggregate.   *)
(* An operation that the aggregate refuses (it throws) is one whose        *)
(* Accepts is false: the row is then left as it was.                       *)
(***************************************************************************)
EXTENDS Integers

CONSTANT NoRow   \* the (product, branch) pair has no inventory row

Row == [stock : Nat, reserved : Nat]

ASSUME NoRowAssumption == NoRow \notin Row

(* assertInvariants: what the constructor, and so every fromSnapshot,      *)
(* demands of a row before any operation is tried.                         *)
Sound(row) == row.reserved <= row.stock

Available(row) == row.stock - row.reserved

(* A command the use cases hand to mutate(): reserve and release carry a   *)
(* quantity, adjust a signed delta.                                        *)
Command(Quantities, Deltas) ==
    [kind : {"reserve", "release"}, qty : Quantities]
        \cup [kind : {"adjust"}, qty : Deltas]

\* mutant: release forgets to compare with what is reserved
ReleaseAnyAmount(row, qty) == qty > 0

CanReserve(row, qty) == qty > 0 /\ qty <= Available(row)
CanRelease(row, qty) == qty > 0 /\ qty <= row.reserved
CanAdjust(row, delta) == row.stock + delta >= 0 /\ row.stock + delta >= row.reserved

\* mutant: fromSnapshot no longer asserts the invariants
AcceptsUnchecked(row, cmd) ==
    \/ cmd.kind = "reserve" /\ CanReserve(row, cmd.qty)
    \/ cmd.kind = "release" /\ CanRelease(row, cmd.qty)
    \/ cmd.kind = "adjust"  /\ CanAdjust(row, cmd.qty)

Accepts(row, cmd) ==
    /\ Sound(row)
    /\ \/ cmd.kind = "reserve" /\ CanReserve(row, cmd.qty)
       \/ cmd.kind = "release" /\ CanRelease(row, cmd.qty)
       \/ cmd.kind = "adjust"  /\ CanAdjust(row, cmd.qty)

(* Units the command adds to what its callers hold in reserve.             *)
HeldChange(cmd) ==
    CASE cmd.kind = "reserve" -> cmd.qty
      [] cmd.kind = "release" -> -cmd.qty
      [] OTHER -> 0

Apply(row, cmd) ==
    [stock    |-> row.stock + (IF cmd.kind = "adjust" THEN cmd.qty ELSE 0),
     reserved |-> row.reserved + HeldChange(cmd)]

\* mutants: the upsert without GREATEST; the upsert as a plain replacement
FeedWriteVerbatim(row, level) ==
    IF row = NoRow THEN [stock |-> level, reserved |-> 0] ELSE [row EXCEPT !.stock = level]
FeedWriteReplacing(row, level) == [stock |-> level, reserved |-> 0]

(* INSERT ... ON CONFLICT DO UPDATE SET stock = GREATEST(feed, reserved).  *)
FeedWrite(row, level) ==
    IF row = NoRow
    THEN [stock |-> level, reserved |-> 0]
    ELSE [row EXCEPT !.stock = IF level >= row.reserved THEN level ELSE row.reserved]

(* The WHERE and the SET of zeroOutMissing.                                *)
Delistable(row) == row # NoRow /\ row.stock > row.reserved
Delisted(row) == [row EXCEPT !.stock = row.reserved]
===============================================================================
