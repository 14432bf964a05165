---------------------------- MODULE MCInventoryTx -----------------------------
(* Two products at one branch, both in reach of the feed; two callers, one *)
(* of which may be creating an order.  A create request may seed a row     *)
(* whose reservedStock exceeds its stock.                                  *)
EXTENDS InventoryTx

MCQuantities == {1}
MCLevels == {0, 1}
MCCreateInputs == {[stock |-> 1, reserved |-> 0], [stock |-> 0, reserved |-> 1]}
===============================================================================
