------------------------------ MODULE Backoffice ------------------------------
(***************************************************************************)
(* The back office's three contended places: address books, invoices and   *)
(* prices.  They share no row, so a behaviour plays in one of them.        *)
(***************************************************************************)
EXTENDS Branches, Stamping, Deals

VARIABLE place   \* "branches", "invoices" or "prices"

Init ==
    /\ BranchInit /\ StampInit /\ DealInit
    /\ place \in {"branches", "invoices", "prices"}
    /\ place # "branches" => book = "customer"
    /\ place # "invoices" => filled
    /\ place # "prices" => catalogue = NoPrice /\ default = NoList

AddressBook == place = "branches" /\ BranchNext /\ UNCHANGED <<svars, dvars, place>>
Invoicing == place = "invoices" /\ StampNext /\ UNCHANGED <<bvars, dvars, place>>
Dealing == place = "prices" /\ DealNext /\ UNCHANGED <<bvars, svars, place>>

Spec == Init /\ [][AddressBook \/ Invoicing \/ Dealing]_<<bvars, svars, dvars, place>>
===============================================================================
