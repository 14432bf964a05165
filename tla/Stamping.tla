------------------------------- MODULE Stamping -------------------------------
(***************************************************************************)
(* One invoice and its fiscal stamp.  A request loads the row, may ask the *)
(* PAC, and saves the copy it loaded with its own changes: save() writes   *)
(* every column that differs and inserts the row when it is gone.          *)
(*                                                                         *)
(* The PAC is the port: the adapter that ships answers `unavailable`, the  *)
(* one it is written for may also stamp or reject.  What the SAT holds is  *)
(* kept beside it.                                                         *)
(***************************************************************************)
EXTENDS Naturals, FiniteSets

CONSTANTS InvoiceCalls,   \* requests at once
          MaxInvoiceCalls \* bound: requests in a behaviour

ASSUME StampAssumption == MaxInvoiceCalls \in Nat

VARIABLES row,       \* billing.invoices: the invoice
          filled,    \* whether it has its fiscal data
          issued,    \* how many stamps the PAC has given it
          cancelled, \* those cancelled at the SAT
          work,      \* the requests
          begun,     \* how many there were
          quiet      \* none overlapped and none died

svars == <<row, filled, issued, cancelled, work, begun, quiet>>

Free == [pc |-> "idle"]
Unstamped == [stored |-> TRUE, uuid |-> 0, sat |-> "none", cancel |-> "none"]
LiveStamps == (1..issued) \ cancelled

StampInit ==
    /\ row = Unstamped
    /\ filled \in BOOLEAN
    /\ issued = 0 /\ cancelled = {}
    /\ work = [r \in InvoiceCalls |-> Free]
    /\ begun = 0 /\ quiet = TRUE

-------------------------------------------------------------------------------
Load(r, pc) ==
    /\ work[r] = Free /\ begun < MaxInvoiceCalls
    /\ row.stored
    /\ work' = [work EXCEPT ![r] = [pc |-> pc, copy |-> row]]
    /\ begun' = begun + 1
    /\ quiet' = (quiet /\ \A q \in InvoiceCalls : work[q] = Free)
    /\ UNCHANGED <<row, filled, issued, cancelled>>

Then(r, w) == work' = [work EXCEPT ![r] = w]
Finish(r) == Then(r, Free) /\ UNCHANGED <<begun, quiet>>

\* mutant: an invoice that is stamped already is stamped again
StampableAgain == filled
(* missingFiscalData: nothing is missing, and there is no stamp yet.       *)
Stampable == row.uuid = 0 /\ filled

BeginStamp(r) == Stampable /\ Load(r, "stamp")

PacStamps(r) ==
    /\ work[r].pc = "stamp"
    /\ issued < MaxInvoiceCalls
    /\ issued' = issued + 1
    /\ Then(r, [pc |-> "save", copy |-> [work[r].copy EXCEPT !.uuid = issued + 1,
                                                             !.sat = "vigente"]])
    /\ UNCHANGED <<row, filled, cancelled, begun, quiet>>

BeginCancel(r) == row.uuid # 0 /\ Load(r, "cancel")

PacCancels(r) ==
    /\ work[r].pc = "cancel"
    /\ cancelled' = cancelled \cup {work[r].copy.uuid}
    /\ Then(r, [pc |-> "save", copy |-> [work[r].copy EXCEPT !.cancel = "cancelado",
                                                             !.sat = "cancelado"]])
    /\ UNCHANGED <<row, filled, issued, begun, quiet>>

(* unavailable or rejected: 503 or 409, and the row is not touched.        *)
PacRefuses(r) ==
    /\ work[r].pc \in {"stamp", "cancel"}
    /\ Finish(r)
    /\ UNCHANGED <<row, filled, issued, cancelled>>

(* PATCH: any of its columns, sat_status among them.                       *)
BeginPatch(r) == Load(r, "patch")
Patch(r) ==
    /\ work[r].pc = "patch"
    /\ \E sat \in {work[r].copy.sat, "none", "vigente"} :
         Then(r, [pc |-> "save", copy |-> [work[r].copy EXCEPT !.sat = sat]])
    /\ UNCHANGED <<row, filled, issued, cancelled, begun, quiet>>

SaveInvoice(r) ==
    /\ work[r].pc = "save"
    /\ row' = work[r].copy
    /\ Finish(r)
    /\ UNCHANGED <<filled, issued, cancelled>>

BeginRemove(r) == Load(r, "remove")
DeleteInvoice(r) ==
    /\ work[r].pc = "remove"
    /\ row' = [Unstamped EXCEPT !.stored = FALSE]
    /\ Finish(r)
    /\ UNCHANGED <<filled, issued, cancelled>>

Die(r) ==
    /\ work[r] # Free
    /\ Then(r, Free)
    /\ quiet' = FALSE
    /\ UNCHANGED <<row, filled, issued, cancelled, begun>>

StampNext ==
    \E r \in InvoiceCalls :
      \/ BeginStamp(r) \/ PacStamps(r) \/ BeginCancel(r) \/ PacCancels(r) \/ PacRefuses(r)
      \/ BeginPatch(r) \/ Patch(r) \/ SaveInvoice(r) \/ BeginRemove(r) \/ DeleteInvoice(r)
      \/ Die(r)

-------------------------------------------------------------------------------
(* While requests come one after another and none dies, the SAT holds one  *)
(* live stamp of the invoice at most, and the row, once nobody works on it *)
(* and unless it was removed, names it: an uuid that is not cancelled is   *)
(* live, and one that the row says is cancelled is not.                    *)
StampedOnce ==
    quiet =>
      /\ Cardinality(LiveStamps) <= 1
      /\ (row.stored /\ \A r \in InvoiceCalls : work[r] = Free) =>
           LiveStamps = IF row.uuid # 0 /\ row.cancel = "none" THEN {row.uuid} ELSE {}
===============================================================================
