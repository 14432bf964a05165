------------------------------- MODULE Branches -------------------------------
(***************************************************************************)
(* The two address books: the branches of a customer and of a provider,    *)
(* one of which may be the main one.  Their services are the same code but *)
(* for two things: an update of a customer's branch loads it before its    *)
(* transaction, and only customers.customer_branch has a unique index on   *)
(* the main branch.                                                        *)
(*                                                                         *)
(* Transactions are READ COMMITTED: a write locks its row until the        *)
(* commit, and what a request loaded may be old when it saves it.  save()  *)
(* writes the copy it is given, and inserts it when the row is gone.       *)
(***************************************************************************)
EXTENDS Naturals, FiniteSets

CONSTANTS BranchIds,    \* the branches of one customer or provider
          BranchCalls,  \* requests at once
          MaxCalls      \* bound: requests in a behaviour

ASSUME BranchAssumption == IsFiniteSet(BranchIds) /\ MaxCalls \in Nat

VARIABLES book,      \* "customer" or "provider"
          branch,    \* the committed rows: "main", "plain" or "none"
          call,      \* the requests
          calls,     \* how many there were
          overlapped \* two were under way at once

bvars == <<book, branch, call, calls, overlapped>>

Idle == [pc |-> "idle"]
Stored == {b \in BranchIds : branch[b] # "none"}
Mains == {b \in BranchIds : branch[b] = "main"}

(* Until it commits, a request holds the rows it demoted.                  *)
LockedFor(r) == UNION {call[q].demoted : q \in {p \in BranchCalls \ {r} : call[p].pc = "save"}}

BranchInit ==
    /\ book \in {"customer", "provider"}
    /\ branch = [b \in BranchIds |-> "none"]
    /\ call = [r \in BranchCalls |-> Idle]
    /\ calls = 0 /\ overlapped = FALSE

-------------------------------------------------------------------------------
Begin(r, c) ==
    /\ call[r] = Idle /\ calls < MaxCalls
    /\ call' = [call EXCEPT ![r] = c]
    /\ calls' = calls + 1
    /\ overlapped' = (overlapped \/ \E q \in BranchCalls \ {r} : call[q] # Idle)
    /\ UNCHANGED <<book, branch>>

(* What is saved, and whether the others are demoted first.                *)
Saving(b, kind, demote) ==
    [pc |-> IF demote THEN "demote" ELSE "save", branch |-> b, kind |-> kind, demoted |-> {}]

\* mutant: only a branch that was main demotes the others
PromotesMain(sent, was) == sent = "main" /\ was = "main"
Promotes(sent, was) == sent = "main" /\ was # "main"

CreateBranch(r) ==
    \E b \in BranchIds \ Stored, kind \in {"main", "plain"} :
      /\ \A q \in BranchCalls : call[q] # Idle => call[q].branch # b
      /\ Begin(r, Saving(b, kind, kind = "main"))

(* The body may leave is_main_branch out: the loaded value is saved.       *)
UpdateBranch(r) ==
    \E b \in Stored, sent \in {"main", "plain", "unsent"} :
      LET kind == IF sent = "unsent" THEN branch[b] ELSE sent
      IN  Begin(r, Saving(b, kind, Promotes(sent, branch[b])))

\* mutant: the main branch is removed like any other
AnyBranch(b) == b \in Stored
Removable(b) == b \in Stored \ Mains

RemoveBranch(r) ==
    \E b \in BranchIds :
      Removable(b) /\ Begin(r, [pc |-> "delete", branch |-> b, demoted |-> {}])

(* UPDATE ... SET is_main_branch = FALSE, which waits for locked rows.     *)
DemoteOthers(r) ==
    /\ call[r].pc = "demote"
    /\ LET others == Mains \ {call[r].branch} IN
       /\ others \cap LockedFor(r) = {}
       /\ call' = [call EXCEPT ![r].pc = "save", ![r].demoted = others]
    /\ UNCHANGED <<book, branch, calls, overlapped>>

(* The save and the commit.  uq_customer_branch_main refuses a second main *)
(* branch (409), and nothing of the transaction stays.                     *)
\* mutant: the index is on the branch, not on the customer
UniquePerBranch(after) == TRUE
UniqueMain(after) ==
    book = "customer" => Cardinality({b \in BranchIds : after[b] = "main"}) <= 1

Save(r) ==
    /\ call[r].pc = "save"
    /\ call[r].branch \notin LockedFor(r)
    /\ LET c == call[r]
           after == [b \in BranchIds |-> IF b = c.branch THEN c.kind
                                         ELSE IF b \in c.demoted /\ b \in Stored THEN "plain"
                                         ELSE branch[b]]
       IN  branch' = IF UniqueMain(after) THEN after ELSE branch
    /\ call' = [call EXCEPT ![r] = Idle]
    /\ UNCHANGED <<book, calls, overlapped>>

DeleteBranch(r) ==
    /\ call[r].pc = "delete"
    /\ call[r].branch \notin LockedFor(r)
    /\ branch' = [branch EXCEPT ![call[r].branch] = "none"]
    /\ call' = [call EXCEPT ![r] = Idle]
    /\ UNCHANGED <<book, calls, overlapped>>

(* The request dies, or PostgreSQL ends its transaction to break a cycle.  *)
AbortBranch(r) ==
    /\ call[r] # Idle
    /\ call' = [call EXCEPT ![r] = Idle]
    /\ UNCHANGED <<book, branch, calls, overlapped>>

BranchNext ==
    \E r \in BranchCalls :
      \/ CreateBranch(r) \/ UpdateBranch(r) \/ RemoveBranch(r)
      \/ DemoteOthers(r) \/ Save(r) \/ DeleteBranch(r) \/ AbortBranch(r)

-------------------------------------------------------------------------------
(* However requests overlap, a customer has one main branch at most: the   *)
(* demotion alone does not see to it, the index does.                      *)
OneMainPerCustomer == book = "customer" => Cardinality(Mains) <= 1

(* While requests come one after another, the main branch of a customer or *)
(* of a provider stays until another is promoted: it is not removed, there *)
(* is never a second one, and only its own update ends it.                 *)
MainIsKept ==
    [][~overlapped' =>
         /\ Mains \subseteq {b \in BranchIds : branch'[b] # "none"}
         /\ Cardinality({b \in BranchIds : branch'[b] = "main"}) <= 1
         /\ \A b \in Mains : branch'[b] = "plain" =>
              \/ \E r \in BranchCalls : call[r] # Idle /\ call[r].branch = b
              \/ \E c \in BranchIds \ Mains : branch'[c] = "main"]_bvars
===============================================================================
