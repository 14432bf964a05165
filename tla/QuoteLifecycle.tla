---------------------------- MODULE QuoteLifecycle ----------------------------
(***************************************************************************)
(* What the quotes module promises: a quote moves along QUOTE_TRANSITIONS  *)
(* and in no other way, is discarded only as a draft, and becomes one      *)
(* order at most, once it is converted.                                    *)
(***************************************************************************)
EXTENDS Naturals

CONSTANT Quotes

VARIABLES status, made    \* made: how many orders a quote has become

lifeVars == <<status, made>>

Statuses == {"draft", "sent", "approved", "rejected", "converted"}
Actions == {"send", "approve", "reject", "convert"}

(* QUOTE_TRANSITIONS.  Every action has one status it starts from.         *)
From == [send |-> "draft", approve |-> "sent", reject |-> "sent", convert |-> "approved"]
To == [send |-> "sent", approve |-> "approved", reject |-> "rejected", convert |-> "converted"]

LifeInit == status = [q \in Quotes |-> "none"] /\ made = [q \in Quotes |-> 0]

Step(q, from, to) ==
    /\ status[q] = from
    /\ status' = [status EXCEPT ![q] = to]
    /\ UNCHANGED made

Order(q) ==
    /\ status[q] = "converted" /\ made[q] = 0
    /\ made' = [made EXCEPT ![q] = 1]
    /\ UNCHANGED status

LifeNext ==
    \E q \in Quotes :
        \/ Step(q, "none", "draft")
        \/ Step(q, "draft", "gone")
        \/ \E a \in Actions : Step(q, From[a], To[a])
        \/ Order(q)

LifeSpec == LifeInit /\ [][LifeNext]_lifeVars
===============================================================================
