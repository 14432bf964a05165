------------------------------- MODULE MCOrders --------------------------------
(* Two orders that share a row; the first one needs a second row as well,  *)
(* which the supplier has not listed yet when the model starts.            *)
EXTENDS OrderService, TLC

CONSTANTS o1, o2, p1, p2, b1

r1 == <<p1, b1>>
r2 == <<p2, b1>>

MCLines ==
    [o \in Orders |->
        IF o = o1 THEN <<[row |-> r1, qty |-> 1], [row |-> r2, qty |-> 1]>>
        ELSE <<[row |-> r1, qty |-> 1]>>]

MCOpening == [r \in RowIds |-> IF r = r1 THEN [stock |-> 2, reserved |-> 0] ELSE NoRow]

AlikeHandlers == Permutations(Handlers)

MCDeltas == {-1}
MCQuantities == {1}
MCAdjust == [kind : {"adjust"}, qty : MCDeltas]
MCSame == {Same}
MCAnyStatus == {Same, "delivered"}
MCLevels == {0, 1}
===============================================================================
