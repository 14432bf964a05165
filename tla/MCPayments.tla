------------------------------ MODULE MCPayments -------------------------------
(* Two freight prices and a client that may also ask for free freight.     *)
EXTENDS Payments, TLC

AlikeHandlers == Permutations(Handlers)
===============================================================================
