------------------------------ MODULE MCShipments ------------------------------
EXTENDS Shipments, TLC

AlikeHandlers == Permutations(Handlers)
===============================================================================
