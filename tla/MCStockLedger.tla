--------------------------- MODULE MCStockLedger ----------------------------
(* Small instances of StockLedger: two products, an order of one of each, and  *)
(* two people with two requests in flight.                                     *)
EXTENDS StockLedger, TLC

CONSTANTS flour, oil, ann, bob, r1, r2

MCOrderItems   == << [product |-> flour, quantity |-> 1], [product |-> oil, quantity |-> 1] >>
MCInitialStock == [p \in Products |-> IF p = flour THEN 2 ELSE 1]

MCMaxEntries   == [p \in Products |-> IF p = flour THEN 4 ELSE 2]

\* One product only.
MCOneItem  == << [product |-> flour, quantity |-> 1] >>
MCSymmetry == Permutations(Calls) \cup Permutations(Users)
=============================================================================
