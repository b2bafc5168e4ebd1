---------------------------- MODULE StockAccount ----------------------------
(***************************************************************************)
(* What a stock record with an audit log promises ("Inventory uses ledger  *)
(* pattern", backend/app/services/sales.py:6; "Audit trail via             *)
(* transactions", "No negative stock allowed", services/processing.py:12): *)
(* the balance of an item is never negative, and every change of it is     *)
(* journalled, with its exact amount, by the step that makes it.           *)
(***************************************************************************)
EXTENDS Integers, Sequences

CONSTANT Items        \* the things that are kept in stock

VARIABLES
    balance,          \* balance[i]: the quantity of item i in stock
    journal           \* journal[i]: the changes of item i so far, in order

vars == <<balance, journal>>

\* The journal of an item opens with its initial stock, if it has any.
Init ==
    /\ balance \in [Items -> Nat]
    /\ journal = [i \in Items |-> IF balance[i] = 0 THEN <<>> ELSE <<balance[i]>>]

\* A change of item i to a quantity that is not negative, and its entry.
Post(i) ==
    /\ balance'[i] \in Nat \ {balance[i]}
    /\ balance' = [balance EXCEPT ![i] = balance'[i]]
    /\ journal' = [journal EXCEPT ![i] = Append(@, balance'[i] - balance[i])]

Next == \E i \in Items : Post(i)

Spec == Init /\ [][Next]_vars
=============================================================================
