---------------------------- MODULE StockLedger -----------------------------
(***************************************************************************)
(* The stock of the finished products and its audit log: sales             *)
(* (backend/app/services/sales.py), the conversion of an order into sales  *)
(* (api/orders.py), restocks and adjustments (services/inventory.py) and   *)
(* the reversal of log entries (api/inventory.py).                         *)
(*                                                                         *)
(* A request reads, decides, and then makes one guarded UPDATE of the      *)
(* inventory row; it holds that row's lock until the commit that also      *)
(* inserts its other rows.  So a request is two actions, what it reads and *)
(* what it commits, and any other request may commit in between.           *)
(*                                                                         *)
(* POST /api/sales is not here: it passes a name it never assigns          *)
(* (api/sales.py:299) and answers 500 before it reads a row.               *)
(***************************************************************************)
EXTENDS Integers, Sequences, FiniteSets, Functions

CONSTANTS
    Products,
    Users,          \* who records sales
    Nobody,         \* no user
    Calls,          \* bound: the requests in flight at a time
    OrderItems,     \* the [product, quantity] lines of the order to convert
    InitialStock,   \* the stock the items are created with
    Quantities,     \* bound: the quantities people enter
    MaxEntries      \* bound: MaxEntries[p] limits the length of the log of p

Items == [product : Products, quantity : Nat \ {0}]

ASSUME StockAssumption ==
    /\ Nobody \notin Users
    /\ OrderItems \in Seq(Items) /\ OrderItems # <<>>
    /\ InitialStock \in [Products -> Nat]
    /\ Quantities \subseteq Nat \ {0}
    /\ MaxEntries \in [Products -> Nat]

VARIABLES
    stock,          \* stock[p]: inventory.total_stock
    sold,           \* sold[p]: inventory.total_sold
    ledger,         \* ledger[p]: the inventory_transactions of p, in id order
    sales,          \* the sales, in id order
    tx              \* tx[c]: the request c in flight

vars == <<stock, sold, ledger, sales, tx>>

\* sale and reverses are ids: 0 is NULL.
Entry == [change : Int, sale : Nat, reverses : Nat]

\* forOrder: is it keyed by the order and its product?  seen: the number of sales
\* when its request looked for the key (not a column; for a property).
Sale == [product : Products, quantity : Nat \ {0}, user : Users,
         forOrder : BOOLEAN, reversed : BOOLEAN, seen : Nat]

Idle == [pc |-> "idle", user |-> Nobody, items |-> <<>>, forOrder |-> FALSE,
         before |-> 0, seen |-> 0, product |-> OrderItems[1].product, entry |-> 0]

Call == [pc : {"idle", "converting", "selling", "reversing"},
         user : Users \cup {Nobody}, items : Seq(Items), forOrder : BOOLEAN,
         before : Int, seen : Nat, product : Products, entry : Nat]

\* The foreign keys of an entry refer to rows that exist.
TypeOK ==
    /\ stock \in [Products -> Int]
    /\ sold \in [Products -> Nat]
    /\ ledger \in [Products -> Seq(Entry)]
    /\ \A p \in Products : \A i \in DOMAIN ledger[p] :
           /\ ledger[p][i].sale \in 0 .. Len(sales)
           /\ ledger[p][i].reverses \in 0 .. i - 1
    /\ sales \in Seq(Sale)
    /\ tx \in [Calls -> Call]

\* create_inventory_item logs the initial stock, if there is any.
Init ==
    /\ stock = InitialStock
    /\ sold = [p \in Products |-> 0]
    /\ ledger = [p \in Products |->
                   IF InitialStock[p] = 0 THEN <<>>
                   ELSE << [change |-> InitialStock[p], sale |-> 0, reverses |-> 0] >>]
    /\ sales = <<>>
    /\ tx = [c \in Calls |-> Idle]

Room(p)   == Len(ledger[p]) < MaxEntries[p]
Finish(c) == tx' = [tx EXCEPT ![c] = Idle]

\* One UPDATE of the row of p to the quantity it computes, and the insertion of an entry.
Posts(p, to, change, sale, reverses) ==
    /\ stock' = [stock EXCEPT ![p] = to]
    /\ ledger' = [ledger EXCEPT ![p] =
                    Append(@, [change |-> change, sale |-> sale, reverses |-> reverses])]

-----------------------------------------------------------------------------
(* Sales.                                                                   *)

\* Mutant: a reversed sale does not count.
KeyedSalesStanding(u, p) ==
    {s \in DOMAIN sales : /\ sales[s].forOrder /\ ~sales[s].reversed
                          /\ sales[s].user = u
                          /\ sales[s].product = p}

\* The sales of a product that a user has recorded under the order's key.
KeyedSales(u, p) ==
    {s \in DOMAIN sales : /\ sales[s].forOrder
                          /\ sales[s].user = u
                          /\ sales[s].product = p}

\* POST /orders/{id}/record-sales, with the order delivered or completed.
ConvertBegin(c, u) ==
    /\ tx[c].pc = "idle"
    /\ tx' = [tx EXCEPT ![c] = [Idle EXCEPT !.pc = "converting", !.user = u,
                                            !.items = OrderItems, !.forOrder = TRUE]]
    /\ UNCHANGED <<stock, sold, ledger, sales>>

\* On to the next item of the request; without one it has been answered.
NextItem(c) ==
    IF Len(tx[c].items) = 1 THEN Finish(c)
    ELSE tx' = [tx EXCEPT ![c].pc = "converting", ![c].items = Tail(@)]

\* record_sale for the next item.  A sale found under the key stands for a new one;
\* two of them raise MultipleResultsFound; without stock the request ends there, and
\* what it has committed stays.
ConvertRead(c) ==
    /\ tx[c].pc = "converting"
    /\ LET item  == Head(tx[c].items)
           found == KeyedSales(tx[c].user, item.product)
       IN  CASE Cardinality(found) = 1 -> NextItem(c)
             [] Cardinality(found) = 0 /\ stock[item.product] >= item.quantity ->
                    tx' = [tx EXCEPT ![c].pc = "selling",
                                     ![c].before = stock[item.product],
                                     ![c].seen = Len(sales)]
             [] OTHER -> Finish(c)
    /\ UNCHANGED <<stock, sold, ledger, sales>>

\* record_sale for the sales form or the slash command: a single item, no key.
SellBegin(c, u, p, q) ==
    /\ tx[c].pc = "idle"
    /\ stock[p] >= q
    /\ tx' = [tx EXCEPT ![c] = [Idle EXCEPT !.pc = "selling", !.user = u,
                                            !.items = <<[product |-> p, quantity |-> q]>>,
                                            !.before = stock[p], !.seen = Len(sales)]]
    /\ UNCHANGED <<stock, sold, ledger, sales>>

\* Mutant: the stock check is left to the read before.
InStockBefore(c, p, q) == tx[c].before >= q

\* The condition of the guarded update.
InStock(c, p, q) == stock[p] >= q

\* Mutant: the update writes what the request has computed from its read.
DeductedFromRead(c, p, q) == tx[c].before - q

\* The update computes on the row: total_stock = total_stock - quantity.
Deducted(c, p, q) == stock[p] - q

\* Mutant: the entry is added before the flush that gives the sale its id.
SaleIdUnflushed(s) == 0

\* Mutant: the id is guessed before the flush, off by one.
SaleIdGuessed(s) == s + 1

\* The id the entry of the new sale refers to.
SaleId(s) == s

\* The update, the sale and its entry, in one commit; the update matches no row
\* when the stock has dropped in the meantime, and the request ends there.
SellCommit(c) ==
    /\ tx[c].pc = "selling"
    /\ LET p == Head(tx[c].items).product
           q == Head(tx[c].items).quantity
       IN  IF InStock(c, p, q)
           THEN /\ Room(p)
                /\ Posts(p, Deducted(c, p, q), -q, SaleId(Len(sales) + 1), 0)
                /\ sold' = [sold EXCEPT ![p] = @ + q]
                /\ sales' = Append(sales, [product |-> p, quantity |-> q,
                                           user |-> tx[c].user, forOrder |-> tx[c].forOrder,
                                           reversed |-> FALSE, seen |-> tx[c].seen])
                /\ NextItem(c)
           ELSE Finish(c) /\ UNCHANGED <<stock, sold, ledger, sales>>

-----------------------------------------------------------------------------
(* Restocks and adjustments: one UPDATE each, whose condition decides.      *)

Restock(p, q) ==
    /\ Room(p)
    /\ Posts(p, stock[p] + q, q, 0, 0)
    /\ UNCHANGED <<sold, sales, tx>>

Adjust(p, d) ==
    /\ Room(p)
    /\ stock[p] + d >= 0
    /\ Posts(p, stock[p] + d, d, 0, 0)
    /\ UNCHANGED <<sold, sales, tx>>

-----------------------------------------------------------------------------
(* Reversals: reverse_transaction.                                          *)

ReversalsOf(p, i) == {j \in DOMAIN ledger[p] : ledger[p][j].reverses = i}

\* The reads: no reversal of the entry yet, and the entry is not one itself.
ReverseBegin(c, p, i) ==
    /\ tx[c].pc = "idle"
    /\ ReversalsOf(p, i) = {}
    /\ ledger[p][i].reverses = 0
    /\ tx' = [tx EXCEPT ![c] = [Idle EXCEPT !.pc = "reversing", !.product = p, !.entry = i]]
    /\ UNCHANGED <<stock, sold, ledger, sales>>

\* Mutant: the sale is looked up by the id of the entry.
MarkReversedById(s, i) ==
    IF i \in DOMAIN sales THEN [sales EXCEPT ![i].reversed = TRUE] ELSE sales

\* Sale s of entry i, if the entry has one.
MarkReversed(s, i) ==
    IF s \in DOMAIN sales THEN [sales EXCEPT ![s].reversed = TRUE] ELSE sales

\* Only taking stock away is guarded.
ReverseCommit(c) ==
    /\ tx[c].pc = "reversing"
    /\ LET p == tx[c].product
           i == tx[c].entry
           change == -ledger[p][i].change
       IN  IF change < 0 => stock[p] >= -change
           THEN /\ Room(p)
                /\ Posts(p, stock[p] + change, change, 0, i)
                /\ sales' = MarkReversed(ledger[p][i].sale, i)
           ELSE UNCHANGED <<stock, ledger, sales>>
    /\ Finish(c)
    /\ UNCHANGED sold

\* The server stops: the requests in flight are rolled back.
Crash ==
    /\ tx' = [c \in Calls |-> Idle]
    /\ UNCHANGED <<stock, sold, ledger, sales>>

-----------------------------------------------------------------------------
Next ==
    \/ \E c \in Calls, u \in Users : ConvertBegin(c, u)
    \/ \E c \in Calls : ConvertRead(c) \/ SellCommit(c) \/ ReverseCommit(c)
    \/ \E c \in Calls, u \in Users, p \in Products, q \in Quantities : SellBegin(c, u, p, q)
    \/ \E p \in Products, q \in Quantities : Restock(p, q) \/ Adjust(p, q) \/ Adjust(p, -q)
    \/ \E c \in Calls, p \in Products : \E i \in DOMAIN ledger[p] : ReverseBegin(c, p, i)
    \/ Crash

Spec == Init /\ [][Next]_vars

-----------------------------------------------------------------------------
(* Properties. *)

\* The total of the log is the stock, and the total of the sales is the total sold:
\* no concurrent request is lost from either (the UPDATEs compute on the row, and not
\* on what the request has read).
LedgerBalances ==
    \A p \in Products :
        /\ stock[p] = SumFunction([i \in DOMAIN ledger[p] |-> ledger[p][i].change])
        /\ sold[p] = SumFunction([s \in {r \in DOMAIN sales : sales[r].product = p} |->
                                    sales[s].quantity])

\* Every sale has taken its quantity from the stock of its product by exactly one
\* entry ("Atomic commits: Sale + Ledger in one transaction", sales.py:7).
EachSalePosted ==
    \A s \in DOMAIN sales : \E p \in Products : \E i \in DOMAIN ledger[p] :
        /\ p = sales[s].product
        /\ ledger[p][i].sale = s /\ ledger[p][i].change = -sales[s].quantity
        /\ \A r \in Products : \A j \in DOMAIN ledger[r] :
               ledger[r][j].sale = s => r = p /\ j = i

\* A sale is marked reversed exactly when its own entry has a reversal: reports that
\* leave reversed sales out agree with the stock that came back.
ReversedMeansReversal ==
    \A s \in DOMAIN sales :
        sales[s].reversed <=>
            \E i \in DOMAIN ledger[sales[s].product] :
                /\ ledger[sales[s].product][i].sale = s
                /\ ReversalsOf(sales[s].product, i) # {}

\* A user who converts the order again after an answer (or a crash that lost it) sells
\* nothing twice, even when the first sale was reversed: two sales under one key had
\* requests that overlapped, the later one having looked before the first committed.
RetrySellsOnce ==
    \A s, t \in DOMAIN sales :
        /\ s < t /\ sales[s].forOrder /\ sales[t].forOrder
        /\ sales[s].user = sales[t].user /\ sales[s].product = sales[t].product
        => sales[t].seen < s

\* Reversal and everything else keeps the promise of a stock record: never negative,
\* and every change in the log.
Account == INSTANCE StockAccount
    WITH Items   <- Products,
         balance <- stock,
         journal <- [p \in Products |-> [i \in DOMAIN ledger[p] |-> ledger[p][i].change]]

KeepsAccount == Account!Spec

\* An entry is reversed at most once ("Prevent double reversal", api/inventory.py:596).
ReversedOnce ==
    \A p \in Products : \A i \in DOMAIN ledger[p] : Cardinality(ReversalsOf(p, i)) <= 1

\* An order is sold once ("Idempotent - calling twice with the same order returns
\* existing sales", api/orders.py:547).
ConvertedOnce ==
    \A p \in Products :
        Cardinality({s \in DOMAIN sales : sales[s].forOrder /\ sales[s].product = p}) <= 1

\* An order is converted as a whole or not at all ("Convert an order into one or more
\* sales atomically", api/orders.py:546).
ConvertedAsAWhole ==
    (\A c \in Calls : tx[c].pc = "idle") =>
        \A u \in Users : \A i, j \in DOMAIN OrderItems :
            KeyedSales(u, OrderItems[i].product) # {} => KeyedSales(u, OrderItems[j].product) # {}
=============================================================================
