-------------------------- MODULE StockLedger_proofs -------------------------
(***************************************************************************)
(* The proofs about StockLedger: its types, the entry of every sale, the   *)
(* reversed flags, the repeated conversion, that it implements             *)
(* StockAccount, and that its ledger adds up.                              *)
(***************************************************************************)
EXTENDS StockLedger, Sums_proofs, SequenceTheorems, FiniteSetTheorems, TLAPS

\* A request refers to what is there; and when it is about to commit a sale under a
\* key, all the sales under that key are younger than its look for one.
RequestOK(c) ==
    /\ tx[c].pc \in {"converting", "selling"} => tx[c].items # <<>> /\ tx[c].user \in Users
    /\ tx[c].pc = "reversing" => tx[c].entry \in DOMAIN ledger[tx[c].product]
    /\ tx[c].seen <= Len(sales)
    /\ tx[c].pc = "selling" /\ tx[c].forOrder =>
           \A s \in KeyedSales(tx[c].user, Head(tx[c].items).product) : s > tx[c].seen

RequestsOK == \A c \in Calls : RequestOK(c)

\* No stock is negative, and every entry changes something.
StockOK ==
    \A p \in Products : /\ stock[p] >= 0
                        /\ \A i \in DOMAIN ledger[p] : ledger[p][i].change # 0

IInv == /\ TypeOK /\ RequestsOK /\ StockOK
        /\ EachSalePosted /\ ReversedMeansReversal /\ RetrySellsOnce

\* Sale s is posted by entry j of r, and by no other.
PostedAt(s, r, j) ==
    /\ r \in Products /\ j \in DOMAIN ledger[r] /\ r = sales[s].product
    /\ ledger[r][j].sale = s /\ ledger[r][j].change = -sales[s].quantity
    /\ \A q \in Products : \A k \in DOMAIN ledger[q] :
           ledger[q][k].sale = s => q = r /\ k = j

\* An entry of sale s has a reversal.
Returned(s) ==
    \E j \in DOMAIN ledger[sales[s].product] :
        /\ ledger[sales[s].product][j].sale = s
        /\ \E k \in DOMAIN ledger[sales[s].product] : ledger[sales[s].product][k].reverses = j

\* Logs and sales only grow, and a sale keeps what it was sold as.
Grows ==
    /\ \A p \in Products : DOMAIN ledger[p] \subseteq DOMAIN ledger'[p]
    /\ Len(sales) <= Len(sales')
    /\ \A s \in DOMAIN sales' : s <= Len(sales) =>
           /\ s \in DOMAIN sales
           /\ sales'[s].product = sales[s].product /\ sales'[s].quantity = sales[s].quantity
           /\ sales'[s].user = sales[s].user /\ sales'[s].forOrder = sales[s].forOrder
           /\ sales'[s].seen = sales[s].seen

-----------------------------------------------------------------------------
(* What the operators do. *)

\* Posts changes the stock of one product and appends to its log (entry n), leaving the rest.
Posted(p, n, to, change, sale, reverses) ==
    /\ stock' \in [Products -> Int]
    /\ stock'[p] = to
    /\ \A r \in Products \ {p} : stock'[r] = stock[r] /\ ledger'[r] = ledger[r]
    /\ ledger' \in [Products -> Seq(Entry)]
    /\ n \in Nat \ {0} /\ n - 1 \in Nat
    /\ Len(ledger[p]) = n - 1 /\ Len(ledger'[p]) = n
    /\ DOMAIN ledger[p] = 1 .. n - 1
    /\ DOMAIN ledger'[p] = 1 .. n
    /\ \A i \in 1 .. n - 1 : ledger'[p][i] = ledger[p][i]
    /\ ledger'[p][n].change = change
    /\ ledger'[p][n].sale = sale
    /\ ledger'[p][n].reverses = reverses

\* Posts does what Posted says.
LEMMA PostsEffect ==
    ASSUME TypeOK, NEW p \in Products, NEW to \in Int, NEW change \in Int,
           NEW sale \in Nat, NEW reverses \in Nat, Posts(p, to, change, sale, reverses)
    PROVE  Posted(p, Len(ledger[p]) + 1, to, change, sale, reverses)
  <1> DEFINE e == [change |-> change, sale |-> sale, reverses |-> reverses]
  <1>1. e \in Entry
    BY DEF Entry
  <1>2. ledger[p] \in Seq(Entry)
    BY DEF TypeOK
  <1>3. ledger' = [ledger EXCEPT ![p] = Append(ledger[p], e)]
    BY DEF Posts
  <1>4. ledger'[p] = Append(ledger[p], e) /\ \A r \in Products \ {p} : ledger'[r] = ledger[r]
    BY <1>3 DEF TypeOK
  <1> HIDE DEF e
  <1>5. /\ Append(ledger[p], e) \in Seq(Entry)
        /\ Len(Append(ledger[p], e)) = Len(ledger[p]) + 1
        /\ \A i \in 1 .. Len(ledger[p]) : Append(ledger[p], e)[i] = ledger[p][i]
        /\ Append(ledger[p], e)[Len(ledger[p]) + 1] = e
    BY <1>1, <1>2, AppendProperties
  <1>6. ledger' \in [Products -> Seq(Entry)]
    BY <1>3, <1>5 DEF TypeOK
  <1>7. /\ stock' \in [Products -> Int] /\ stock'[p] = to
        /\ \A r \in Products \ {p} : stock'[r] = stock[r]
    BY DEF Posts, TypeOK
  <1>8. Len(ledger[p]) \in Nat /\ DOMAIN ledger[p] = 1 .. Len(ledger[p])
    BY <1>2, LenProperties
  <1>9. DOMAIN Append(ledger[p], e) = 1 .. Len(ledger[p]) + 1
    BY <1>5, <1>8
  <1>10. QED
    BY <1>4, <1>5, <1>6, <1>7, <1>8, <1>9 DEF e, Posted

\* Posting keeps every log entry, and adds one.
LEMMA PostedLog ==
    ASSUME NEW p \in Products, NEW n, NEW to, NEW change, NEW sale, NEW reverses,
           Posted(p, n, to, change, sale, reverses), NEW r \in Products
    PROVE  /\ DOMAIN ledger[r] \subseteq DOMAIN ledger'[r]
           /\ \A j \in DOMAIN ledger[r] : ledger'[r][j] = ledger[r][j]
           /\ \A j \in DOMAIN ledger'[r] : j \in DOMAIN ledger[r] \/ (r = p /\ j = n)
           /\ n \in DOMAIN ledger'[p] /\ n \notin DOMAIN ledger[p]
  <1>1. /\ n \in Nat \ {0} /\ n - 1 \in Nat
        /\ DOMAIN ledger[p] = 1 .. n - 1
        /\ DOMAIN ledger'[p] = 1 .. n
        /\ \A i \in 1 .. n - 1 : ledger'[p][i] = ledger[p][i]
    BY DEF Posted
  <1>2. /\ 1 .. n - 1 \subseteq 1 .. n
        /\ \A j \in 1 .. n : j \in 1 .. n - 1 \/ j = n
        /\ n \in 1 .. n /\ n \notin 1 .. n - 1
    BY <1>1
  <1>3. CASE r = p
    BY <1>1, <1>2, <1>3
  <1>4. CASE r # p
    <2>1. ledger'[r] = ledger[r]
      BY <1>4 DEF Posted
    <2>2. QED
      BY <1>1, <1>2, <2>1
  <1>5. QED
    BY <1>3, <1>4

\* Which entries have a reversal once another entry has been posted.
LEMMA ReversalsEffect ==
    ASSUME TypeOK, NEW p \in Products, NEW to \in Int, NEW change \in Int, NEW sale \in Nat,
           NEW reverses \in 0 .. Len(ledger[p]), Posts(p, to, change, sale, reverses)
    PROVE  /\ \A r \in Products : \A i \in DOMAIN ledger[r] :
                  (\E k \in DOMAIN ledger'[r] : ledger'[r][k].reverses = i) <=>
                      (\E k \in DOMAIN ledger[r] : ledger[r][k].reverses = i)
                      \/ (r = p /\ i = reverses)
           /\ \A k \in DOMAIN ledger'[p] : ledger'[p][k].reverses # Len(ledger[p]) + 1
  <1> DEFINE n == Len(ledger[p]) + 1
  <1>0. reverses \in Nat /\ reverses # n
    BY LenProperties DEF TypeOK
  <1>1. Posted(p, n, to, change, sale, reverses)
    BY <1>0, PostsEffect
  <1>2. ASSUME NEW r \in Products, NEW i \in DOMAIN ledger[r]
        PROVE  (\E k \in DOMAIN ledger'[r] : ledger'[r][k].reverses = i) <=>
                   (\E k \in DOMAIN ledger[r] : ledger[r][k].reverses = i)
                   \/ (r = p /\ i = reverses)
    <2>1. /\ DOMAIN ledger[r] \subseteq DOMAIN ledger'[r]
          /\ \A k \in DOMAIN ledger[r] : ledger'[r][k] = ledger[r][k]
          /\ \A k \in DOMAIN ledger'[r] : k \in DOMAIN ledger[r] \/ (r = p /\ k = n)
          /\ n \in DOMAIN ledger'[p]
      BY <1>1, PostedLog
    <2>2. ledger'[p][n].reverses = reverses
      BY <1>1 DEF Posted
    <2>3. QED
      <3> HIDE DEF n
      <3>1. QED
        BY <2>1, <2>2
  <1>3. ASSUME NEW k \in DOMAIN ledger'[p]
        PROVE  ledger'[p][k].reverses # n
    <2>1. CASE k \in DOMAIN ledger[p]
      <3>1. ledger'[p][k] = ledger[p][k]
        BY <1>1, <2>1, PostedLog
      <3>2. ledger[p][k].reverses \in 0 .. k - 1 /\ k \in 1 .. n - 1 /\ n \in Nat
        BY <1>1, <2>1 DEF TypeOK, Posted
      <3>3. QED
        BY <3>1, <3>2
    <2>2. CASE k = n
      BY <1>0, <1>1, <2>2 DEF Posted
    <2>3. QED
      BY <1>1, <2>1, <2>2, PostedLog
  <1>4. QED
    BY <1>2, <1>3

\* MarkReversed marks one sale, if it exists, and changes nothing else.
LEMMA MarkReversedEffect ==
    ASSUME TypeOK, NEW s \in Nat, NEW i \in Nat, sales' = MarkReversed(s, i)
    PROVE  /\ sales' \in Seq(Sale) /\ Len(sales') = Len(sales)
           /\ DOMAIN sales' = DOMAIN sales
           /\ \A r \in DOMAIN sales :
                  /\ sales'[r].product = sales[r].product
                  /\ sales'[r].quantity = sales[r].quantity
                  /\ sales'[r].user = sales[r].user
                  /\ sales'[r].forOrder = sales[r].forOrder
                  /\ sales'[r].seen = sales[r].seen
                  /\ sales'[r].reversed <=> sales[r].reversed \/ r = s
  <1>1. sales \in Seq(Sale)
    BY DEF TypeOK
  <1>2. CASE s \notin DOMAIN sales
    BY <1>1, <1>2 DEF MarkReversed
  <1>3. CASE s \in DOMAIN sales
    <2> DEFINE e == [sales[s] EXCEPT !.reversed = TRUE]
    <2>1. sales[s] \in Sale
      BY <1>1, <1>3
    <2>2. /\ e \in Sale /\ e.reversed
          /\ e.product = sales[s].product /\ e.quantity = sales[s].quantity
          /\ e.user = sales[s].user /\ e.forOrder = sales[s].forOrder
          /\ e.seen = sales[s].seen
      BY <2>1 DEF Sale
    <2>3. sales' = [sales EXCEPT ![s] = e]
      BY <1>3 DEF MarkReversed
    <2> HIDE DEF e
    <2>4. sales' \in Seq(Sale) /\ Len(sales') = Len(sales) /\ DOMAIN sales' = DOMAIN sales
      BY <1>1, <1>3, <2>2, <2>3, ExceptSeq
    <2>5. sales'[s] = e /\ \A r \in DOMAIN sales \ {s} : sales'[r] = sales[r]
      BY <1>1, <1>3, <2>3
    <2>6. QED
      BY <1>3, <2>2, <2>4, <2>5
  <1>4. QED
    BY <1>2, <1>3

-----------------------------------------------------------------------------
(* Requests. *)

\* An idle request is a request.
LEMMA IdleCall ==
    /\ Idle \in Call
    /\ Idle.pc = "idle" /\ Idle.seen = 0
  <1>1. OrderItems \in Seq(Items) /\ OrderItems # <<>>
    BY StockAssumption
  <1>2. OrderItems[1] \in Items
    BY <1>1
  <1>3. <<>> \in Seq(Items)
    OBVIOUS
  <1>4. OrderItems[1].product \in Products
    BY <1>2 DEF Items
  <1>5. QED
    BY <1>3, <1>4 DEF Idle, Call

\* A request that a step leaves alone stays as it should be.
LEMMA OthersOK ==
    ASSUME TypeOK, RequestsOK, Grows, sales' \in Seq(Sale),
           NEW d \in Calls, tx'[d] = tx[d]
    PROVE  RequestOK(d)'
  <1>1. tx[d] \in Call
    BY DEF TypeOK
  <1>2. tx[d].product \in Products /\ tx[d].seen \in Nat
    BY <1>1 DEF Call
  <1>3. tx[d].pc = "reversing" => tx[d].entry \in DOMAIN ledger'[tx[d].product]
    BY <1>2 DEF RequestsOK, RequestOK, Grows
  <1>4. Len(sales) \in Nat /\ Len(sales') \in Nat /\ DOMAIN sales' = 1 .. Len(sales')
    BY LenProperties DEF TypeOK
  <1>5. tx[d].seen <= Len(sales) /\ tx[d].seen <= Len(sales')
    BY <1>2, <1>4 DEF RequestsOK, RequestOK, Grows
  <1>6. ASSUME tx[d].pc = "selling", tx[d].forOrder, NEW s \in DOMAIN sales',
               sales'[s].forOrder, sales'[s].user = tx[d].user,
               sales'[s].product = Head(tx[d].items).product
        PROVE  s > tx[d].seen
    <2>1. CASE s <= Len(sales)
      BY <1>6, <2>1 DEF RequestsOK, RequestOK, Grows, KeyedSales
    <2>2. CASE ~(s <= Len(sales))
      BY <1>2, <1>4, <1>5, <2>2
    <2>3. QED
      BY <2>1, <2>2
  <1>7. QED
    BY <1>3, <1>5, <1>6 DEF RequestsOK, RequestOK, KeyedSales

\* The end of a request.
LEMMA FinishOK ==
    ASSUME TypeOK, RequestsOK, Grows, sales' \in Seq(Sale), NEW c \in Calls, Finish(c)
    PROVE  tx' \in [Calls -> Call] /\ RequestsOK'
  <1>1. tx' \in [Calls -> Call] /\ tx'[c] = Idle /\ \A d \in Calls \ {c} : tx'[d] = tx[d]
    BY IdleCall DEF Finish, TypeOK
  <1>2. RequestOK(c)'
    BY <1>1, IdleCall, LenProperties DEF RequestOK
  <1>3. QED
    BY <1>1, <1>2, OthersOK DEF RequestsOK

\* On to the next item.
LEMMA NextItemOK ==
    ASSUME TypeOK, RequestsOK, Grows, sales' \in Seq(Sale), NEW c \in Calls,
           tx[c].items # <<>>, tx[c].user \in Users, NextItem(c)
    PROVE  tx' \in [Calls -> Call] /\ RequestsOK'
  <1>1. CASE Len(tx[c].items) = 1
    BY <1>1, FinishOK DEF NextItem
  <1>2. CASE Len(tx[c].items) # 1
    <2> DEFINE t == [tx[c] EXCEPT !.pc = "converting", !.items = Tail(tx[c].items)]
    <2>1. tx[c] \in Call /\ tx[c].items \in Seq(Items)
      BY DEF TypeOK, Call
    <2>2. Tail(tx[c].items) \in Seq(Items) /\ Tail(tx[c].items) # <<>>
      <3>1. /\ Tail(tx[c].items) \in Seq(Items)
            /\ Len(Tail(tx[c].items)) = Len(tx[c].items) - 1
        BY <2>1, HeadTailProperties
      <3>2. Len(tx[c].items) - 1 # 0
        BY <1>2, <2>1, LenProperties
      <3>3. QED
        BY <3>1, <3>2, EmptySeq
    <2>3. /\ t \in Call /\ t.pc = "converting" /\ t.items # <<>> /\ t.seen = tx[c].seen
          /\ t.user = tx[c].user
      BY <2>1, <2>2 DEF Call
    <2>4. tx' = [tx EXCEPT ![c] = t]
      BY <1>2 DEF NextItem
    <2> HIDE DEF t
    <2>5. tx' \in [Calls -> Call] /\ tx'[c] = t /\ \A d \in Calls \ {c} : tx'[d] = tx[d]
      BY <2>3, <2>4 DEF TypeOK
    <2>6. tx[c].seen <= Len(sales')
      BY <2>1, LenProperties DEF RequestsOK, RequestOK, Grows, Call, TypeOK
    <2>7. RequestOK(c)'
      BY <2>3, <2>5, <2>6 DEF RequestOK
    <2>8. QED
      BY <2>5, <2>7, OthersOK DEF RequestsOK
  <1>3. QED
    BY <1>1, <1>2

-----------------------------------------------------------------------------
(* Steps that post an entry.                                                *)

\* EachSalePosted gives every sale its entry.
LEMMA SaleEntry ==
    ASSUME EachSalePosted, NEW s \in DOMAIN sales
    PROVE  \E r, j : PostedAt(s, r, j)
  <1>1. QED
    BY DEF EachSalePosted, PostedAt

\* EachSalePosted of the next state, in terms of PostedAt.
LEMMA SaleEntriesNext ==
    ASSUME \A s \in DOMAIN sales' : \E r, j : PostedAt(s, r, j)'
    PROVE  EachSalePosted'
  <1>1. QED
    BY DEF EachSalePosted, PostedAt

\* The entry of a sale stays its only one when an entry of another sale, or of none, is posted.
LEMMA StaysPosted ==
    ASSUME NEW p \in Products, NEW n, NEW to, NEW change, NEW sale, NEW reverses,
           Posted(p, n, to, change, sale, reverses),
           NEW s, s # sale, NEW r, NEW j, PostedAt(s, r, j),
           sales'[s].product = sales[s].product, sales'[s].quantity = sales[s].quantity
    PROVE  PostedAt(s, r, j)'
  <1>1. /\ r \in Products /\ j \in DOMAIN ledger[r] /\ r = sales[s].product
        /\ ledger[r][j].sale = s /\ ledger[r][j].change = -sales[s].quantity
    BY DEF PostedAt
  <1>2. j \in DOMAIN ledger'[r] /\ ledger'[r][j] = ledger[r][j]
    BY <1>1, PostedLog
  <1>3. ASSUME NEW q \in Products, NEW k \in DOMAIN ledger'[q], ledger'[q][k].sale = s
        PROVE  q = r /\ k = j
    <2>1. CASE k \in DOMAIN ledger[q]
      <3>1. ledger'[q][k] = ledger[q][k]
        BY <2>1, PostedLog
      <3>2. QED
        BY <1>3, <2>1, <3>1 DEF PostedAt
    <2>2. CASE q = p /\ k = n
      BY <1>3, <2>2 DEF Posted
    <2>3. QED
      BY <2>1, <2>2, PostedLog
  <1>4. QED
    BY <1>1, <1>2, <1>3 DEF PostedAt

\* ReversedMeansReversal of the next state, in terms of Returned.
LEMMA ReturnedNext ==
    ASSUME \A s \in DOMAIN sales' : sales'[s].reversed <=> Returned(s)'
    PROVE  ReversedMeansReversal'
  <1>1. ASSUME NEW s \in DOMAIN sales'
        PROVE  sales'[s].reversed <=>
                  \E j \in DOMAIN ledger'[sales'[s].product] :
                      /\ ledger'[sales'[s].product][j].sale = s
                      /\ ReversalsOf(sales[s].product, j)' # {}
    <2> DEFINE Rev(j) == ReversalsOf(sales[s].product, j)' # {}
               Has(j) == \E k \in DOMAIN ledger'[sales'[s].product] :
                             ledger'[sales'[s].product][k].reverses = j
               Its(j) == ledger'[sales'[s].product][j].sale = s
    <2>1. \A j : Rev(j) <=> Has(j)
      BY DEF ReversalsOf
    <2>2. sales'[s].reversed <=> \E j \in DOMAIN ledger'[sales'[s].product] : Its(j) /\ Has(j)
      BY DEF Returned
    <2> HIDE DEF Rev, Has, Its
    <2>3. sales'[s].reversed <=> \E j \in DOMAIN ledger'[sales'[s].product] : Its(j) /\ Rev(j)
      BY <2>1, <2>2, Zenon
    <2>4. QED
      BY <2>3 DEF Its, Rev
  <1>2. QED
    BY <1>1, Zenon DEF ReversedMeansReversal

\* A sale that was there before stays marked exactly when it has been returned.
LEMMA ReturnedStep ==
    ASSUME TypeOK, ReversedMeansReversal,
           NEW p \in Products, NEW to \in Int, NEW change \in Int, NEW sale \in Nat,
           NEW i \in 0 .. Len(ledger[p]), Posts(p, to, change, sale, i),
           NEW s \in DOMAIN sales, NEW r, NEW j, PostedAt(s, r, j), PostedAt(s, r, j)',
           sales'[s].reversed <=> sales[s].reversed \/ (r = p /\ j = i)
    PROVE  sales'[s].reversed <=> Returned(s)'
  <1> DEFINE HasReversal  == \E k \in DOMAIN ledger[r] : ledger[r][k].reverses = j
             HasReversalN == \E k \in DOMAIN ledger'[r] : ledger'[r][k].reverses = j
  <1>1. /\ r \in Products /\ j \in DOMAIN ledger[r] /\ r = sales[s].product
        /\ ledger[r][j].sale = s
        /\ \A k \in DOMAIN ledger[r] : ledger[r][k].sale = s => k = j
    BY DEF PostedAt
  <1>2. /\ j \in DOMAIN ledger'[r] /\ ledger'[r][j].sale = s /\ sales'[s].product = r
        /\ \A k \in DOMAIN ledger'[r] : ledger'[r][k].sale = s => k = j
    BY DEF PostedAt
  <1>3. sales[s].reversed <=> HasReversal
    <2>1. sales[s].reversed <=>
              \E k \in DOMAIN ledger[sales[s].product] :
                  /\ ledger[sales[s].product][k].sale = s
                  /\ ReversalsOf(sales[s].product, k) # {}
      BY Zenon DEF ReversedMeansReversal
    <2>2. r = sales[s].product
      BY <1>1
    <2>3. sales[s].reversed <=>
              \E k \in DOMAIN ledger[r] : ledger[r][k].sale = s /\ ReversalsOf(r, k) # {}
      BY <2>1, <2>2, Zenon
    <2>4. ReversalsOf(r, j) # {} <=> HasReversal
      BY DEF ReversalsOf
    <2> HIDE DEF HasReversal
    <2>5. QED
      BY <1>1, <2>3, <2>4
  <1>4. HasReversalN <=> HasReversal \/ (r = p /\ j = i)
    <2>1. \A q \in Products : \A m \in DOMAIN ledger[q] :
              (\E k \in DOMAIN ledger'[q] : ledger'[q][k].reverses = m) <=>
                  (\E k \in DOMAIN ledger[q] : ledger[q][k].reverses = m)
                  \/ (q = p /\ m = i)
      BY ReversalsEffect, SMTT(30)
    <2>2. QED
      BY <1>1, <2>1
  <1>5. sales'[s].reversed <=> HasReversalN
    <2> HIDE DEF HasReversal, HasReversalN
    <2>1. QED
      BY <1>3, <1>4
  <1>6. (\E m \in DOMAIN ledger'[r] :
             /\ ledger'[r][m].sale = s
             /\ \E k \in DOMAIN ledger'[r] : ledger'[r][k].reverses = m) <=> HasReversalN
    BY <1>2
  <1>7. sales'[s].product = r
    BY <1>2
  <1> HIDE DEF HasReversalN
  <1>8. QED
    BY <1>5, <1>6, <1>7, Zenon DEF Returned

\* An entry without a sale (a restock, an adjustment, or a reversal, which marks the
\* sale of the entry it reverses) keeps everything that is said about log and sales.
LEMMA PostInv ==
    ASSUME IInv, UNCHANGED sold,
           NEW p \in Products, NEW to \in Nat, NEW change \in Int \ {0},
           NEW i \in 0 .. Len(ledger[p]), Posts(p, to, change, 0, i),
           sales' \in Seq(Sale), Len(sales') = Len(sales), DOMAIN sales' = DOMAIN sales,
           \A s \in DOMAIN sales :
               /\ sales'[s].product = sales[s].product
               /\ sales'[s].quantity = sales[s].quantity
               /\ sales'[s].user = sales[s].user
               /\ sales'[s].forOrder = sales[s].forOrder
               /\ sales'[s].seen = sales[s].seen
               /\ sales'[s].reversed <=>
                      sales[s].reversed \/ (i # 0 /\ ledger[p][i].sale = s)
    PROVE  /\ tx' \in [Calls -> Call] => TypeOK'
           /\ StockOK' /\ EachSalePosted' /\ ReversedMeansReversal' /\ RetrySellsOnce'
           /\ Grows
  <1> DEFINE n == Len(ledger[p]) + 1
  <1>1. TypeOK /\ StockOK /\ EachSalePosted /\ ReversedMeansReversal /\ RetrySellsOnce
    BY DEF IInv
  <1>2. i \in Nat /\ i < n
    BY <1>1, LenProperties DEF TypeOK
  <1>3. Posted(p, n, to, change, 0, i)
    BY <1>1, <1>2, PostsEffect
  <1> HIDE DEF n
  <1>4. \A r \in Products : /\ DOMAIN ledger[r] \subseteq DOMAIN ledger'[r]
                            /\ \A j \in DOMAIN ledger[r] : ledger'[r][j] = ledger[r][j]
                            /\ \A j \in DOMAIN ledger'[r] :
                                   j \in DOMAIN ledger[r] \/ (r = p /\ j = n)
    BY <1>3, PostedLog
  <1>5. Grows
    BY <1>1, <1>4, LenProperties DEF Grows, TypeOK
  <1>6. ASSUME tx' \in [Calls -> Call]
        PROVE  TypeOK'
    <2>1. ASSUME NEW r \in Products, NEW j \in DOMAIN ledger'[r]
          PROVE  ledger'[r][j].sale \in 0 .. Len(sales') /\ ledger'[r][j].reverses \in 0 .. j - 1
      <3>1. CASE j \in DOMAIN ledger[r]
        BY <1>1, <1>4, <3>1 DEF TypeOK
      <3>2. CASE r = p /\ j = n
        BY <1>1, <1>2, <1>3, <3>2, LenProperties DEF Posted, TypeOK
      <3>3. QED
        BY <1>4, <3>1, <3>2
    <2>2. QED
      BY <1>1, <1>3, <1>6, <2>1 DEF TypeOK, Posted
  <1>7. StockOK'
    <2>1. ASSUME NEW r \in Products
          PROVE  stock'[r] >= 0
      <3>1. CASE r = p
        BY <1>3, <3>1 DEF Posted
      <3>2. CASE r # p
        BY <1>1, <1>3, <3>2 DEF StockOK, Posted
      <3>3. QED
        BY <3>1, <3>2
    <2>2. \A r \in Products : \A j \in DOMAIN ledger'[r] : ledger'[r][j].change # 0
      <3>1. ledger'[p][n].change # 0
        BY <1>3 DEF Posted
      <3>2. QED
        BY <1>1, <1>4, <3>1 DEF StockOK
    <2>3. QED
      BY <2>1, <2>2 DEF StockOK
  <1>8. ASSUME NEW s \in DOMAIN sales, NEW r, NEW j, PostedAt(s, r, j)
        PROVE  PostedAt(s, r, j)'
    <2>1. s # 0
      BY <1>1, LenProperties DEF TypeOK
    <2>2. QED
      BY <1>3, <1>8, <2>1, StaysPosted
  <1>9. EachSalePosted'
    <2>1. \A s \in DOMAIN sales : \E r, j : PostedAt(s, r, j)
      BY <1>1 DEF EachSalePosted, PostedAt
    <2>2. \A s \in DOMAIN sales : \E r, j : PostedAt(s, r, j)'
      BY <1>8, <2>1
    <2>3. QED
      BY <2>2 DEF EachSalePosted, PostedAt
  <1>10. ReversedMeansReversal'
    <2>1. ASSUME NEW s \in DOMAIN sales
          PROVE  sales'[s].reversed <=> Returned(s)'
      <3>1. PICK r, j : PostedAt(s, r, j)
        BY <1>1 DEF EachSalePosted, PostedAt
      <3>2. PostedAt(s, r, j)'
        BY <1>8, <3>1
      <3>3. (i # 0 /\ ledger[p][i].sale = s) <=> (r = p /\ j = i)
        <4>1. i # 0 => i \in DOMAIN ledger[p]
          BY <1>2, <1>3 DEF Posted
        <4>2. 0 \notin DOMAIN ledger[p]
          BY <1>3 DEF Posted
        <4>3. QED
          BY <3>1, <4>1, <4>2 DEF PostedAt
      <3>4. sales'[s].reversed <=> sales[s].reversed \/ (i # 0 /\ ledger[p][i].sale = s)
        OBVIOUS
      <3>5. sales'[s].reversed <=> sales[s].reversed \/ (r = p /\ j = i)
        BY <3>3, <3>4
      <3>6. QED
        BY <1>1, <3>1, <3>2, <3>5, ReturnedStep
    <2>2. QED
      BY <2>1, ReturnedNext
  <1>11. RetrySellsOnce'
    BY <1>1 DEF RetrySellsOnce
  <1>12. QED
    BY <1>5, <1>6, <1>7, <1>9, <1>10, <1>11

\* A sale with its entry keeps everything that is said about log and sales, provided
\* that the sales under its key are younger than the look of its request for one.
LEMMA SellInv ==
    ASSUME IInv, sold' \in [Products -> Nat],
           NEW p \in Products, NEW q \in Nat \ {0},
           NEW to \in Nat, NEW change \in Int \ {0}, change = -q,
           NEW m \in Nat \ {0}, m = Len(sales) + 1, Posts(p, to, change, m, 0),
           NEW new \in Sale, sales' = Append(sales, new),
           new.product = p, new.quantity = q, new.reversed = FALSE,
           new.forOrder => \A s \in KeyedSales(new.user, p) : new.seen < s
    PROVE  /\ tx' \in [Calls -> Call] => TypeOK'
           /\ StockOK' /\ EachSalePosted' /\ ReversedMeansReversal' /\ RetrySellsOnce'
           /\ Grows /\ sales' \in Seq(Sale)
  <1>0. PICK n : n = Len(ledger[p]) + 1
    OBVIOUS
  <1>1. TypeOK /\ StockOK /\ EachSalePosted /\ ReversedMeansReversal /\ RetrySellsOnce
    BY DEF IInv
  <1>2. /\ m - 1 = Len(sales)
        /\ sales' \in Seq(Sale) /\ Len(sales') = m /\ DOMAIN sales' = 1 .. m
        /\ DOMAIN sales = 1 .. m - 1
        /\ sales'[m] = new
        /\ \A s \in DOMAIN sales : sales'[s] = sales[s] /\ s # m /\ s \in DOMAIN sales'
        /\ \A s \in DOMAIN sales' : s \in DOMAIN sales \/ s = m
    <2>1. sales \in Seq(Sale)
      BY <1>1 DEF TypeOK
    <2>2. QED
      BY <2>1, AppendProperties, LenProperties
  <1>3. Len(ledger[p]) \in Nat
    BY <1>1, LenProperties DEF TypeOK
  <1>4. Posted(p, n, to, change, m, 0)
    BY <1>0, <1>1, PostsEffect
  <1>5. 0 \in 0 .. Len(ledger[p]) /\ 0 # n /\ n \in Nat \ {0}
    BY <1>0, <1>3
  <1>6. \A k \in DOMAIN ledger'[p] : ledger'[p][k].reverses # n
    BY <1>0, <1>1, <1>5, ReversalsEffect
  <1>7. ASSUME NEW s \in DOMAIN sales, NEW r, NEW j, PostedAt(s, r, j)
        PROVE  PostedAt(s, r, j)'
    BY <1>2, <1>4, <1>7, StaysPosted
  <1>8. ASSUME NEW s \in DOMAIN sales
        PROVE  sales'[s].reversed <=> Returned(s)'
    <2>1. PICK r, j : PostedAt(s, r, j)
      BY <1>1, SaleEntry
    <2>2. j # 0
      BY <1>1, <2>1, LenProperties, SMTT(30) DEF PostedAt, TypeOK
    <2>3. PostedAt(s, r, j)'
      BY <1>7, <2>1
    <2>4. sales'[s].reversed <=> sales[s].reversed \/ (r = p /\ j = 0)
      BY <1>2, <2>2
    <2>5. QED
      BY <1>1, <1>2, <1>3, <1>5, <2>1, <2>3, <2>4, ReturnedStep
  <1>9. \A r \in Products : /\ DOMAIN ledger[r] \subseteq DOMAIN ledger'[r]
                            /\ \A j \in DOMAIN ledger[r] : ledger'[r][j] = ledger[r][j]
                            /\ \A j \in DOMAIN ledger'[r] :
                                   j \in DOMAIN ledger[r] \/ (r = p /\ j = n)
    BY <1>4, PostedLog
  <1>10. Grows
    BY <1>2, <1>9 DEF Grows
  <1>11. \A r \in Products : \A j \in DOMAIN ledger[r] :
             ledger[r][j].sale \in 0 .. m - 1 /\ ledger[r][j].sale \in 0 .. m
    BY <1>1, <1>2, SMTT(30) DEF TypeOK
  <1>12. ASSUME tx' \in [Calls -> Call]
         PROVE  TypeOK'
    <2>1. ASSUME NEW r \in Products, NEW j \in DOMAIN ledger'[r]
          PROVE  ledger'[r][j].sale \in 0 .. Len(sales') /\ ledger'[r][j].reverses \in 0 .. j - 1
      <3>1. CASE j \in DOMAIN ledger[r]
        <4>1. ledger[r][j].sale \in 0 .. m /\ ledger[r][j].reverses \in 0 .. j - 1
          BY <1>1, <1>11, <3>1 DEF TypeOK
        <4>2. QED
          BY <1>2, <1>9, <3>1, <4>1
      <3>2. CASE r = p /\ j = n
        BY <1>2, <1>4, <1>5, <3>2 DEF Posted
      <3>3. QED
        BY <1>9, <3>1, <3>2
    <2>2. QED
      BY <1>2, <1>4, <1>12, <2>1 DEF TypeOK, Posted
  <1>13. StockOK'
    <2>1. ASSUME NEW r \in Products
          PROVE  stock'[r] >= 0
      <3>1. CASE r = p
        BY <1>4, <3>1 DEF Posted
      <3>2. CASE r # p
        BY <1>1, <1>4, <3>2 DEF StockOK, Posted
      <3>3. QED
        BY <3>1, <3>2
    <2>2. \A r \in Products : \A j \in DOMAIN ledger'[r] : ledger'[r][j].change # 0
      <3>1. ledger'[p][n].change # 0
        BY <1>4 DEF Posted
      <3>2. QED
        BY <1>1, <1>9, <3>1, SMTT(30) DEF StockOK
    <2>3. QED
      BY <2>1, <2>2 DEF StockOK
  <1>14. PostedAt(m, p, n)'
    <2>1. n \in DOMAIN ledger'[p] /\ ledger'[p][n].sale = m /\ ledger'[p][n].change = change
      BY <1>4, PostedLog DEF Posted
    <2>2. ASSUME NEW r \in Products, NEW k \in DOMAIN ledger'[r], ledger'[r][k].sale = m
          PROVE  r = p /\ k = n
      <3>1. k \notin DOMAIN ledger[r]
        BY <1>9, <1>11, <2>2
      <3>2. QED
        BY <1>9, <3>1
    <2>3. QED
      <3>1. sales'[m].product = p /\ change = -sales'[m].quantity
        BY <1>2
      <3>2. QED
        BY <2>1, <2>2, <3>1 DEF PostedAt
  <1>15. EachSalePosted'
    <2>1. \A s \in DOMAIN sales' : \E r, j : PostedAt(s, r, j)'
      BY <1>1, <1>2, <1>7, <1>14, SaleEntry
    <2>2. QED
      BY <2>1, SaleEntriesNext
  <1>16. ReversedMeansReversal'
    <2>1. ~sales'[m].reversed
      BY <1>2
    <2>2. ~Returned(m)'
      <3>1. /\ sales'[m].product = p
            /\ \A k \in DOMAIN ledger'[p] : ledger'[p][k].sale = m => k = n
        BY <1>2, <1>14 DEF PostedAt
      <3>2. QED
        BY <1>6, <3>1 DEF Returned
    <2>3. \A s \in DOMAIN sales' : sales'[s].reversed <=> Returned(s)'
      BY <1>2, <1>8, <2>1, <2>2
    <2>4. QED
      BY <2>3, ReturnedNext
  <1>17. RetrySellsOnce'
    <2>1. ASSUME NEW s \in DOMAIN sales', NEW t \in DOMAIN sales', s < t,
                 sales'[s].forOrder, sales'[t].forOrder,
                 sales'[s].user = sales'[t].user, sales'[s].product = sales'[t].product
          PROVE  sales'[t].seen < s
      <3>1. CASE t \in DOMAIN sales
        BY <1>1, <1>2, <2>1, <3>1 DEF RetrySellsOnce
      <3>2. CASE t = m
        <4>1. s \in DOMAIN sales
          BY <1>2, <2>1, <3>2
        <4>2. QED
          BY <1>2, <2>1, <3>2, <4>1 DEF KeyedSales
      <3>3. QED
        BY <1>2, <3>1, <3>2
    <2>2. QED
      BY <2>1 DEF RetrySellsOnce
  <1>18. QED
    BY <1>2, <1>10, <1>12, <1>13, <1>15, <1>16, <1>17

-----------------------------------------------------------------------------
(* Every step keeps the inductive invariant. *)

\* A step that changes no table keeps it, if the requests stay as they should be.
LEMMA ReadInv ==
    ASSUME IInv, UNCHANGED <<stock, sold, ledger, sales>>,
           tx' \in [Calls -> Call], RequestsOK'
    PROVE  IInv'
  <1>1. TypeOK' /\ StockOK' /\ RetrySellsOnce'
    BY DEF IInv, TypeOK, StockOK, RetrySellsOnce
  <1>2. EachSalePosted'
    BY DEF IInv, EachSalePosted
  <1>3. ReversedMeansReversal'
    BY DEF IInv, ReversedMeansReversal, ReversalsOf
  <1>4. QED
    BY <1>1, <1>2, <1>3 DEF IInv

\* A request that starts is as it should be.
LEMMA BeginInv ==
    ASSUME IInv, UNCHANGED <<stock, sold, ledger, sales>>,
           NEW c \in Calls, NEW t \in Call, tx' = [tx EXCEPT ![c] = t],
           t.pc \in {"converting", "selling"} => t.items # <<>> /\ t.user \in Users,
           t.pc = "selling" => ~t.forOrder,
           t.pc = "reversing" => t.entry \in DOMAIN ledger[t.product],
           t.seen <= Len(sales)
    PROVE  IInv'
  <1>1. TypeOK /\ RequestsOK
    BY DEF IInv
  <1>2. tx' \in [Calls -> Call] /\ tx'[c] = t /\ \A d \in Calls \ {c} : tx'[d] = tx[d]
    BY <1>1 DEF TypeOK
  <1>3. Grows /\ sales' \in Seq(Sale)
    BY <1>1, LenProperties DEF Grows, TypeOK
  <1>4. RequestOK(c)'
    BY <1>2 DEF RequestOK
  <1>5. QED
    BY <1>1, <1>2, <1>3, <1>4, OthersOK, ReadInv DEF RequestsOK

\* The start of a conversion of the order.
LEMMA ConvertBeginInv ==
    ASSUME IInv, NEW c \in Calls, NEW u \in Users, ConvertBegin(c, u)
    PROVE  IInv'
  <1> DEFINE t == [Idle EXCEPT !.pc = "converting", !.user = u,
                               !.items = OrderItems, !.forOrder = TRUE]
  <1>1. OrderItems \in Seq(Items) /\ OrderItems # <<>>
    BY StockAssumption
  <1>2. /\ t \in Call /\ t.pc = "converting" /\ t.items # <<>> /\ t.seen = 0
        /\ t.user = u
    BY <1>1, IdleCall DEF Call, Idle
  <1>3. Len(sales) \in Nat
    BY LenProperties DEF IInv, TypeOK
  <1>4. tx' = [tx EXCEPT ![c] = t] /\ UNCHANGED <<stock, sold, ledger, sales>>
    BY DEF ConvertBegin
  <1>5. PICK x : x = t
    OBVIOUS
  <1> HIDE DEF t
  <1>6. QED
    <2>1. /\ x \in Call /\ tx' = [tx EXCEPT ![c] = x]
          /\ x.pc \in {"converting", "selling"} => x.items # <<>> /\ x.user \in Users
          /\ x.pc # "selling" /\ x.pc # "reversing" /\ x.seen <= Len(sales)
      BY <1>2, <1>3, <1>4, <1>5
    <2>2. QED
      BY <1>4, <2>1, BeginInv

\* The reads of a sale from the form or the slash command.
LEMMA SellBeginInv ==
    ASSUME IInv, NEW c \in Calls, NEW u \in Users, NEW p \in Products,
           NEW q \in Quantities, SellBegin(c, u, p, q)
    PROVE  IInv'
  <1> DEFINE i == [product |-> p, quantity |-> q]
             t == [Idle EXCEPT !.pc = "selling", !.user = u, !.items = <<i>>,
                               !.before = stock[p], !.seen = Len(sales)]
  <1>1. q \in Nat \ {0}
    BY StockAssumption
  <1>2. <<i>> \in Seq(Items) /\ <<i>> # <<>>
    BY <1>1 DEF Items
  <1>3. Len(sales) \in Nat /\ stock[p] \in Int
    BY LenProperties DEF IInv, TypeOK
  <1> HIDE DEF i
  <1>4. /\ t \in Call /\ t.pc = "selling" /\ t.items # <<>> /\ t.seen = Len(sales)
        /\ ~t.forOrder /\ t.user = u
    BY <1>2, <1>3, IdleCall DEF Call, Idle
  <1>5. tx' = [tx EXCEPT ![c] = t] /\ UNCHANGED <<stock, sold, ledger, sales>>
    BY DEF SellBegin, i
  <1>6. PICK x : x = t
    OBVIOUS
  <1> HIDE DEF t
  <1>7. QED
    <2>1. /\ x \in Call /\ tx' = [tx EXCEPT ![c] = x]
          /\ x.items # <<>> /\ x.user \in Users /\ x.pc # "reversing" /\ x.seen <= Len(sales)
          /\ x.pc = "selling" => ~x.forOrder
      BY <1>3, <1>4, <1>5, <1>6
    <2>2. QED
      BY <1>5, <2>1, BeginInv

\* The reads of a reversal.
LEMMA ReverseBeginInv ==
    ASSUME IInv, NEW c \in Calls, NEW p \in Products, NEW i \in DOMAIN ledger[p],
           ReverseBegin(c, p, i)
    PROVE  IInv'
  <1> DEFINE t == [Idle EXCEPT !.pc = "reversing", !.product = p, !.entry = i]
  <1>1. Len(sales) \in Nat /\ i \in Nat
    BY LenProperties DEF IInv, TypeOK
  <1>2. /\ t \in Call /\ t.pc = "reversing" /\ t.product = p /\ t.entry = i /\ t.seen = 0
    BY <1>1, IdleCall DEF Call, Idle
  <1>3. tx' = [tx EXCEPT ![c] = t] /\ UNCHANGED <<stock, sold, ledger, sales>>
    BY DEF ReverseBegin
  <1>4. PICK x : x = t
    OBVIOUS
  <1> HIDE DEF t
  <1>5. QED
    <2>1. /\ x \in Call /\ tx' = [tx EXCEPT ![c] = x]
          /\ x.pc \notin {"converting", "selling"} /\ x.seen <= Len(sales)
          /\ x.pc = "reversing" => x.entry \in DOMAIN ledger[x.product]
      BY <1>1, <1>2, <1>3, <1>4
    <2>2. QED
      BY <1>3, <2>1, BeginInv

\* The reads for the next item: a sale found, no stock, or a sale to commit. The
\* request that goes on to sell has found none under its key, so none is older than its look.
LEMMA ConvertReadInv ==
    ASSUME IInv, NEW c \in Calls, ConvertRead(c)
    PROVE  IInv'
  <1> DEFINE item  == Head(tx[c].items)
             found == KeyedSales(tx[c].user, item.product)
             t     == [tx[c] EXCEPT !.pc = "selling", !.before = stock[item.product],
                                    !.seen = Len(sales)]
  <1>1. TypeOK /\ RequestsOK /\ UNCHANGED <<stock, sold, ledger, sales>>
    BY DEF IInv, ConvertRead
  <1>2. Grows /\ sales' \in Seq(Sale)
    BY <1>1, LenProperties DEF Grows, TypeOK
  <1>3. tx[c].items # <<>> /\ tx[c].user \in Users /\ tx[c] \in Call /\ tx[c].items \in Seq(Items)
    BY <1>1 DEF ConvertRead, RequestsOK, RequestOK, TypeOK, Call
  <1>4. CASE NextItem(c)
    BY <1>1, <1>2, <1>3, <1>4, NextItemOK, ReadInv
  <1>5. CASE Finish(c)
    BY <1>1, <1>2, <1>5, FinishOK, ReadInv
  <1>6. CASE Cardinality(found) = 0 /\ tx' = [tx EXCEPT ![c] = t]
    <2>1. item.product \in Products
      <3>1. item \in Items
        BY <1>3, HeadTailProperties
      <3>2. QED
        BY <3>1 DEF Items
    <2>2. stock[item.product] \in Int /\ Len(sales) \in Nat /\ DOMAIN sales = 1 .. Len(sales)
      BY <1>1, <2>1, LenProperties DEF TypeOK
    <2>3. found = {}
      <3>1. IsFiniteSet(DOMAIN sales)
        BY <2>2, FS_Interval
      <3>2. IsFiniteSet(found)
        BY <3>1, FS_Subset DEF KeyedSales
      <3>3. QED
        BY <1>6, <3>2, FS_EmptySet
    <2>4. /\ t \in Call /\ t.pc = "selling" /\ t.items = tx[c].items /\ t.seen = Len(sales)
          /\ t.user = tx[c].user
      BY <1>3, <2>2 DEF Call
    <2> HIDE DEF t
    <2>5. tx' \in [Calls -> Call] /\ tx'[c] = t /\ \A d \in Calls \ {c} : tx'[d] = tx[d]
      BY <1>1, <1>6, <2>4 DEF TypeOK
    <2>6. KeyedSales(tx[c].user, item.product)' = {}
      <3>1. tx'[c].user = tx[c].user /\ tx'[c].items = tx[c].items
        BY <2>4, <2>5
      <3>2. QED
        BY <1>1, <2>3, <3>1 DEF KeyedSales
    <2>7. RequestOK(c)'
      BY <1>1, <1>3, <2>2, <2>4, <2>5, <2>6 DEF RequestOK
    <2>8. QED
      BY <1>1, <1>2, <2>5, <2>7, OthersOK, ReadInv DEF RequestsOK
  <1>7. QED
    BY <1>4, <1>5, <1>6 DEF ConvertRead

\* The commit of a sale, or its end when the stock has dropped.
LEMMA SellCommitInv ==
    ASSUME IInv, NEW c \in Calls, SellCommit(c)
    PROVE  IInv'
  <1>1. TypeOK /\ RequestsOK /\ StockOK
    BY DEF IInv
  <1>2. tx[c].items # <<>> /\ tx[c].user \in Users /\ tx[c] \in Call /\ tx[c].items \in Seq(Items)
    BY <1>1 DEF SellCommit, RequestsOK, RequestOK, TypeOK, Call
  <1>3. PICK p, q : p = Head(tx[c].items).product /\ q = Head(tx[c].items).quantity
    OBVIOUS
  <1>4. p \in Products /\ q \in Nat \ {0}
    <2>1. Head(tx[c].items) \in Items
      BY <1>2, HeadTailProperties
    <2>2. QED
      BY <1>3, <2>1 DEF Items
  <1>5. CASE InStock(c, p, q)
    <2> DEFINE s == [product |-> p, quantity |-> q, user |-> tx[c].user,
                     forOrder |-> tx[c].forOrder, reversed |-> FALSE, seen |-> tx[c].seen]
    <2>1. /\ Posts(p, stock[p] - q, -q, Len(sales) + 1, 0)
          /\ sold' = [sold EXCEPT ![p] = @ + q]
          /\ sales' = Append(sales, s)
          /\ NextItem(c)
      BY <1>3, <1>5 DEF SellCommit, Deducted, SaleId
    <2>2. PICK to, change, m : to = stock[p] - q /\ change = -q /\ m = Len(sales) + 1
      OBVIOUS
    <2>3. to \in Nat /\ change \in Int \ {0} /\ m \in Nat \ {0}
      BY <1>1, <1>4, <1>5, <2>2, LenProperties DEF InStock, TypeOK
    <2>4. sold' \in [Products -> Nat]
      BY <1>1, <1>4, <2>1 DEF TypeOK
    <2>5. PICK new : new = s
      OBVIOUS
    <2>6. /\ new \in Sale /\ sales' = Append(sales, new)
          /\ new.product = p /\ new.quantity = q /\ new.reversed = FALSE
          /\ new.user = tx[c].user /\ new.forOrder = tx[c].forOrder /\ new.seen = tx[c].seen
      BY <1>2, <1>4, <2>1, <2>5 DEF Sale, Call
    <2> HIDE DEF s
    <2>7. new.forOrder => \A r \in KeyedSales(new.user, p) : new.seen < r
      BY <1>1, <1>2, <1>3, <2>6 DEF RequestsOK, RequestOK, SellCommit
    <2>8. Posts(p, to, change, m, 0)
      BY <2>1, <2>2
    <2>9. /\ tx' \in [Calls -> Call] => TypeOK'
          /\ StockOK' /\ EachSalePosted' /\ ReversedMeansReversal' /\ RetrySellsOnce'
          /\ Grows /\ sales' \in Seq(Sale)
      BY <1>4, <2>2, <2>3, <2>4, <2>6, <2>7, <2>8, SellInv
    <2>10. tx' \in [Calls -> Call] /\ RequestsOK'
      <3>1. Grows /\ sales' \in Seq(Sale) /\ NextItem(c)
        BY <2>1, <2>9
      <3>2. QED
        BY <1>1, <1>2, <3>1, NextItemOK
    <2>11. QED
      BY <2>9, <2>10 DEF IInv
  <1>6. CASE ~InStock(c, p, q)
    <2>1. Finish(c) /\ UNCHANGED <<stock, sold, ledger, sales>>
      BY <1>3, <1>6 DEF SellCommit
    <2>2. Grows /\ sales' \in Seq(Sale)
      BY <1>1, <2>1, LenProperties DEF Grows, TypeOK
    <2>3. QED
      BY <1>1, <2>1, <2>2, FinishOK, ReadInv
  <1>7. QED
    BY <1>5, <1>6

\* An entry without a sale, posted by a request that is a single UPDATE.
LEMMA PlainPostInv ==
    ASSUME IInv, NEW p \in Products, NEW change \in Int \ {0}, stock[p] + change >= 0,
           Posts(p, stock[p] + change, change, 0, 0), UNCHANGED <<sold, sales, tx>>
    PROVE  IInv'
  <1>1. TypeOK /\ RequestsOK
    BY DEF IInv
  <1>2. PICK to : to = stock[p] + change
    OBVIOUS
  <1>3. to \in Nat /\ 0 \in 0 .. Len(ledger[p])
    BY <1>1, <1>2, LenProperties DEF TypeOK
  <1>4. sales' \in Seq(Sale) /\ tx' \in [Calls -> Call]
    BY <1>1 DEF TypeOK
  <1>5. Posts(p, to, change, 0, 0)
    BY <1>2
  <1>6. /\ TypeOK' /\ StockOK' /\ EachSalePosted' /\ ReversedMeansReversal'
        /\ RetrySellsOnce' /\ Grows
    BY <1>3, <1>4, <1>5, PostInv
  <1>7. RequestsOK'
    BY <1>1, <1>4, <1>6, OthersOK DEF RequestsOK
  <1>8. QED
    BY <1>6, <1>7 DEF IInv

\* A restock only adds.
LEMMA RestockInv ==
    ASSUME IInv, NEW p \in Products, NEW q \in Quantities, Restock(p, q)
    PROVE  IInv'
  <1>1. q \in Int \ {0} /\ stock[p] + q >= 0
    BY StockAssumption DEF IInv, StockOK, TypeOK
  <1>2. QED
    BY <1>1, PlainPostInv DEF Restock

\* An adjustment is refused when it would leave less than nothing.
LEMMA AdjustInv ==
    ASSUME IInv, NEW p \in Products, NEW d \in Int \ {0}, Adjust(p, d)
    PROVE  IInv'
  <1>1. QED
    BY PlainPostInv DEF Adjust

\* The commit of a reversal, or its end when there is too little stock to take back.
LEMMA ReverseCommitInv ==
    ASSUME IInv, NEW c \in Calls, ReverseCommit(c)
    PROVE  IInv'
  <1>1. TypeOK /\ RequestsOK /\ StockOK
    BY DEF IInv
  <1>2. PICK p, i : p = tx[c].product /\ i = tx[c].entry
    OBVIOUS
  <1>3. tx[c] \in Call /\ p \in Products /\ i \in DOMAIN ledger[p]
    BY <1>1, <1>2 DEF ReverseCommit, RequestsOK, RequestOK, TypeOK, Call
  <1>4. PICK s, change : s = ledger[p][i].sale /\ change = -ledger[p][i].change
    OBVIOUS
  <1>5. /\ change \in Int \ {0} /\ s \in Nat
        /\ i \in Nat \ {0} /\ i \in 0 .. Len(ledger[p])
        /\ stock[p] \in Nat
    <2>1. ledger[p] \in Seq(Entry)
      BY <1>1, <1>3 DEF TypeOK
    <2>2. ledger[p][i] \in Entry /\ i \in 1 .. Len(ledger[p]) /\ Len(ledger[p]) \in Nat
      BY <1>3, <2>1, LenProperties
    <2>3. QED
      BY <1>1, <1>3, <1>4, <2>2, SMTT(30) DEF Entry, StockOK, TypeOK
  <1>6. CASE UNCHANGED <<stock, ledger, sales>>
    <2>1. Finish(c) /\ UNCHANGED <<stock, sold, ledger, sales>>
      BY <1>6 DEF ReverseCommit
    <2>2. Grows /\ sales' \in Seq(Sale)
      BY <1>1, <2>1, LenProperties DEF Grows, TypeOK
    <2>3. QED
      BY <1>1, <2>1, <2>2, FinishOK, ReadInv
  <1>7. CASE /\ change < 0 => stock[p] >= -change
             /\ Posts(p, stock[p] + change, change, 0, i)
             /\ sales' = MarkReversed(s, i)
    <2>1. Finish(c) /\ UNCHANGED sold
      BY DEF ReverseCommit
    <2>2. PICK to : to = stock[p] + change
      OBVIOUS
    <2>3. to \in Nat /\ Posts(p, to, change, 0, i)
      BY <1>5, <1>7, <2>2
    <2>4. /\ sales' \in Seq(Sale) /\ Len(sales') = Len(sales)
          /\ DOMAIN sales' = DOMAIN sales
          /\ \A r \in DOMAIN sales :
                 /\ sales'[r].product = sales[r].product
                 /\ sales'[r].quantity = sales[r].quantity
                 /\ sales'[r].user = sales[r].user
                 /\ sales'[r].forOrder = sales[r].forOrder
                 /\ sales'[r].seen = sales[r].seen
                 /\ sales'[r].reversed <=> sales[r].reversed \/ r = s
      BY <1>1, <1>5, <1>7, MarkReversedEffect
    <2>5. \A r \in DOMAIN sales :
              sales'[r].reversed <=> sales[r].reversed \/ (i # 0 /\ ledger[p][i].sale = r)
      BY <1>4, <1>5, <2>4
    <2>6. /\ tx' \in [Calls -> Call] => TypeOK'
          /\ StockOK' /\ EachSalePosted' /\ ReversedMeansReversal' /\ RetrySellsOnce'
          /\ Grows
      BY <1>3, <1>5, <2>1, <2>3, <2>4, <2>5, PostInv
    <2>7. tx' \in [Calls -> Call] /\ RequestsOK'
      BY <1>1, <2>1, <2>4, <2>6, FinishOK
    <2>8. QED
      BY <2>6, <2>7 DEF IInv
  <1>8. QED
    BY <1>2, <1>4, <1>6, <1>7 DEF ReverseCommit

\* A stop of the server forgets the requests, and no row.
LEMMA CrashInv ==
    ASSUME IInv, Crash
    PROVE  IInv'
  <1>1. tx' \in [Calls -> Call] /\ \A c \in Calls : tx'[c] = Idle
    BY IdleCall DEF Crash
  <1>2. Len(sales) \in Nat /\ UNCHANGED <<stock, sold, ledger, sales>>
    BY LenProperties DEF IInv, TypeOK, Crash
  <1>3. RequestsOK'
    BY <1>1, <1>2, IdleCall DEF RequestsOK, RequestOK
  <1>4. QED
    BY <1>1, <1>2, <1>3, ReadInv

\* The initial stock and its log satisfy the inductive invariant.
LEMMA InvInit == Init => IInv
  <1> SUFFICES ASSUME Init PROVE IInv
    OBVIOUS
  <1> DEFINE first(p) == [change |-> InitialStock[p], sale |-> 0, reverses |-> 0]
  <1>1. sales = <<>> /\ stock = InitialStock /\ InitialStock \in [Products -> Nat]
    BY StockAssumption DEF Init
  <1>2. Len(sales) = 0 /\ DOMAIN sales = {} /\ sales \in Seq(Sale)
    BY <1>1
  <1>3. ASSUME NEW p \in Products
        PROVE  /\ ledger[p] \in Seq(Entry)
               /\ \A i \in DOMAIN ledger[p] : /\ i = 1
                                              /\ ledger[p][i].change # 0
                                              /\ ledger[p][i].sale = 0
                                              /\ ledger[p][i].reverses = 0
    <2>1. CASE InitialStock[p] = 0
      <3>1. ledger[p] = <<>>
        BY <2>1 DEF Init
      <3>2. QED
        BY <3>1
    <2>2. CASE InitialStock[p] # 0
      <3>1. ledger[p] = <<first(p)>>
        BY <2>2 DEF Init
      <3>2. first(p) \in Entry
        BY <1>1 DEF Entry
      <3>3. first(p).change # 0 /\ first(p).sale = 0 /\ first(p).reverses = 0
        BY <2>2
      <3> HIDE DEF first
      <3>4. QED
        BY <3>1, <3>2, <3>3
    <2>3. QED
      BY <2>1, <2>2
  <1>4. tx \in [Calls -> Call] /\ \A c \in Calls : tx[c] = Idle
    BY IdleCall DEF Init
  <1>5. TypeOK
    <2>1. ledger \in [Products -> Seq(Entry)]
      <3>1. ledger = [p \in Products |-> ledger[p]]
        BY DEF Init
      <3>2. QED
        BY <1>3, <3>1
    <2>2. stock \in [Products -> Int] /\ sold \in [Products -> Nat]
      BY <1>1 DEF Init
    <2>3. QED
      BY <1>2, <1>3, <1>4, <2>1, <2>2 DEF TypeOK
  <1>6. RequestsOK
    BY <1>2, <1>4, IdleCall DEF RequestsOK, RequestOK
  <1>7. StockOK
    BY <1>1, <1>3 DEF StockOK
  <1>8. EachSalePosted /\ ReversedMeansReversal /\ RetrySellsOnce
    BY <1>2 DEF EachSalePosted, ReversedMeansReversal, RetrySellsOnce
  <1>9. QED
    BY <1>5, <1>6, <1>7, <1>8 DEF IInv

\* Every step keeps the inductive invariant.
LEMMA InvStep == IInv /\ [Next]_vars => IInv'
  <1> SUFFICES ASSUME IInv, [Next]_vars PROVE IInv'
    OBVIOUS
  <1>1. ASSUME NEW c \in Calls, NEW u \in Users, ConvertBegin(c, u) PROVE IInv'
    BY <1>1, ConvertBeginInv
  <1>2. ASSUME NEW c \in Calls, ConvertRead(c) PROVE IInv'
    BY <1>2, ConvertReadInv
  <1>3. ASSUME NEW c \in Calls, SellCommit(c) PROVE IInv'
    BY <1>3, SellCommitInv
  <1>4. ASSUME NEW c \in Calls, ReverseCommit(c) PROVE IInv'
    BY <1>4, ReverseCommitInv
  <1>5. ASSUME NEW c \in Calls, NEW u \in Users, NEW p \in Products, NEW q \in Quantities,
               SellBegin(c, u, p, q)
        PROVE  IInv'
    BY <1>5, SellBeginInv
  <1>6. ASSUME NEW p \in Products, NEW q \in Quantities, Restock(p, q) PROVE IInv'
    BY <1>6, RestockInv
  <1>7. ASSUME NEW p \in Products, NEW q \in Quantities, Adjust(p, q) \/ Adjust(p, -q)
        PROVE  IInv'
    <2>1. PICK d \in {q, -q} : Adjust(p, d)
      BY <1>7
    <2>2. d \in Int \ {0}
      BY StockAssumption
    <2>3. QED
      BY <2>1, <2>2, AdjustInv
  <1>8. ASSUME NEW c \in Calls, NEW p \in Products, NEW i \in DOMAIN ledger[p],
               ReverseBegin(c, p, i)
        PROVE  IInv'
    BY <1>8, ReverseBeginInv
  <1>9. CASE Crash
    BY <1>9, CrashInv
  <1>10. CASE UNCHANGED vars
    <2>1. UNCHANGED <<stock, sold, ledger, sales>> /\ tx' = tx
      BY <1>10 DEF vars
    <2>2. tx' \in [Calls -> Call] /\ RequestsOK'
      BY <2>1 DEF IInv, TypeOK, RequestsOK, RequestOK, KeyedSales
    <2>3. QED
      BY <2>1, <2>2, ReadInv
  <1>11. QED
    BY <1>1, <1>2, <1>3, <1>4, <1>5, <1>6, <1>7, <1>8, <1>9, <1>10 DEF Next

\* The inductive invariant holds in every reachable state.
THEOREM Invariant == Spec => []IInv
  <1>1. QED
    BY InvInit, InvStep, PTL DEF Spec

-----------------------------------------------------------------------------
(* The results. *)

\* The types hold, and no entry refers to a sale or an entry that does not exist, for
\* every number of products, users and requests.
THEOREM TypeCorrect == Spec => []TypeOK
  <1>1. IInv => TypeOK
    BY DEF IInv
  <1>2. QED
    BY <1>1, Invariant, PTL

\* Every sale record_sale commits has exactly one entry, of its quantity and its
\* product, whatever runs at the same time.
THEOREM SalesPosted == Spec => []EachSalePosted
  <1>1. IInv => EachSalePosted
    BY DEF IInv
  <1>2. QED
    BY <1>1, Invariant, PTL

\* reverse_transaction marks exactly the sales whose own entry has been reversed, also
\* when two reversals of the entry overlap.
THEOREM ReversedExactly == Spec => []ReversedMeansReversal
  <1>1. IInv => ReversedMeansReversal
    BY DEF IInv
  <1>2. QED
    BY <1>1, Invariant, PTL

\* A user who repeats the conversion of an order sells nothing twice, unless the two
\* requests overlapped.
THEOREM RetryIsSafe == Spec => []RetrySellsOnce
  <1>1. IInv => RetrySellsOnce
    BY DEF IInv
  <1>2. QED
    BY <1>1, Invariant, PTL

-----------------------------------------------------------------------------
(* The ledger implements StockAccount.                                      *)

\* The journal of an item: the changes in its log.
Journal(l) == [i \in DOMAIN l |-> l[i].change]

\* Posting an entry appends its change to the journal.
LEMMA JournalAppend ==
    ASSUME NEW l \in Seq(Entry), NEW e \in Entry
    PROVE  Journal(Append(l, e)) = Append(Journal(l), e.change)
  <1>1. /\ Len(l) \in Nat /\ DOMAIN l = 1 .. Len(l) /\ Append(l, e) \in Seq(Entry)
        /\ Len(Append(l, e)) = Len(l) + 1 /\ DOMAIN Append(l, e) = 1 .. Len(l) + 1
        /\ \A i \in 1 .. Len(l) : Append(l, e)[i] = l[i]
        /\ Append(l, e)[Len(l) + 1] = e
    BY AppendProperties, LenProperties
  <1>2. Journal(l) \in Seq(Int) /\ Len(Journal(l)) = Len(l)
    <2>1. \A i \in 1 .. Len(l) : l[i].change \in Int
      <3>1. \A i \in 1 .. Len(l) : l[i] \in Entry
        BY ElementOfSeq
      <3>2. QED
        BY <3>1 DEF Entry
    <2>2. QED
      BY <1>1, <2>1 DEF Journal
  <1>3. /\ Append(Journal(l), e.change) \in Seq(Int)
        /\ Len(Append(Journal(l), e.change)) = Len(l) + 1
        /\ \A i \in 1 .. Len(l) : Append(Journal(l), e.change)[i] = Journal(l)[i]
        /\ Append(Journal(l), e.change)[Len(l) + 1] = e.change
    <2>1. e.change \in Int
      BY DEF Entry
    <2>2. QED
      BY <1>1, <1>2, <2>1, AppendProperties
  <1>4. DOMAIN Append(Journal(l), e.change) = 1 .. Len(l) + 1
    BY <1>1, <1>3
  <1>5. \A i \in 1 .. Len(l) + 1 :
            Journal(Append(l, e))[i] = Append(Journal(l), e.change)[i]
    BY <1>1, <1>3 DEF Journal
  <1>6. /\ Journal(Append(l, e)) = [i \in 1 .. Len(l) + 1 |-> Journal(Append(l, e))[i]]
        /\ Append(Journal(l), e.change)
               = [i \in 1 .. Len(l) + 1 |-> Append(Journal(l), e.change)[i]]
    BY <1>1, <1>3, <1>4 DEF Journal
  <1>7. QED
    BY <1>5, <1>6

\* A step that posts an entry of the change it makes is a posting of the account.
LEMMA PostsIsPost ==
    ASSUME TypeOK, NEW p \in Products, NEW change \in Int \ {0}, stock[p] + change >= 0,
           NEW sale \in Nat, NEW reverses \in Nat,
           Posts(p, stock[p] + change, change, sale, reverses)
    PROVE  Account!Next
  <1> DEFINE e == [change |-> change, sale |-> sale, reverses |-> reverses]
             J == [q \in Products |-> [i \in DOMAIN ledger[q] |-> ledger[q][i].change]]
  <1>1. e \in Entry /\ e.change = change
    BY DEF Entry
  <1>2. /\ stock' = [stock EXCEPT ![p] = stock[p] + change]
        /\ ledger' = [ledger EXCEPT ![p] = Append(ledger[p], e)]
    BY DEF Posts
  <1> HIDE DEF e
  <1>3. /\ stock[p] \in Int /\ stock'[p] = stock[p] + change
        /\ stock' = [stock EXCEPT ![p] = stock'[p]]
    BY <1>2 DEF TypeOK
  <1>4. stock'[p] \in Nat \ {stock[p]} /\ stock'[p] - stock[p] = change
    BY <1>3
  <1>5. J = [q \in Products |-> Journal(ledger[q])] /\ J' = [q \in Products |-> Journal(ledger'[q])]
    BY DEF Journal
  <1>6. Journal(ledger'[p]) = Append(Journal(ledger[p]), change)
    BY <1>1, <1>2, JournalAppend DEF TypeOK
  <1>7. \A q \in Products \ {p} : ledger'[q] = ledger[q]
    BY <1>2 DEF TypeOK
  <1> HIDE DEF J
  <1>8. J' = [J EXCEPT ![p] = Append(J[p], change)]
    BY <1>5, <1>6, <1>7
  <1>9. J' = [J EXCEPT ![p] = Append(J[p], stock'[p] - stock[p])]
    BY <1>4, <1>8
  <1>10. Account!Post(p)
    BY <1>3, <1>4, <1>9 DEF Account!Post, J
  <1>11. QED
    BY <1>10 DEF Account!Next

\* Every step posts one entry, or changes neither stock nor log.
LEMMA AccountStep == IInv /\ [Next]_vars => [Account!Next]_Account!vars
  <1> SUFFICES ASSUME IInv, [Next]_vars PROVE [Account!Next]_Account!vars
    OBVIOUS
  <1>1. TypeOK /\ RequestsOK /\ StockOK
    BY DEF IInv
  <1>2. ASSUME UNCHANGED <<stock, ledger>>
        PROVE  [Account!Next]_Account!vars
    BY <1>2 DEF Account!vars
  <1>3. ASSUME NEW c \in Calls, SellCommit(c), ~UNCHANGED <<stock, ledger>>
        PROVE  Account!Next
    <2>1. PICK p, q : p = Head(tx[c].items).product /\ q = Head(tx[c].items).quantity
      OBVIOUS
    <2>2. p \in Products /\ q \in Nat \ {0}
      <3>1. tx[c].items # <<>> /\ tx[c].items \in Seq(Items)
        BY <1>1, <1>3 DEF SellCommit, RequestsOK, RequestOK, TypeOK, Call
      <3>2. Head(tx[c].items) \in Items
        BY <3>1, HeadTailProperties
      <3>3. QED
        BY <2>1, <3>2 DEF Items
    <2>3. InStock(c, p, q) /\ Posts(p, stock[p] - q, -q, Len(sales) + 1, 0)
      BY <1>3, <2>1 DEF SellCommit, Deducted, SaleId
    <2>4. PICK change : change = -q
      OBVIOUS
    <2>5. /\ change \in Int \ {0} /\ stock[p] - q = stock[p] + change
          /\ stock[p] + change >= 0 /\ Len(sales) + 1 \in Nat
      BY <1>1, <2>2, <2>3, <2>4, LenProperties DEF InStock, TypeOK
    <2>6. Posts(p, stock[p] + change, change, Len(sales) + 1, 0)
      BY <2>3, <2>4, <2>5
    <2>7. PICK m : m = Len(sales) + 1
      OBVIOUS
    <2>8. QED
      BY <1>1, <2>2, <2>5, <2>6, <2>7, PostsIsPost
  <1>4. ASSUME NEW p \in Products, NEW d \in Int \ {0}, stock[p] + d >= 0,
               Posts(p, stock[p] + d, d, 0, 0)
        PROVE  Account!Next
    BY <1>1, <1>4, PostsIsPost
  <1>5. ASSUME NEW p \in Products, NEW q \in Quantities,
               Restock(p, q) \/ Adjust(p, q) \/ Adjust(p, -q)
        PROVE  Account!Next
    <2>1. PICK d \in {q, -q} : /\ stock[p] + d >= 0
                               /\ Posts(p, stock[p] + d, d, 0, 0)
      BY <1>1, <1>5, StockAssumption DEF Restock, Adjust, StockOK, TypeOK
    <2>2. d \in Int \ {0}
      BY StockAssumption
    <2>3. QED
      BY <1>4, <2>1, <2>2
  <1>6. ASSUME NEW c \in Calls, ReverseCommit(c), ~UNCHANGED <<stock, ledger>>
        PROVE  Account!Next
    <2>1. PICK p, i : p = tx[c].product /\ i = tx[c].entry
      OBVIOUS
    <2>2. p \in Products /\ i \in DOMAIN ledger[p] /\ ledger[p] \in Seq(Entry)
      BY <1>1, <1>6, <2>1 DEF ReverseCommit, RequestsOK, RequestOK, TypeOK, Call
    <2>3. PICK change : change = -ledger[p][i].change
      OBVIOUS
    <2>4. change \in Int \ {0} /\ i \in Nat /\ stock[p] \in Nat
      <3>1. ledger[p][i] \in Entry /\ i \in Nat
        BY <2>2, ElementOfSeq, LenProperties
      <3>2. QED
        BY <1>1, <2>2, <2>3, <3>1, SMTT(30) DEF Entry, StockOK, TypeOK
    <2>5. /\ change < 0 => stock[p] >= -change
          /\ Posts(p, stock[p] + change, change, 0, i)
      BY <1>6, <2>1, <2>3 DEF ReverseCommit
    <2>6. stock[p] + change >= 0
      BY <2>4, <2>5
    <2>7. QED
      BY <1>1, <2>2, <2>4, <2>5, <2>6, PostsIsPost
  <1>7. CASE Crash \/ UNCHANGED vars
    BY <1>2, <1>7 DEF Crash, vars
  <1>8. ASSUME NEW c \in Calls,
               \/ \E u \in Users : ConvertBegin(c, u)
               \/ ConvertRead(c)
               \/ \E u \in Users, p \in Products, q \in Quantities : SellBegin(c, u, p, q)
               \/ \E p \in Products : \E i \in DOMAIN ledger[p] : ReverseBegin(c, p, i)
        PROVE  UNCHANGED <<stock, ledger>>
    BY <1>8 DEF ConvertBegin, ConvertRead, SellBegin, ReverseBegin
  <1>9. QED
    BY <1>2, <1>3, <1>5, <1>6, <1>7, <1>8 DEF Next

\* Whatever runs at the same time and wherever the server stops, sales, restocks,
\* adjustments and reversals keep the promise of StockAccount: the stock of a product is
\* never negative, and each change of it is in the log with its amount.
THEOREM LedgerKeepsAccount == Spec => KeepsAccount
  <1>1. Init => Account!Init
    <2> SUFFICES ASSUME Init PROVE Account!Init
      OBVIOUS
    <2>1. stock = InitialStock /\ InitialStock \in [Products -> Nat]
      BY StockAssumption DEF Init
    <2>2. ASSUME NEW p \in Products
          PROVE  [i \in DOMAIN ledger[p] |-> ledger[p][i].change]
                     = IF stock[p] = 0 THEN <<>> ELSE <<stock[p]>>
      <3>1. CASE InitialStock[p] = 0
        BY <2>1, <3>1 DEF Init
      <3>2. CASE InitialStock[p] # 0
        BY <2>1, <3>2 DEF Init
      <3>3. QED
        BY <3>1, <3>2
    <2>3. QED
      BY <2>1, <2>2 DEF Account!Init
  <1>2. QED
    BY <1>1, AccountStep, Invariant, PTL DEF Spec, KeepsAccount, Account!Spec

-----------------------------------------------------------------------------
(* The sums. *)

\* What LedgerBalances adds up.
Changes(p)    == [i \in DOMAIN ledger[p] |-> ledger[p][i].change]
SalesOf(p)    == {r \in DOMAIN sales : sales[r].product = p}
Quantity(p)   == [s \in SalesOf(p) |-> sales[s].quantity]
StockBalances == \A p \in Products : stock[p] = SumFunction(Changes(p))
SoldBalances  == \A p \in Products : sold[p] = SumFunction(Quantity(p))

\* The two halves of LedgerBalances.
LEMMA Halves == LedgerBalances <=> StockBalances /\ SoldBalances
  BY DEF LedgerBalances, StockBalances, SoldBalances, Changes, Quantity, SalesOf

\* A stock and its log stay in balance when an entry is posted with what it changes.
LEMMA PostBalances ==
    ASSUME TypeOK, StockBalances, NEW p \in Products, NEW to \in Int, NEW change \in Int, to = stock[p] + change,
           NEW sale \in Nat, NEW i \in Nat, Posts(p, to, change, sale, i)
    PROVE  StockBalances'
  <1> DEFINE n == Len(ledger[p]) + 1
             f == Changes(p)
             g == Changes(p)'
  <1>1. Posted(p, n, to, change, sale, i)  BY PostsEffect
  <1> HIDE DEF n
  <1>2. /\ DOMAIN ledger[p] = 1 .. n - 1 /\ DOMAIN ledger'[p] = 1 .. n /\ n \in Nat \ {0}
        /\ \A j \in 1 .. n - 1 : ledger'[p][j] = ledger[p][j]
        /\ ledger'[p][n].change = change /\ ledger[p] \in Seq(Entry)
    BY <1>1 DEF Posted, TypeOK
  <1>3. \A j \in 1 .. n - 1 : ledger[p][j].change \in Int
    <2>1. \A j \in 1 .. n - 1 : ledger[p][j] \in Entry  BY <1>2, ElementOfSeq, LenProperties
    <2> QED  BY <2>1 DEF Entry
  <1>4. /\ DOMAIN f = 1 .. n - 1 /\ DOMAIN g = 1 .. n
        /\ \A j \in 1 .. n - 1 : f[j] = ledger[p][j].change
        /\ \A j \in 1 .. n : g[j] = ledger'[p][j].change
    BY <1>2 DEF Changes
  <1>5. /\ n \notin 1 .. n - 1 /\ 1 .. n = (1 .. n - 1) \cup {n} /\ IsFiniteSet(1 .. n - 1)
        /\ \A j \in 1 .. n - 1 : j \in 1 .. n
    BY <1>2, OneToOneMore
  <1> HIDE DEF f, g
  <1>6. /\ n \notin DOMAIN f /\ DOMAIN g = DOMAIN f \cup {n} /\ IsFiniteSet(DOMAIN f)
        /\ \A x \in DOMAIN f : g[x] = f[x] /\ f[x] \in Int
        /\ g[n] \in Int /\ g[n] = change
    BY <1>2, <1>3, <1>4, <1>5
  <1>7. SumFunction(g) = SumFunction(f) + change /\ SumFunction(f) \in Int
    BY <1>6, SumOneMore
  <1>8. stock'[p] = SumFunction(Changes(p)')
    BY <1>1, <1>7 DEF Posted, StockBalances, f, g
  <1>9. \A q \in Products \ {p} : Changes(q)' = Changes(q) /\ stock'[q] = stock[q]
    BY <1>1 DEF Posted, Changes
  <1> QED  BY <1>8, <1>9 DEF StockBalances

\* The sales of a product, and what of them counts, stay while sales are only marked.
LEMMA MarkingBalances ==
    ASSUME SoldBalances, UNCHANGED sold, DOMAIN sales' = DOMAIN sales,
           \A s \in DOMAIN sales : /\ sales'[s].product = sales[s].product
                                   /\ sales'[s].quantity = sales[s].quantity
    PROVE  SoldBalances'
  <1> SUFFICES ASSUME NEW p \in Products PROVE sold'[p] = SumFunction(Quantity(p)')
    BY DEF SoldBalances
  <1>1. SalesOf(p)' = SalesOf(p)  BY DEF SalesOf
  <1>2. \A s \in SalesOf(p) : sales'[s].quantity = sales[s].quantity  BY DEF SalesOf
  <1>3. Quantity(p)' = Quantity(p)  BY <1>1, <1>2 DEF Quantity
  <1> QED  BY <1>3 DEF SoldBalances

\* The sales and what is sold stay in balance when a sale is appended with its quantity.
LEMMA SellingBalances ==
    ASSUME TypeOK, SoldBalances, NEW p \in Products, NEW q \in Nat \ {0}, NEW new \in Sale,
           new.product = p, new.quantity = q, sales' = Append(sales, new),
           sold' = [sold EXCEPT ![p] = @ + q]
    PROVE  SoldBalances'
  <1> DEFINE m == Len(sales) + 1
             f == Quantity(p)
             g == Quantity(p)'
  <1>1. /\ m \in Nat \ {0} /\ DOMAIN sales = 1 .. m - 1 /\ DOMAIN sales' = 1 .. m
        /\ \A s \in 1 .. m - 1 : sales'[s] = sales[s] /\ sales[s] \in Sale
        /\ sales'[m] = new
    <2>1. sales \in Seq(Sale)  BY DEF TypeOK
    <2> QED  BY <2>1, AppendProperties, LenProperties, ElementOfSeq
  <1> HIDE DEF m
  <1>2. m \notin 1 .. m - 1 /\ 1 .. m = (1 .. m - 1) \cup {m} /\ IsFiniteSet(1 .. m - 1)
    BY <1>1, OneToOneMore
  <1>3. SalesOf(p)' = SalesOf(p) \cup {m} /\ m \notin SalesOf(p) /\ SalesOf(p) \subseteq 1 .. m - 1
    BY <1>1, <1>2 DEF SalesOf
  <1>4. IsFiniteSet(SalesOf(p))  BY <1>2, <1>3, FS_Subset
  <1>5. /\ DOMAIN f = SalesOf(p) /\ DOMAIN g = SalesOf(p)'
        /\ \A s \in SalesOf(p) : f[s] = sales[s].quantity
        /\ \A s \in SalesOf(p)' : g[s] = sales'[s].quantity
    BY DEF Quantity
  <1> HIDE DEF f, g
  <1>6. /\ m \notin DOMAIN f /\ DOMAIN g = DOMAIN f \cup {m} /\ IsFiniteSet(DOMAIN f)
        /\ \A x \in DOMAIN f : g[x] = f[x] /\ f[x] \in Int
        /\ g[m] \in Int /\ g[m] = q
    <2>1. \A s \in 1 .. m - 1 : sales[s].quantity \in Int  BY <1>1 DEF Sale
    <2>2. m \in SalesOf(p)' /\ g[m] = q  BY <1>1, <1>3, <1>5
    <2>3. \A x \in SalesOf(p) : g[x] = f[x] /\ f[x] \in Int  BY <1>1, <1>3, <1>5, <2>1
    <2> QED  BY <1>3, <1>4, <1>5, <2>2, <2>3
  <1>7. SumFunction(g) = SumFunction(f) + q /\ SumFunction(f) \in Int
    BY <1>6, SumOneMore
  <1>8. sold'[p] = SumFunction(Quantity(p)')
    BY <1>7 DEF SoldBalances, TypeOK, f, g
  <1>9. ASSUME NEW r \in Products \ {p} PROVE sold'[r] = SumFunction(Quantity(r)')
    <2>1. SalesOf(r)' = SalesOf(r) /\ \A s \in SalesOf(r) : sales'[s].quantity = sales[s].quantity
      BY <1>1, <1>2 DEF SalesOf
    <2>2. Quantity(r)' = Quantity(r)  BY <2>1 DEF Quantity
    <2> QED  BY <2>2 DEF SoldBalances, TypeOK
  <1> QED  BY <1>8, <1>9 DEF SoldBalances

\* A sale is committed: the entry, the sale and the total sold, by the same quantity.
LEMMA SellCommitBalances ==
    ASSUME IInv, LedgerBalances, NEW c \in Calls, SellCommit(c)
    PROVE  LedgerBalances'
  <1>1. PICK p, q : p = Head(tx[c].items).product /\ q = Head(tx[c].items).quantity
    OBVIOUS
  <1>2. p \in Products /\ q \in Nat \ {0} /\ tx[c].user \in Users
    <2>1. tx[c].items # <<>> /\ tx[c].items \in Seq(Items) /\ tx[c].user \in Users
      BY DEF SellCommit, IInv, RequestsOK, RequestOK, TypeOK, Call
    <2>2. Head(tx[c].items) \in Items  BY <2>1, HeadTailProperties
    <2> QED  BY <1>1, <2>1, <2>2 DEF Items
  <1>3. CASE UNCHANGED <<stock, sold, ledger, sales>>
    BY <1>3 DEF LedgerBalances
  <1>4. CASE ~UNCHANGED <<stock, sold, ledger, sales>>
    <2> DEFINE new == [product |-> p, quantity |-> q, user |-> tx[c].user, forOrder |-> tx[c].forOrder,
                       reversed |-> FALSE, seen |-> tx[c].seen]
    <2>1. /\ Posts(p, stock[p] - q, -q, Len(sales) + 1, 0)
          /\ sold' = [sold EXCEPT ![p] = @ + q] /\ sales' = Append(sales, new)
      BY <1>1, <1>4 DEF SellCommit, Deducted, SaleId
    <2>2. tx[c] \in Call /\ TypeOK  BY DEF IInv, TypeOK
    <2>3. new \in Sale /\ new.product = p /\ new.quantity = q
      BY <1>2, <2>2 DEF Sale, Call
    <2> HIDE DEF new
    <2>4. PICK change, to, m : change = -q /\ to = stock[p] - q /\ m = Len(sales) + 1  OBVIOUS
    <2>5. change \in Int /\ to \in Int /\ m \in Nat /\ to = stock[p] + change
      BY <1>2, <2>2, <2>4, LenProperties DEF TypeOK
    <2>6. Posts(p, to, change, m, 0)  BY <2>1, <2>4
    <2>7. StockBalances'  BY <1>2, <2>2, <2>5, <2>6, Halves, PostBalances
    <2>8. SoldBalances'  BY <1>2, <2>1, <2>2, <2>3, Halves, SellingBalances
    <2> QED  BY <2>7, <2>8, Halves, PTL
  <1> QED  BY <1>3, <1>4

\* A restock, or an adjustment by d.
LEMMA PlainPostBalances ==
    ASSUME IInv, LedgerBalances, NEW p \in Products, NEW d \in Int, Posts(p, stock[p] + d, d, 0, 0),
           UNCHANGED <<sold, sales>>
    PROVE  LedgerBalances'
  <1>1. PICK to : to = stock[p] + d  OBVIOUS
  <1>2. TypeOK /\ to \in Int  BY <1>1 DEF IInv, TypeOK
  <1>3. StockBalances'  BY <1>1, <1>2, Halves, PostBalances
  <1>4. SoldBalances'  BY Halves, MarkingBalances
  <1> QED  BY <1>3, <1>4, Halves, PTL

\* A reversal posts the opposite of its entry and marks a sale.
LEMMA ReverseCommitBalances ==
    ASSUME IInv, LedgerBalances, NEW c \in Calls, ReverseCommit(c)
    PROVE  LedgerBalances'
  <1>1. PICK p, i : p = tx[c].product /\ i = tx[c].entry
    OBVIOUS
  <1>2. /\ TypeOK /\ p \in Products /\ i \in DOMAIN ledger[p] /\ ledger[p] \in Seq(Entry)
    BY <1>1 DEF ReverseCommit, IInv, RequestsOK, RequestOK, TypeOK, Call
  <1>3. PICK change, to, s : change = -ledger[p][i].change /\ to = stock[p] + change /\ s = ledger[p][i].sale
    OBVIOUS
  <1>4. i \in Nat /\ change \in Int /\ to \in Int /\ s \in Nat
    <2>1. ledger[p][i] \in Entry /\ i \in Nat  BY <1>2, ElementOfSeq, LenProperties
    <2>2. ledger[p][i].change \in Int /\ ledger[p][i].sale \in Nat  BY <2>1 DEF Entry
    <2>3. stock[p] \in Int  BY <1>2 DEF TypeOK
    <2> QED  BY <1>3, <2>1, <2>2, <2>3
  <1>5. CASE UNCHANGED <<stock, ledger, sales>>
    BY <1>5 DEF ReverseCommit, LedgerBalances
  <1>6. CASE ~UNCHANGED <<stock, ledger, sales>>
    <2>1. Posts(p, to, change, 0, i) /\ sales' = MarkReversed(s, i) /\ UNCHANGED sold
      BY <1>1, <1>3, <1>6 DEF ReverseCommit
    <2>2. StockBalances'  BY <1>2, <1>3, <1>4, <2>1, Halves, PostBalances
    <2>3. SoldBalances'
      <3>1. /\ DOMAIN sales' = DOMAIN sales
            /\ \A r \in DOMAIN sales : /\ sales'[r].product = sales[r].product
                                       /\ sales'[r].quantity = sales[r].quantity
        BY <1>2, <1>4, <2>1, MarkReversedEffect
      <3> QED  BY <2>1, <3>1, Halves, MarkingBalances
    <2> QED  BY <2>2, <2>3, Halves, PTL
  <1> QED  BY <1>5, <1>6

\* The initial entry of a product is its stock.
LEMMA InitBalances == Init => LedgerBalances
  <1> SUFFICES ASSUME Init, NEW p \in Products
               PROVE  stock[p] = SumFunction(Changes(p)) /\ sold[p] = SumFunction(Quantity(p))
    BY Halves DEF StockBalances, SoldBalances
  <1>1. stock[p] = InitialStock[p] /\ InitialStock[p] \in Nat /\ sold[p] = 0 /\ sales = <<>>
    BY StockAssumption DEF Init
  <1>2. sold[p] = SumFunction(Quantity(p))
    <2>1. DOMAIN Quantity(p) = {}  BY <1>1 DEF Quantity, SalesOf
    <2> QED  BY <1>1, <2>1, SumFew
  <1>3. CASE InitialStock[p] = 0
    <2>1. ledger[p] = <<>>  BY <1>3 DEF Init
    <2>2. DOMAIN Changes(p) = {}  BY <2>1 DEF Changes
    <2> QED  BY <1>1, <1>2, <1>3, <2>2, SumFew
  <1>4. CASE InitialStock[p] # 0
    <2> DEFINE e == [change |-> InitialStock[p], sale |-> 0, reverses |-> 0]
    <2>1. ledger[p] = <<e>>  BY <1>4 DEF Init
    <2>2. e.change = InitialStock[p]  OBVIOUS
    <2> HIDE DEF e
    <2>3. DOMAIN Changes(p) = {1} /\ Changes(p)[1] = InitialStock[p]
      BY <2>1, <2>2 DEF Changes
    <2>4. Changes(p)[1] \in Int  BY <1>1, <2>3
    <2> HIDE DEF Changes
    <2> QED  BY <1>1, <1>2, <2>3, <2>4, SumFew
  <1> QED  BY <1>3, <1>4

\* No request that runs at the same time as others is lost from the stock, the total sold or
\* their logs: the log of each product adds up to its stock, and its sales to what is sold.
THEOREM LedgerAddsUp == Spec => []LedgerBalances
  <1>1. IInv /\ LedgerBalances /\ [Next]_vars => LedgerBalances'
    <2> SUFFICES ASSUME IInv, LedgerBalances, [Next]_vars PROVE LedgerBalances'
      OBVIOUS
    <2>1. ASSUME NEW c \in Calls, SellCommit(c) \/ ReverseCommit(c) PROVE LedgerBalances'
      BY <2>1, SellCommitBalances, ReverseCommitBalances
    <2>2. ASSUME NEW p \in Products, NEW q \in Quantities, Restock(p, q) \/ Adjust(p, q) \/ Adjust(p, -q)
          PROVE  LedgerBalances'
      <3>1. PICK d \in {q, -q} : Posts(p, stock[p] + d, d, 0, 0) /\ UNCHANGED <<sold, sales>>
        BY <2>2 DEF Restock, Adjust
      <3>2. d \in Int  BY StockAssumption
      <3> QED  BY <3>1, <3>2, PlainPostBalances
    <2>3. CASE UNCHANGED <<stock, sold, ledger, sales>>
      BY <2>3 DEF LedgerBalances
    <2>4. ASSUME NEW c \in Calls,
                 \/ \E u \in Users : ConvertBegin(c, u)
                 \/ ConvertRead(c)
                 \/ \E u \in Users, p \in Products, q \in Quantities : SellBegin(c, u, p, q)
                 \/ \E p \in Products : \E i \in DOMAIN ledger[p] : ReverseBegin(c, p, i)
          PROVE  UNCHANGED <<stock, sold, ledger, sales>>
      BY <2>4 DEF ConvertBegin, ConvertRead, SellBegin, ReverseBegin
    <2>5. CASE Crash \/ UNCHANGED vars
      BY <2>3, <2>5 DEF Crash, vars
    <2> QED  BY <2>1, <2>2, <2>3, <2>4, <2>5 DEF Next
  <1> QED  BY <1>1, InitBalances, Invariant, PTL DEF Spec

=============================================================================
