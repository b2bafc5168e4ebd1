------------------------- MODULE Services_proofs ----------------------------
(***************************************************************************)
(* The proofs about LowStockAlerts, Notices, Attachments and Onboarding,   *)
(* and about the types of the four together.                               *)
(***************************************************************************)
EXTENDS MCServices, SequenceTheorems, FiniteSetTheorems, TLAPS

(* LowStockAlerts. *)

\* What a request in flight remembers.
Request ==
    [pc : {"idle"}]
    \cup [pc : {"sell"}, product : Stocked, quantity : Nat, before : Nat]
    \cup [pc : {"sold"}, product : Stocked, before : Nat]
    \cup [pc : {"adjusted", "restocked", "look", "find"}, product : Stocked]
    \cup [pc : {"create"}, product : Stocked, seen : Nat, overlooked : SUBSET Nat]
    \cup [pc : {"assign", "assigning"}, task : Nat]
    \cup [pc : {"close"}, product : Stocked, tasks : SUBSET Nat]

Types == /\ level \in [Stocked -> Nat]
         /\ alerts \in Seq(Alert)
         /\ mover \in [Movers -> Request]

\* A request refers to alerts that are there; and the alerts that the creator of one has
\* seen are closed since then, or were claimed, or have been opened again.
RequestOK(c) ==
    /\ mover[c].pc \in {"assign", "assigning"} => mover[c].task \in DOMAIN alerts
    /\ mover[c].pc = "close" => mover[c].tasks \subseteq DOMAIN alerts
    /\ mover[c].pc = "create" =>
           /\ mover[c].seen <= Len(alerts)
           /\ \A s \in DOMAIN alerts :
                 s <= mover[c].seen /\ alerts[s].product = mover[c].product =>
                     \/ alerts[s].status = "closed"
                     \/ s \in mover[c].overlooked
                     \/ alerts[s].reopened

\* SecondAlertExplained, whether the second is still to be done or not: a second one that
\* is closed can come back.
SeenWereClosed ==
    \A s, t \in DOMAIN alerts :
        s < t /\ alerts[s].product = alerts[t].product /\ alerts[s].status # "closed"
            => alerts[t].seen < s \/ s \in alerts[t].overlooked \/ alerts[s].reopened

IInv == Types /\ (\A c \in Movers : RequestOK(c)) /\ SeenWereClosed

\* What no step does to the alerts there are: forget one, change its product, or open it
\* again without a trace.
Keeps ==
    /\ Len(alerts) <= Len(alerts') /\ DOMAIN alerts \subseteq DOMAIN alerts'
    /\ \A t \in DOMAIN alerts :
          /\ alerts'[t].product = alerts[t].product /\ alerts'[t].seen = alerts[t].seen
          /\ alerts'[t].overlooked = alerts[t].overlooked
          /\ alerts[t].reopened => alerts'[t].reopened
          /\ alerts'[t].status # "closed" => \/ alerts[t].status # "closed"
                                             \/ alerts'[t].reopened

-----------------------------------------------------------------------------
(* What the operators do. *)

\* The parts of an alert.
LEMMA AlertParts ==
    ASSUME alerts \in Seq(Alert)
    PROVE  /\ Len(alerts) \in Nat /\ DOMAIN alerts = 1 .. Len(alerts)
           /\ \A t \in DOMAIN alerts : /\ alerts[t] \in Alert
                                       /\ alerts[t].product \in Stocked /\ alerts[t].seen \in Nat
                                       /\ alerts[t].overlooked \in SUBSET Nat
                                       /\ alerts[t].reopened \in BOOLEAN
                                       /\ alerts[t].claimed \in BOOLEAN
                                       /\ alerts[t].status \in LiveStatus \cup {"closed"}
                                       /\ t \in Nat \ {0}
  <1>1. Len(alerts) \in Nat /\ DOMAIN alerts = 1 .. Len(alerts)
    BY LenProperties
  <1>2. \A t \in DOMAIN alerts : alerts[t] \in Alert
    BY <1>1, ElementOfSeq
  <1>3. QED
    BY <1>1, <1>2 DEF Alert

\* An alert that is written: the others stay as they are.
LEMMA Writes ==
    ASSUME alerts \in Seq(Alert), NEW t \in DOMAIN alerts, NEW a \in Alert,
           alerts' = [alerts EXCEPT ![t] = a]
    PROVE  /\ alerts' \in Seq(Alert) /\ Len(alerts') = Len(alerts)
           /\ DOMAIN alerts' = DOMAIN alerts
           /\ alerts'[t] = a
           /\ \A s \in DOMAIN alerts \ {t} : alerts'[s] = alerts[s]
  <1>1. Len(alerts) \in Nat /\ DOMAIN alerts = 1 .. Len(alerts)
    BY LenProperties
  <1>2. alerts' \in Seq(Alert) /\ Len(alerts') = Len(alerts)
    BY <1>1, ExceptSeq
  <1>3. QED
    BY <1>1

\* A step that keeps the alerts leaves a request right that it does not touch.
LEMMA OthersKeep ==
    ASSUME Types, alerts' \in Seq(Alert), Keeps,
           NEW c \in Movers, RequestOK(c), mover'[c] = mover[c]
    PROVE  RequestOK(c)'
  <1>1. Len(alerts) \in Nat /\ DOMAIN alerts = 1 .. Len(alerts)
    BY AlertParts DEF Types
  <1>2. Len(alerts') \in Nat /\ DOMAIN alerts' = 1 .. Len(alerts')
    BY LenProperties
  <1>3. Len(alerts') >= Len(alerts) /\ DOMAIN alerts \subseteq DOMAIN alerts'
    BY DEF Keeps
  <1>4. CASE mover[c].pc = "create"
    <2>1. mover[c].seen <= Len(alerts) /\ mover[c].seen \in Nat
      BY <1>4 DEF RequestOK, Types, Request
    <2>2. mover[c].seen <= Len(alerts')
      BY <1>1, <1>2, <1>3, <2>1
    <2>3. ASSUME NEW s \in DOMAIN alerts', s <= mover[c].seen,
                 alerts'[s].product = mover[c].product
          PROVE  \/ alerts'[s].status = "closed" \/ s \in mover[c].overlooked
                 \/ alerts'[s].reopened
      <3>1. s \in DOMAIN alerts
        BY <1>1, <1>2, <2>1, <2>3
      <3>2. \/ alerts[s].status = "closed" \/ s \in mover[c].overlooked
            \/ alerts[s].reopened
        BY <1>4, <2>3, <3>1 DEF Keeps, RequestOK
      <3>3. QED
        BY <3>1, <3>2 DEF Keeps
    <2>4. QED
      BY <1>4, <2>2, <2>3 DEF RequestOK
  <1>5. CASE mover[c].pc # "create"
    BY <1>3, <1>5 DEF RequestOK
  <1>6. QED
    BY <1>4, <1>5

\* An alert whose status is written keeps its product and what its creator had seen; what
\* is opened again is marked.
Marks(t, a) == /\ a \in Alert /\ a.product = alerts[t].product /\ a.seen = alerts[t].seen
               /\ a.overlooked = alerts[t].overlooked
               /\ alerts[t].reopened => a.reopened
               /\ a.status # "closed" => alerts[t].status # "closed" \/ a.reopened

\* Written marks, and whoever claims the alert too.
LEMMA WrittenMarks ==
    ASSUME alerts \in Seq(Alert), NEW t \in DOMAIN alerts, NEW s \in LiveStatus \cup {"closed"}
    PROVE  /\ Marks(t, Written(t, s)) /\ Marks(t, [Written(t, s) EXCEPT !.claimed = TRUE])
           /\ Marks(t, [alerts[t] EXCEPT !.claimed = TRUE])
           /\ Written(t, s).status = s
  <1>1. alerts[t] \in Alert
    BY AlertParts
  <1>2. /\ Written(t, s) \in Alert /\ Written(t, s).product = alerts[t].product
        /\ Written(t, s).seen = alerts[t].seen /\ Written(t, s).overlooked = alerts[t].overlooked
        /\ Written(t, s).status = s
        /\ Written(t, s).reopened = (alerts[t].reopened \/ (alerts[t].status = "closed" /\ s # "closed"))
    BY <1>1 DEF Written, Alert
  <1>3. Marks(t, Written(t, s))
    BY <1>2 DEF Marks
  <1>4. Marks(t, [Written(t, s) EXCEPT !.claimed = TRUE])
    BY <1>2, <1>3 DEF Marks, Alert
  <1>5. Marks(t, [alerts[t] EXCEPT !.claimed = TRUE])
    BY <1>1 DEF Marks, Alert
  <1>6. QED
    BY <1>2, <1>3, <1>4, <1>5

\* Such a write keeps the alerts and the order of second alerts.
LEMMA WritesKeep ==
    ASSUME alerts \in Seq(Alert), SeenWereClosed, NEW t \in DOMAIN alerts, NEW a, Marks(t, a),
           alerts' = [alerts EXCEPT ![t] = a]
    PROVE  /\ alerts' \in Seq(Alert) /\ Keeps /\ SeenWereClosed'
           /\ DOMAIN alerts' = DOMAIN alerts /\ alerts'[t] = a
           /\ \A s \in DOMAIN alerts \ {t} : alerts'[s] = alerts[s]
  <1>1. /\ alerts' \in Seq(Alert) /\ Len(alerts') = Len(alerts)
        /\ DOMAIN alerts' = DOMAIN alerts
        /\ alerts'[t] = a
        /\ \A s \in DOMAIN alerts \ {t} : alerts'[s] = alerts[s]
    BY Writes DEF Marks
  <1>2. Len(alerts) \in Nat
    BY AlertParts
  <1>3. Keeps
    BY <1>1, <1>2 DEF Keeps, Marks
  <1>4. SeenWereClosed'
    BY <1>1, <1>3 DEF SeenWereClosed, Keeps
  <1>5. QED
    BY <1>1, <1>3, <1>4

-----------------------------------------------------------------------------
(* The steps. *)

\* Steps that leave the alerts alone.
LEMMA QuietStep ==
    ASSUME IInv, UNCHANGED alerts, level' \in [Stocked -> Nat], mover' \in [Movers -> Request],
           NEW c \in Movers, RequestOK(c)', \A d \in Movers \ {c} : mover'[d] = mover[d]
    PROVE  IInv'
  <1>1. Types' /\ Keeps
    BY AlertParts DEF IInv, Types, Keeps
  <1>2. \A d \in Movers : RequestOK(d)'
    BY <1>1, OthersKeep DEF IInv, Types
  <1>3. QED
    BY <1>1, <1>2 DEF IInv, SeenWereClosed

\* A request changes its record, and no other's.
LEMMA GoesTo ==
    ASSUME Types, NEW c \in Movers, NEW r \in Request, Goes(c, r)
    PROVE  /\ mover' \in [Movers -> Request] /\ mover'[c] = r
           /\ \A d \in Movers \ {c} : mover'[d] = mover[d]
  BY DEF Types, Goes

\* Sales, adjustments, restocks and lookups.
LEMMA StockStep ==
    ASSUME IInv, NEW c \in Movers,
           \/ SaleUpdate(c) \/ SaleRefresh(c) \/ AdjustRefresh(c) \/ RestockRefresh(c)
           \/ \E p \in Stocked, q \in Moves :
                 SaleRead(c, p, q) \/ Adjust(c, p, q) \/ Adjust(c, p, -q) \/ Restock(c, p, q)
    PROVE  IInv'
  <1>1. /\ level \in [Stocked -> Nat] /\ mover[c] \in Request /\ Moves \subseteq Nat \ {0}
        /\ MaxStock \in [Stocked -> Nat]
    BY AlertsAssumption DEF IInv, Types
  <1>2. SUFFICES ASSUME NEW r \in Request, r.pc \notin {"assign", "assigning", "close", "create"}, Goes(c, r),
                        level' \in [Stocked -> Nat], UNCHANGED alerts
                 PROVE  IInv'
    <2>1. CASE SaleUpdate(c)
      <3>1. /\ mover[c].product \in Stocked /\ mover[c].quantity \in Nat /\ mover[c].before \in Nat
        BY <1>1, <2>1 DEF SaleUpdate, Request
      <3>2. CASE Suffices(mover[c])
        <4>1. level' \in [Stocked -> Nat]
          BY <1>1, <2>1, <3>1, <3>2 DEF SaleUpdate, Suffices
        <4>2. [pc |-> "sold", product |-> mover[c].product, before |-> mover[c].before] \in Request
          BY <3>1 DEF Request
        <4>3. QED
          BY <1>2, <2>1, <3>2, <4>1, <4>2 DEF SaleUpdate
      <3>3. CASE ~Suffices(mover[c])
        BY <1>1, <1>2, <2>1, <3>3 DEF SaleUpdate, Request, Rest
      <3>4. QED
        BY <3>2, <3>3
    <2>2. CASE SaleRefresh(c) \/ AdjustRefresh(c) \/ RestockRefresh(c)
      <3>1. mover[c].product \in Stocked
        BY <1>1, <2>2 DEF SaleRefresh, AdjustRefresh, RestockRefresh, Request
      <3>2. /\ [pc |-> "look", product |-> mover[c].product] \in Request
            /\ [pc |-> "find", product |-> mover[c].product] \in Request /\ Rest \in Request
        BY <3>1 DEF Request, Rest
      <3>3. QED
        BY <1>1, <1>2, <2>2, <3>2 DEF SaleRefresh, AdjustRefresh, RestockRefresh, Rest
    <2>3. ASSUME NEW p \in Stocked, NEW q \in Moves, SaleRead(c, p, q)
          PROVE  IInv'
      <3>1. [pc |-> "sell", product |-> p, quantity |-> q, before |-> level[p]] \in Request
        BY <1>1 DEF Request
      <3>2. QED
        BY <1>1, <1>2, <2>3, <3>1 DEF SaleRead
    <2>4. ASSUME NEW p \in Stocked, NEW q \in Moves,
                 Adjust(c, p, q) \/ Adjust(c, p, -q) \/ Restock(c, p, q)
          PROVE  IInv'
      <3>1. q \in Nat /\ level[p] \in Nat /\ MaxStock[p] \in Nat
        BY <1>1
      <3>2. level' \in [Stocked -> Nat]
        BY <1>1, <2>4, <3>1 DEF Adjust, Restock
      <3>3. /\ [pc |-> "adjusted", product |-> p] \in Request
            /\ [pc |-> "restocked", product |-> p] \in Request
        BY DEF Request
      <3>4. QED
        BY <1>2, <2>4, <3>2, <3>3 DEF Adjust, Restock
    <2>5. QED
      BY <2>1, <2>2, <2>3, <2>4
  <1>3. /\ mover' \in [Movers -> Request] /\ mover'[c] = r
        /\ \A d \in Movers \ {c} : mover'[d] = mover[d]
    BY <1>2, GoesTo DEF IInv
  <1>4. RequestOK(c)'
    BY <1>2, <1>3 DEF RequestOK
  <1>5. QED
    BY <1>2, <1>3, <1>4, QuietStep

\* The creator of an alert has seen that those before it were closed.
LEMMA LookForAlertStep ==
    ASSUME IInv, NEW c \in Movers, LookForAlert(c)
    PROVE  IInv'
  <1>1. mover[c] \in Request /\ mover[c].product \in Stocked
    BY DEF IInv, Types, LookForAlert, Request
  <1>2. Len(alerts) \in Nat /\ DOMAIN alerts = 1 .. Len(alerts)
    BY AlertParts DEF IInv, Types
  <1> DEFINE p == mover[c].product
             r == [pc |-> "create", product |-> p, seen |-> Len(alerts), overlooked |-> Live(p)]
  <1>3. CASE OpenAlerts(p) = {}
    <2>1. Live(p) \subseteq Nat
      BY <1>2 DEF Live
    <2>2. r \in Request /\ Goes(c, r)
      BY <1>1, <1>2, <1>3, <2>1 DEF Request, LookForAlert
    <2>3. /\ mover' \in [Movers -> Request] /\ mover'[c] = r
          /\ \A d \in Movers \ {c} : mover'[d] = mover[d]
      BY <2>2, GoesTo DEF IInv
    <2>4. \A s \in DOMAIN alerts :
              alerts[s].product = p => alerts[s].status = "closed" \/ s \in Live(p)
      BY AlertParts DEF Live, IInv, Types
    <2>5. UNCHANGED <<level, alerts>>
      BY DEF LookForAlert
    <2>6. RequestOK(c)'
      BY <1>2, <2>3, <2>4, <2>5 DEF RequestOK
    <2>7. QED
      BY <2>3, <2>5, <2>6, QuietStep DEF IInv, Types
  <1>4. CASE OpenAlerts(p) # {}
    <2>1. Rest \in Request /\ Goes(c, Rest) /\ UNCHANGED <<level, alerts>>
      BY <1>4 DEF LookForAlert, Request, Rest
    <2>2. /\ mover' \in [Movers -> Request] /\ mover'[c] = Rest
          /\ \A d \in Movers \ {c} : mover'[d] = mover[d]
      BY <2>1, GoesTo DEF IInv
    <2>3. RequestOK(c)'
      BY <2>2 DEF RequestOK, Rest
    <2>4. QED
      BY <2>1, <2>2, <2>3, QuietStep DEF IInv, Types
  <1>5. QED
    BY <1>3, <1>4

\* A restock closes alerts that are there.
LEMMA FindAlertsStep ==
    ASSUME IInv, NEW c \in Movers, FindAlerts(c)
    PROVE  IInv'
  <1>1. mover[c] \in Request /\ mover[c].product \in Stocked
    BY DEF IInv, Types, FindAlerts, Request
  <1> DEFINE T == OpenAlerts(mover[c].product)
             r == [pc |-> "close", product |-> mover[c].product, tasks |-> T]
  <1>2. T \subseteq DOMAIN alerts /\ DOMAIN alerts \subseteq Nat
    BY AlertParts DEF IInv, Types, OpenAlerts
  <1>3. r \in Request
    BY <1>1, <1>2 DEF Request
  <1>4. Goes(c, r) /\ UNCHANGED <<level, alerts>>
    BY DEF FindAlerts
  <1>5. /\ mover' \in [Movers -> Request] /\ mover'[c] = r
        /\ \A d \in Movers \ {c} : mover'[d] = mover[d]
    BY <1>3, <1>4, GoesTo DEF IInv
  <1>6. RequestOK(c)'
    BY <1>2, <1>4, <1>5 DEF RequestOK
  <1>7. QED
    BY <1>4, <1>5, <1>6, QuietStep DEF IInv, Types

\* The alert that is made comes after those its creator had seen, which are closed or were
\* opened again, and after others, which it had not seen.
LEMMA CreateAlertStep ==
    ASSUME IInv, NEW c \in Movers, CreateAlert(c)
    PROVE  IInv'
  <1>1. /\ mover[c] \in Request /\ mover[c].pc = "create" /\ mover[c].product \in Stocked
        /\ mover[c].seen \in Nat /\ mover[c].overlooked \in SUBSET Nat
    BY DEF IInv, Types, CreateAlert, Request
  <1> DEFINE n == Len(alerts) + 1
             a == [product |-> mover[c].product, status |-> "pending",
                   claimed |-> FALSE, seen |-> mover[c].seen,
                   overlooked |-> mover[c].overlooked, reopened |-> FALSE]
             r == [pc |-> "assign", task |-> n]
  <1>2. a \in Alert
    BY <1>1 DEF Alert, LiveStatus, OpenStatus
  <1>3. Len(alerts) \in Nat /\ DOMAIN alerts = 1 .. Len(alerts) /\ alerts \in Seq(Alert)
    BY AlertParts DEF IInv, Types
  <1>4. alerts' = Append(alerts, a) /\ Goes(c, r) /\ UNCHANGED level
    BY DEF CreateAlert
  <1> HIDE DEF a
  <1>5. /\ alerts' \in Seq(Alert) /\ Len(alerts') = n /\ alerts'[n] = a
        /\ \A t \in 1 .. Len(alerts) : alerts'[t] = alerts[t]
    BY <1>2, <1>3, <1>4, AppendProperties
  <1>6. DOMAIN alerts' = 1 .. n
    BY <1>5, LenProperties
  <1>7. r \in Request
    BY <1>3 DEF Request
  <1>8. /\ mover' \in [Movers -> Request] /\ mover'[c] = r
        /\ \A d \in Movers \ {c} : mover'[d] = mover[d]
    BY <1>4, <1>7, GoesTo DEF IInv
  <1>9. Keeps
    BY <1>3, <1>5, <1>6 DEF Keeps
  <1>10. Types'
    BY <1>4, <1>5, <1>8 DEF IInv, Types
  <1>11. ASSUME NEW d \in Movers PROVE RequestOK(d)'
    <2>1. CASE d = c
      BY <1>3, <1>6, <1>8, <2>1 DEF RequestOK
    <2>2. CASE d # c
      BY <1>5, <1>8, <1>9, <2>2, OthersKeep DEF IInv
    <2>3. QED
      BY <2>1, <2>2
  <1>12. ASSUME NEW s \in DOMAIN alerts', NEW t \in DOMAIN alerts', s < t,
                alerts'[s].product = alerts'[t].product, alerts'[s].status # "closed"
         PROVE  alerts'[t].seen < s \/ s \in alerts'[t].overlooked \/ alerts'[s].reopened
    <2>1. s \in DOMAIN alerts /\ s \in Nat /\ alerts'[s] = alerts[s]
      BY <1>3, <1>5, <1>6, <1>12
    <2>2. CASE t = n
      <3>1. /\ alerts'[t].product = mover[c].product /\ alerts'[t].seen = mover[c].seen
            /\ alerts'[t].overlooked = mover[c].overlooked
        BY <1>5, <2>2 DEF a
      <3>2. s <= mover[c].seen => s \in mover[c].overlooked \/ alerts[s].reopened
        BY <1>1, <1>12, <2>1, <3>1 DEF IInv, RequestOK
      <3>3. QED
        BY <1>1, <1>12, <2>1, <3>1, <3>2
    <2>3. CASE t # n
      <3>1. t \in DOMAIN alerts /\ alerts'[t] = alerts[t]
        BY <1>3, <1>5, <1>6, <2>3
      <3>2. QED
        BY <1>12, <2>1, <3>1 DEF IInv, SeenWereClosed
    <2>4. QED
      BY <2>2, <2>3
  <1>13. QED
    BY <1>10, <1>11, <1>12 DEF IInv, SeenWereClosed

\* A step that writes one alert, after which a request is as before, at rest, or has
\* fewer alerts to close.
LEMMA WriteStep ==
    ASSUME IInv, NEW t \in DOMAIN alerts, NEW a, Marks(t, a), UNCHANGED level,
           alerts' = [alerts EXCEPT ![t] = a], mover' \in [Movers -> Request],
           \A d \in Movers : mover'[d] = mover[d] \/ (mover'[d] = Rest)
                             \/ (mover'[d].pc = "close" /\ mover[d].pc = "close"
                                 /\ mover'[d].tasks \subseteq mover[d].tasks)
    PROVE  IInv' /\ DOMAIN alerts' = DOMAIN alerts
  <1>1. /\ alerts' \in Seq(Alert) /\ Keeps /\ SeenWereClosed'
        /\ DOMAIN alerts' = DOMAIN alerts
    BY WritesKeep DEF IInv, Types
  <1>2. Types'
    BY <1>1 DEF IInv, Types
  <1>3. ASSUME NEW d \in Movers PROVE RequestOK(d)'
    <2>1. CASE mover'[d] = mover[d]
      BY <1>1, <2>1, OthersKeep DEF IInv
    <2>2. CASE mover'[d] = Rest
      BY <2>2 DEF RequestOK, Rest
    <2>3. CASE /\ mover'[d].pc = "close" /\ mover[d].pc = "close"
               /\ mover'[d].tasks \subseteq mover[d].tasks
      BY <1>1, <2>3 DEF IInv, RequestOK
    <2>4. QED
      BY <2>1, <2>2, <2>3
  <1>4. QED
    BY <1>1, <1>2, <1>3 DEF IInv

\* The late assignment may open what it finds closed, and marks it.
LEMMA AssignAlertStep ==
    ASSUME IInv, NEW c \in Movers, AssignAlert(c) \/ AssignCommit(c)
    PROVE  IInv'
  <1>1. mover[c].pc \in {"assign", "assigning"} /\ mover[c].task \in DOMAIN alerts
    BY DEF AssignAlert, AssignCommit, IInv, RequestOK
  <1>2. Goes(c, Rest) /\ UNCHANGED level /\ Rest \in Request
    BY DEF AssignAlert, AssignCommit, Assigned, Request, Rest
  <1>3. /\ mover' \in [Movers -> Request] /\ mover'[c] = Rest
        /\ \A d \in Movers \ {c} : mover'[d] = mover[d]
    BY <1>2, GoesTo DEF IInv
  <1>4. CASE UNCHANGED alerts
    <2>1. RequestOK(c)'
      BY <1>3 DEF RequestOK, Rest
    <2>2. QED
      BY <1>2, <1>3, <1>4, <2>1, QuietStep DEF IInv, Types
  <1>5. CASE Assigned(c)
    <2>1. Marks(mover[c].task, Written(mover[c].task, "in_progress"))
      BY <1>1, WrittenMarks DEF IInv, Types, LiveStatus, OpenStatus
    <2>2. alerts' = [alerts EXCEPT ![mover[c].task] = Written(mover[c].task, "in_progress")]
      BY <1>5 DEF Assigned
    <2>3. QED
      BY <1>1, <1>2, <1>3, <2>1, <2>2, WriteStep
  <1>6. QED
    BY <1>4, <1>5 DEF AssignAlert, AssignCommit

\* Closing opens nothing.
LEMMA CloseAlertStep ==
    ASSUME IInv, NEW c \in Movers, CloseAlert(c)
    PROVE  IInv'
  <1>1. /\ mover[c].pc = "close" /\ mover[c] \in Request /\ mover[c].tasks \subseteq DOMAIN alerts
        /\ UNCHANGED level
    BY DEF CloseAlert, IInv, RequestOK, Types
  <1>2. CASE mover[c].tasks = {}
    <2>1. Rest \in Request /\ Goes(c, Rest) /\ UNCHANGED alerts
      BY <1>2 DEF CloseAlert, Request, Rest
    <2>2. /\ mover' \in [Movers -> Request] /\ mover'[c] = Rest
          /\ \A d \in Movers \ {c} : mover'[d] = mover[d]
      BY <2>1, GoesTo DEF IInv
    <2>3. RequestOK(c)'
      BY <2>2 DEF RequestOK, Rest
    <2>4. QED
      BY <1>1, <2>1, <2>2, <2>3, QuietStep DEF IInv, Types
  <1>3. CASE mover[c].tasks # {}
    <2>1. PICK t \in mover[c].tasks :
              /\ alerts' = [alerts EXCEPT ![t] = Written(t, "closed")]
              /\ Goes(c, [mover[c] EXCEPT !.tasks = @ \ {t}])
      BY <1>3 DEF CloseAlert
    <2> DEFINE a == Written(t, "closed")
               r == [mover[c] EXCEPT !.tasks = @ \ {t}]
    <2>2. t \in DOMAIN alerts
      BY <1>1, <2>1
    <2>3. Marks(t, a)
      BY <2>2, WrittenMarks DEF IInv, Types
    <2>4. alerts' = [alerts EXCEPT ![t] = a]
      BY <2>1
    <2>5. r \in Request /\ r.pc = "close" /\ r.tasks \subseteq mover[c].tasks
      BY <1>1 DEF Request
    <2>6. /\ mover' \in [Movers -> Request] /\ mover'[c] = r
          /\ \A d \in Movers \ {c} : mover'[d] = mover[d]
      BY <2>1, <2>5, GoesTo DEF IInv
    <2> HIDE DEF a, r
    <2>7. QED
      BY <1>1, <2>2, <2>3, <2>4, <2>5, <2>6, WriteStep
  <1>4. QED
    BY <1>2, <1>3

\* What people write is marked too.
LEMMA PeopleStepKeeps ==
    ASSUME IInv, NEW t \in DOMAIN alerts, PeopleStep(t)
    PROVE  IInv'
  <1>1. ASSUME NEW c \in Movers, AssignByHand(c, t) PROVE IInv'
    <2> DEFINE r == [pc |-> "assigning", task |-> t]
    <2>1. t \in Nat
      BY AlertParts DEF IInv, Types
    <2>2. r \in Request /\ Goes(c, r) /\ UNCHANGED <<level, alerts>>
      BY <1>1, <2>1 DEF AssignByHand, Request
    <2>3. /\ mover' \in [Movers -> Request] /\ mover'[c] = r
          /\ \A d \in Movers \ {c} : mover'[d] = mover[d]
      BY <2>2, GoesTo DEF IInv
    <2>4. RequestOK(c)'
      BY <2>2, <2>3 DEF RequestOK
    <2>5. QED
      BY <2>2, <2>3, <2>4, QuietStep DEF IInv, Types
  <1>2. CASE ClaimAlert(t) \/ OverrideClaim(t) \/ ReassignAlert(t) \/ CloseByHand(t)
    <2>1. PICK a : Marks(t, a) /\ alerts' = [alerts EXCEPT ![t] = a]
      <3>1. /\ Marks(t, Written(t, "claimed")) /\ Marks(t, Written(t, "closed"))
            /\ Marks(t, [Written(t, "claimed") EXCEPT !.claimed = TRUE])
            /\ Marks(t, [alerts[t] EXCEPT !.claimed = TRUE])
        BY WrittenMarks DEF IInv, Types, LiveStatus
      <3>2. CASE ClaimAlert(t)
        BY <3>1, <3>2 DEF ClaimAlert
      <3>3. CASE OverrideClaim(t)
        BY <3>1, <3>3 DEF OverrideClaim
      <3>4. CASE ReassignAlert(t)
        <4>1. alerts' = [alerts EXCEPT ![t] = [alerts[t] EXCEPT !.claimed = TRUE]]
          BY <3>4 DEF ReassignAlert
        <4>2. QED
          BY <3>1, <4>1
      <3>5. CASE CloseByHand(t)
        BY <3>1, <3>5 DEF CloseByHand
      <3>6. QED
        BY <1>2, <3>2, <3>3, <3>4, <3>5
    <2>2. UNCHANGED <<level, mover>>
      BY <1>2 DEF ClaimAlert, OverrideClaim, ReassignAlert, CloseByHand
    <2>3. QED
      BY <2>1, <2>2, WriteStep DEF IInv, Types
  <1>3. QED
    BY <1>1, <1>2 DEF PeopleStep

\* What the database holds survives a crash, what requests remember does not.
LEMMA OtherStep ==
    ASSUME IInv,
           AlertsCrash \/ UNCHANGED alertVars \/ \E p \in Stocked, q \in Moves : SilentUp(p, q)
    PROVE  IInv'
  <1>1. UNCHANGED alerts /\ level' \in [Stocked -> Nat]
    <2>1. ASSUME NEW p \in Stocked, NEW q \in Moves, SilentUp(p, q)
          PROVE  level' \in [Stocked -> Nat]
      <3>1. q \in Nat /\ level \in [Stocked -> Nat] /\ level[p] + q \in Nat
        BY AlertsAssumption DEF IInv, Types
      <3>2. QED
        BY <2>1, <3>1 DEF SilentUp
    <2>2. QED
      BY <2>1 DEF AlertsCrash, SilentUp, alertVars, IInv, Types
  <1>2. UNCHANGED mover \/ mover' = [c \in Movers |-> Rest]
    BY DEF AlertsCrash, SilentUp, alertVars
  <1>3. mover' \in [Movers -> Request]
    BY <1>2 DEF IInv, Types, Request, Rest
  <1>4. \A d \in Movers : RequestOK(d)'
    BY <1>1, <1>2 DEF IInv, RequestOK, Rest
  <1>5. QED
    BY <1>1, <1>3, <1>4 DEF IInv, Types, SeenWereClosed

\* The invariant holds at the start, and every step keeps it.
LEMMA InitInv == AlertsInit => IInv
  <1> SUFFICES ASSUME AlertsInit PROVE IInv
    OBVIOUS
  <1>1. level \in [Stocked -> Nat]
    BY AlertsAssumption DEF AlertsInit
  <1>2. alerts = <<>> /\ DOMAIN alerts = {}
    BY DEF AlertsInit
  <1>3. alerts \in Seq(Alert)
    BY <1>2
  <1>4. mover \in [Movers -> Request] /\ \A c \in Movers : mover[c].pc = "idle"
    BY DEF AlertsInit, Request, Rest
  <1>5. QED
    BY <1>1, <1>2, <1>3, <1>4 DEF IInv, Types, RequestOK, SeenWereClosed

\* One lemma per kind of step.
LEMMA StepInv == IInv /\ [AlertsNext]_alertVars => IInv'
  <1> SUFFICES ASSUME IInv, [AlertsNext]_alertVars PROVE IInv'
    OBVIOUS
  <1>1. ASSUME NEW c \in Movers, AlertStep(c) PROVE IInv'
    BY <1>1, StockStep, LookForAlertStep, FindAlertsStep, CreateAlertStep, AssignAlertStep,
       CloseAlertStep DEF AlertStep
  <1>2. ASSUME NEW c \in Movers, NEW p \in Stocked, NEW q \in Moves,
               SaleRead(c, p, q) \/ Adjust(c, p, q) \/ Adjust(c, p, -q) \/ Restock(c, p, q)
        PROVE  IInv'
    BY <1>2, StockStep
  <1>3. QED
    BY <1>1, <1>2, PeopleStepKeeps, OtherStep DEF AlertsNext

\* So it always holds.
LEMMA Invariant == AlertsSpec => []IInv
  BY InitInv, StepInv, PTL DEF AlertsSpec

-----------------------------------------------------------------------------
(* The theorems. *)

\* Stocks, alerts and requests have their types; so no stock is ever negative.
THEOREM AlertsTypeCorrect == AlertsSpec => []AlertsTypeOK
  <1>1. IInv => AlertsTypeOK
    BY DEF IInv, Types, AlertsTypeOK, Request
  <1>2. QED
    BY <1>1, Invariant, PTL

\* What the write of one alert does to another's status, and to its own.
LEMMA WritesStatus ==
    ASSUME alerts \in Seq(Alert), NEW t \in DOMAIN alerts, alerts[t].status = "closed",
           alerts'[t].status # "closed",
           NEW u \in DOMAIN alerts, NEW s \in LiveStatus \cup {"closed"},
           \/ alerts' = [alerts EXCEPT ![u] = Written(u, s)]
           \/ alerts' = [alerts EXCEPT ![u] = [Written(u, s) EXCEPT !.claimed = TRUE]]
    PROVE  u = t /\ alerts'[t].status = s /\ s # "closed"
  <1>1. Written(u, s).status = s
    BY WrittenMarks
  <1>2. Written(u, s) \in Alert
    BY WrittenMarks DEF Marks
  <1>3. [Written(u, s) EXCEPT !.claimed = TRUE].status = s
    BY <1>1, <1>2 DEF Alert
  <1>4. alerts'[u].status = s
    BY <1>1, <1>3
  <1>5. u # t => alerts'[t] = alerts[t]
    OBVIOUS
  <1>6. QED
    BY <1>4, <1>5

\* Only an assignment that had read an alert pending opens it again, or who takes it over.
LEMMA OnlySo == IInv /\ [AlertsNext]_alertVars => [ReopenedByWhom]_alertVars
  <1> SUFFICES ASSUME IInv, AlertsNext, NEW t \in DOMAIN alerts,
                      alerts[t].status = "closed", alerts'[t].status # "closed"
               PROVE  \/ alerts[t].claimed /\ alerts'[t].status = "claimed"
                      \/ \E c \in Movers : /\ mover[c].pc \in {"assign", "assigning"}
                                           /\ mover[c].task = t /\ mover'[c] = Rest
    BY DEF ReopenedByWhom
  <1>1. Len(alerts) \in Nat /\ DOMAIN alerts = 1 .. Len(alerts) /\ alerts \in Seq(Alert)
    BY AlertParts DEF IInv, Types
  <1>2. ASSUME NEW c \in Movers, CreateAlert(c) PROVE FALSE
    <2> DEFINE a == [product |-> mover[c].product, status |-> "pending",
                     claimed |-> FALSE, seen |-> mover[c].seen,
                     overlooked |-> mover[c].overlooked, reopened |-> FALSE]
    <2>1. /\ mover[c].product \in Stocked /\ mover[c].seen \in Nat
          /\ mover[c].overlooked \in SUBSET Nat
      BY <1>2 DEF IInv, Types, CreateAlert, Request
    <2>2. a \in Alert
      BY <2>1 DEF Alert, LiveStatus, OpenStatus
    <2>3. alerts' = Append(alerts, a)
      BY <1>2 DEF CreateAlert
    <2> HIDE DEF a
    <2>4. alerts'[t] = alerts[t]
      BY <1>1, <2>2, <2>3, AppendProperties
    <2>5. QED
      BY <2>4
  <1>3. ASSUME NEW c \in Movers, CloseAlert(c) PROVE FALSE
    <2>1. PICK u \in mover[c].tasks : alerts' = [alerts EXCEPT ![u] = Written(u, "closed")]
      BY <1>3 DEF CloseAlert
    <2>2. u \in DOMAIN alerts
      BY <1>3 DEF IInv, CloseAlert, RequestOK
    <2>3. QED
      BY <1>1, <2>1, <2>2, WritesStatus
  <1>4. ASSUME NEW u \in DOMAIN alerts,
               ClaimAlert(u) \/ OverrideClaim(u) \/ ReassignAlert(u) \/ CloseByHand(u)
        PROVE  alerts[t].claimed /\ alerts'[t].status = "claimed"
    <2>1. CASE ClaimAlert(u)
      <3>1. u = t
        BY <1>1, <2>1, WritesStatus DEF ClaimAlert, LiveStatus
      <3>2. QED
        BY <2>1, <3>1 DEF ClaimAlert, Claimable
    <2>2. CASE OverrideClaim(u)
      <3>1. u = t /\ alerts'[t].status = "claimed"
        BY <1>1, <2>2, WritesStatus DEF OverrideClaim, LiveStatus
      <3>2. QED
        BY <2>2, <3>1 DEF OverrideClaim
    <2>3. CASE ReassignAlert(u)
      <3>1. alerts[u] \in Alert /\ alerts' = [alerts EXCEPT ![u].claimed = TRUE]
        BY <2>3, AlertParts DEF ReassignAlert, IInv, Types
      <3>2. alerts'[t].status = alerts[t].status
        BY <3>1 DEF Alert
      <3>3. QED
        BY <3>2
    <2>4. CASE CloseByHand(u)
      BY <1>1, <2>4, WritesStatus DEF CloseByHand
    <2>5. QED
      BY <1>4, <2>1, <2>2, <2>3, <2>4
  <1>5. ASSUME NEW c \in Movers, AssignAlert(c) \/ AssignCommit(c)
        PROVE  /\ mover[c].pc \in {"assign", "assigning"} /\ mover[c].task = t
               /\ mover'[c] = Rest
    <2>1. mover[c].pc \in {"assign", "assigning"} /\ mover'[c] = Rest
      BY <1>5 DEF AssignAlert, AssignCommit, Assigned, Goes, IInv, Types
    <2>2. Assigned(c) \/ UNCHANGED alerts
      BY <1>5 DEF AssignAlert, AssignCommit
    <2>3. CASE Assigned(c)
      <3>1. /\ mover[c].task \in DOMAIN alerts
            /\ alerts' = [alerts EXCEPT ![mover[c].task] = Written(mover[c].task, "in_progress")]
        BY <2>1, <2>3 DEF Assigned, IInv, RequestOK
      <3>2. QED
        BY <1>1, <2>1, <3>1, WritesStatus DEF LiveStatus, OpenStatus
    <2>4. CASE UNCHANGED alerts
      BY <2>4
    <2>5. QED
      BY <2>2, <2>3, <2>4
  <1>6. ~UNCHANGED alerts
    OBVIOUS
  <1>7. QED
    BY <1>2, <1>3, <1>4, <1>5, <1>6
    DEF AlertsNext, AlertStep, PeopleStep, SaleUpdate, SaleRefresh, AdjustRefresh, RestockRefresh,
        LookForAlert, FindAlerts, SaleRead, Adjust, Restock, SilentUp, AssignByHand, AlertsCrash

\* However sales, restocks, adjustments and people interleave, and wherever the server
\* stops, a product has a second alert to be done only if its maker had looked before the
\* first was there or while it was claimed, or if the first was closed and opened again; and
\* that is done only by an assignment that had read it pending, or by who takes it over.
THEOREM AlertsAreExplained == AlertsSpec => AlertsExplained
  <1>1. IInv => SecondAlertExplained
    <2> SUFFICES ASSUME IInv, NEW p \in Stocked, NEW s \in Live(p), NEW t \in Live(p), s < t
                 PROVE  alerts[t].seen < s \/ s \in alerts[t].overlooked \/ alerts[s].reopened
      BY DEF SecondAlertExplained
    <2>1. /\ s \in DOMAIN alerts /\ t \in DOMAIN alerts
          /\ alerts[s].product = alerts[t].product /\ alerts[s].status # "closed"
      BY DEF Live, LiveStatus, OpenStatus
    <2>2. QED
      BY <2>1 DEF IInv, SeenWereClosed
  <1>2. QED
    BY <1>1, OnlySo, Invariant, PTL DEF AlertsSpec, AlertsExplained, ReopenedOnlySo

-----------------------------------------------------------------------------
(* Notices. *)

\* What there is to tell of.
Kinds == {"assigned", "closed", "completed", "created", "stock", "mention"}

\* A telling, and one that walks the sockets of a user, or was stopped there.
Telling == [pc : {"make", "commit", "done", "failed"}, kind : Kinds, to : SUBSET Staff,
            left : SUBSET Staff, flushed : SUBSET Staff]
Walking == [pc : {"emit", "failed"}, kind : Kinds, to : SUBSET Staff, left : SUBSET Staff,
            flushed : SUBSET Staff, user : Staff, size : {Cardinality(L) : L \in SUBSET Lines},
            sent : SUBSET Lines]
Job == [pc : {"none"}] \cup Telling \cup Walking

\* The types, with those of the tellings.
NoticeTypes ==
    /\ online \subseteq Lines /\ participants \subseteq Staff
    /\ notices \in [Staff \X Events -> {"none", "unread", "read", "deleted"}]
    /\ emitted \subseteq Staff \X Events
    /\ cut \subseteq Events
    /\ job \in [Events -> Job]

\* Told: there is, or was, a row; sent: a socket had it.
Told(u, e) == notices[<<u, e>>] # "none"
Sent(u, e) == <<u, e>> \in emitted
AllTold(e)  == \A u \in job[e].to : Told(u, e)
NoneTold(e) == \A u \in job[e].to : ~Told(u, e)

\* What has been done for a telling agrees with what is left of it.
JobOK(e) ==
    LET j == job[e] IN
    /\ j.pc = "none" => \A u \in Staff : ~Told(u, e) /\ ~Sent(u, e)
    /\ j.pc # "none" => \A u \in Staff : Sent(u, e) => Told(u, e) \/ j.kind = "mention"
    /\ j.pc \in {"make", "emit"} /\ Mode(j.kind) = "at once" =>
           \A u \in j.to \ j.left : Told(u, e)
    /\ j.pc = "make" /\ Mode(j.kind) # "at once" => j.to \ j.left \subseteq j.flushed
    /\ j.pc = "make" /\ Mode(j.kind) = "deferred" => NoneTold(e)
    /\ j.pc = "emit" => Mode(j.kind) # "early" /\ Told(j.user, e)
    /\ j.pc = "emit" /\ Mode(j.kind) = "deferred" => AllTold(e)
    /\ j.pc = "commit" => Mode(j.kind) = "deferred" /\ j.left \subseteq j.to /\ AllTold(e)
    /\ j.pc = "done" => e \in cut \/ AllTold(e)
    /\ j.pc # "none" /\ Mode(j.kind) = "deferred" => AllTold(e) \/ NoneTold(e)
    /\ j.pc # "none" => j.left \subseteq j.to /\ j.flushed \subseteq j.to

\* The types, and every telling is right.
NoticeInv == NoticeTypes /\ \A e \in Events : JobOK(e)

-----------------------------------------------------------------------------
(* What the operators do. *)

\* The rows a telling writes are its own.
LEMMA RowsWritten ==
    ASSUME NoticeTypes, NEW us, NEW e \in Events
    PROVE  /\ NoticesWith(us, e) \in [Staff \X Events -> {"none", "unread", "read", "deleted"}]
           /\ \A u \in Staff, f \in Events :
                 NoticesWith(us, e)[<<u, f>>] = IF u \in us /\ f = e THEN "unread" ELSE notices[<<u, f>>]
  BY DEF NoticeTypes, NoticesWith

\* Only mentions go out early.
LEMMA ModeOf == \A k \in Kinds : /\ Mode(k) \in {"deferred", "early", "at once"}
                                 /\ Mode(k) = "early" <=> k = "mention"
  BY DEF Kinds, Mode

\* A walk is a telling again when nobody is connected.
LEMMA WalkType ==
    ASSUME NoticeTypes, NEW e \in Events, job[e] \in Telling, NEW u \in Staff
    PROVE  LET w == Walk(e, u)
           IN  /\ w \in Job /\ w.kind = job[e].kind /\ w.to = job[e].to
               /\ w.flushed = job[e].flushed /\ w.left = job[e].left \ {u}
               /\ IF LinesOf(u) = {} THEN w.pc = "make" ELSE w.pc = "emit" /\ w.user = u
  <1>1. CASE LinesOf(u) = {}
    BY <1>1 DEF Walk, After, Job, Telling
  <1>2. CASE LinesOf(u) # {}
    <2>1. Cardinality(online) \in {Cardinality(L) : L \in SUBSET Lines}
      BY DEF NoticeTypes
    <2>2. QED
      BY <1>2, <2>1 DEF Walk, Job, Telling, Walking
  <1>3. QED
    BY <1>1, <1>2

\* Whether a notice is there, and whether it was sent, for every event but one.
SameBut(e) ==
    \A f \in Events \ {e} : /\ job'[f] = job[f] /\ (f \in cut => f \in cut')
                            /\ \A u \in Staff : /\ Told(u, f)' <=> Told(u, f)
                                                /\ Sent(u, f)' <=> Sent(u, f)

\* A telling is right as long as nothing of it changes.
LEMMA OthersStay ==
    ASSUME NoticeInv, NEW e \in Events, SameBut(e), NEW f \in Events \ {e}
    PROVE  JobOK(f)'
  <1>1. job[f] \in Job /\ JobOK(f) /\ job'[f] = job[f]
    BY DEF NoticeInv, NoticeTypes, SameBut
  <1>2. job[f].pc = "none" \/ (job[f].to \subseteq Staff /\ job[f].left \subseteq Staff)
    BY <1>1 DEF Job, Telling, Walking
  <1>3. job[f].pc = "emit" => job[f].user \in Staff
    BY <1>1 DEF Job, Telling, Walking
  <1>4. \A u \in Staff : (Told(u, f)' <=> Told(u, f)) /\ (Sent(u, f)' <=> Sent(u, f))
    BY DEF SameBut
  <1>5. job[f].pc # "none" => (AllTold(f)' <=> AllTold(f)) /\ (NoneTold(f)' <=> NoneTold(f))
    BY <1>1, <1>2, <1>4 DEF AllTold, NoneTold
  <1>6. f \in cut => f \in cut'
    BY DEF SameBut
  <1> HIDE DEF Told, Sent, AllTold, NoneTold
  <1>7. QED
    BY <1>1, <1>2, <1>3, <1>4, <1>5, <1>6 DEF JobOK

\* A telling moves on.
LEMMA JobMoves ==
    ASSUME NoticeInv, NEW e \in Events, NEW r \in Job, job' = [job EXCEPT ![e] = r],
           online' \subseteq Lines, participants' \subseteq Staff,
           notices' \in [Staff \X Events -> {"none", "unread", "read", "deleted"}],
           emitted' \subseteq Staff \X Events, cut' \subseteq Events,
           \A f \in Events \ {e} : /\ f \in cut => f \in cut'
                                   /\ \A u \in Staff : /\ Told(u, f)' <=> Told(u, f)
                                                       /\ Sent(u, f)' <=> Sent(u, f),
           job'[e] = r => JobOK(e)'
    PROVE  NoticeInv'
  <1>1. job' \in [Events -> Job] /\ job'[e] = r /\ \A f \in Events \ {e} : job'[f] = job[f]
    BY DEF NoticeInv, NoticeTypes
  <1>2. SameBut(e)
    BY <1>1 DEF SameBut
  <1>3. \A f \in Events : JobOK(f)'
    BY <1>1, <1>2, OthersStay
  <1>4. NoticeTypes'
    BY <1>1 DEF NoticeTypes
  <1>5. QED
    BY <1>3, <1>4 DEF NoticeInv

-----------------------------------------------------------------------------
(* The steps. *)

\* A telling begins with nobody told.
LEMMA BeginStep ==
    ASSUME NoticeInv, NEW e \in Events, NEW k \in Kinds, NEW to \in SUBSET Staff,
           Begins(e, k, to), participants' \subseteq Staff
    PROVE  NoticeInv'
  <1> DEFINE r == [pc |-> "make", kind |-> k, to |-> to, left |-> to, flushed |-> {}]
  <1>1. r \in Job
    BY DEF Job, Telling
  <1>2. \A u \in Staff : ~Told(u, e) /\ ~Sent(u, e)
    <2>1. job[e].pc = "none"
      BY DEF Begins, Unborn
    <2>2. QED
      BY <2>1 DEF NoticeInv, JobOK
  <1>3. job' = [job EXCEPT ![e] = r] /\ UNCHANGED <<online, notices, emitted, cut>>
    BY DEF Begins
  <1>4. job'[e] = r => JobOK(e)'
    <2>1. \A u \in Staff : ~Told(u, e)' /\ ~Sent(u, e)'
      BY <1>2, <1>3 DEF Told, Sent
    <2>2. QED
      <3> SUFFICES ASSUME job'[e] = r PROVE JobOK(e)'
        OBVIOUS
      <3>1. /\ job'[e].pc = "make" /\ job'[e].to \subseteq Staff
            /\ job'[e].left = job'[e].to /\ job'[e].flushed = {}
        OBVIOUS
      <3> HIDE DEF r
      <3>2. NoneTold(e)'
        BY <2>1, <3>1 DEF NoneTold
      <3>3. QED
        BY <2>1, <3>1, <3>2 DEF JobOK
  <1>5. QED
    BY <1>1, <1>3, <1>4, JobMoves DEF NoticeInv, NoticeTypes, Told, Sent

\* Committed and emitted recipient by recipient.
LEMMA TellStep ==
    ASSUME NoticeInv, NEW e \in Events, TellAtOnce(e)
    PROVE  NoticeInv'
  <1>1. /\ job[e] \in Job /\ job[e].pc = "make" /\ Mode(job[e].kind) = "at once" /\ JobOK(e)
        /\ NoticeTypes /\ job[e] \in Telling
    BY DEF TellAtOnce, NoticeInv, NoticeTypes, Job, Walking
  <1>2. PICK u \in job[e].left : notices' = NoticesWith({u}, e) /\ job' = [job EXCEPT ![e] = Walk(e, u)]
    BY DEF TellAtOnce, Noticed
  <1>3. u \in Staff
    BY <1>1, <1>2 DEF Telling
  <1> DEFINE w == Walk(e, u)
  <1>4. /\ w \in Job /\ w.kind = job[e].kind /\ w.to = job[e].to
        /\ w.flushed = job[e].flushed /\ w.left = job[e].left \ {u}
        /\ IF LinesOf(u) = {} THEN w.pc = "make" ELSE w.pc = "emit" /\ w.user = u
    BY <1>1, <1>3, WalkType
  <1> HIDE DEF w
  <1>5. /\ notices' \in [Staff \X Events -> {"none", "unread", "read", "deleted"}]
        /\ \A v \in Staff, f \in Events :
              notices'[<<v, f>>] = IF v = u /\ f = e THEN "unread" ELSE notices[<<v, f>>]
    <2>1. /\ NoticesWith({u}, e) \in [Staff \X Events -> {"none", "unread", "read", "deleted"}]
          /\ \A v \in Staff, f \in Events :
               NoticesWith({u}, e)[<<v, f>>] = IF v \in {u} /\ f = e THEN "unread" ELSE notices[<<v, f>>]
      BY <1>1 DEF NoticesWith, NoticeTypes
    <2>2. QED
      BY <1>2, <2>1
  <1>6. UNCHANGED <<online, participants, emitted, cut>>
    BY DEF TellAtOnce
  <1>7. job'[e] = w => JobOK(e)'
    <2> SUFFICES ASSUME job'[e] = w PROVE JobOK(e)'
      OBVIOUS
    <2>1. \A v \in Staff : Told(v, e)' <=> Told(v, e) \/ v = u
      BY <1>3, <1>5 DEF Told
    <2>2. \A v \in Staff : Sent(v, e)' <=> Sent(v, e)
      BY <1>6 DEF Sent
    <2>3. job[e].to \subseteq Staff
      BY <1>1 DEF Telling
    <2> HIDE DEF Told, Sent
    <2>4. QED
      BY <1>1, <1>2, <1>4, <2>1, <2>2, <2>3 DEF JobOK, AllTold, NoneTold
  <1>8. QED
    <2>1. \A f \in Events \ {e}, v \in Staff : (Told(v, f)' <=> Told(v, f)) /\ (Sent(v, f)' <=> Sent(v, f))
      BY <1>5, <1>6 DEF Told, Sent
    <2>2. job' = [job EXCEPT ![e] = w]
      BY <1>2 DEF w
    <2> HIDE DEF Told, Sent
    <2>3. QED
      BY <1>1, <1>4, <1>5, <1>6, <1>7, <2>1, <2>2, JobMoves DEF NoticeTypes

\* A telling that changes nothing but its own record, and perhaps its end by an exception.
LEMMA QuietMove ==
    ASSUME NoticeInv, NEW e \in Events, NEW r \in Job, job' = [job EXCEPT ![e] = r],
           UNCHANGED <<online, participants, notices, emitted>>,
           cut' = cut \/ cut' = cut \cup {e},
           job[e].pc # "none", r.pc # "none", r.kind = job[e].kind, r.to = job[e].to,
           r.left \subseteq r.to, r.flushed \subseteq r.to,
           r.pc \in {"make", "emit"} /\ Mode(r.kind) = "at once" =>
               \A u \in r.to \ r.left : Told(u, e),
           r.pc = "make" => job[e].pc \in {"make", "emit"} /\ Mode(r.kind) # "deferred",
           r.pc = "make" /\ Mode(r.kind) # "at once" => r.to \ r.left \subseteq r.flushed,
           r.pc = "emit" => Mode(r.kind) # "early" /\ Told(r.user, e),
           r.pc = "emit" /\ Mode(r.kind) = "deferred" => AllTold(e),
           r.pc = "commit" => Mode(r.kind) = "deferred" /\ AllTold(e),
           r.pc = "done" => e \in cut' \/ AllTold(e)
    PROVE  NoticeInv'
  <1>1. JobOK(e) /\ job[e] \in Job /\ NoticeTypes
    BY DEF NoticeInv, NoticeTypes
  <1>2. \A f \in Events, u \in Staff : (Told(u, f)' <=> Told(u, f)) /\ (Sent(u, f)' <=> Sent(u, f))
    BY DEF Told, Sent
  <1>3. ASSUME job'[e] = r PROVE JobOK(e)'
    <2>1. job'[e].to = job[e].to /\ job[e].to \subseteq Staff
      BY <1>1, <1>3 DEF Job, Telling, Walking
    <2>2. (AllTold(e)' <=> AllTold(e)) /\ (NoneTold(e)' <=> NoneTold(e))
      BY <1>2, <2>1 DEF AllTold, NoneTold
    <2>3. r.left \subseteq Staff /\ (r.pc = "emit" => r.user \in Staff)
      BY DEF Job, Telling, Walking
    <2>4. \A u \in Staff : Sent(u, e) => Told(u, e) \/ r.kind = "mention"
      BY <1>1 DEF JobOK
    <2>5. Mode(r.kind) = "deferred" => AllTold(e) \/ NoneTold(e)
      BY <1>1 DEF JobOK
    <2> HIDE DEF AllTold, NoneTold, Told, Sent
    <2>6. QED
      BY <1>2, <1>3, <2>1, <2>2, <2>3, <2>4, <2>5 DEF JobOK
  <1>4. cut' \subseteq Events /\ \A f \in Events : f \in cut => f \in cut'
    BY <1>1 DEF NoticeTypes
  <1>5. QED
    BY <1>1, <1>2, <1>3, <1>4, JobMoves DEF NoticeTypes

\* A flush changes no row; a mention is sent with it.
LEMMA FlushStep ==
    ASSUME NoticeInv, NEW e \in Events, Flush(e)
    PROVE  NoticeInv'
  <1>1. /\ job[e] \in Job /\ job[e].pc = "make" /\ Mode(job[e].kind) # "at once" /\ JobOK(e)
        /\ NoticeTypes /\ job[e] \in Telling
    BY DEF Flush, NoticeInv, NoticeTypes, Job, Walking
  <1>2. PICK u \in job[e].left :
            /\ job' = [job EXCEPT ![e].left = @ \ {u}, ![e].flushed = @ \cup {u}]
            /\ emitted' = SentWithFlush(e, u)
    BY DEF Flush
  <1> DEFINE r == [job[e] EXCEPT !.left = @ \ {u}, !.flushed = @ \cup {u}]
  <1>3. u \in Staff /\ u \in job[e].to /\ job[e].to \subseteq Staff
    BY <1>1 DEF Telling, JobOK
  <1>4. /\ r \in Job /\ r.pc = "make" /\ r.kind = job[e].kind /\ r.to = job[e].to
        /\ r.left = job[e].left \ {u} /\ r.flushed = job[e].flushed \cup {u}
    BY <1>1, <1>3 DEF Job, Telling
  <1>5. job' = [job EXCEPT ![e] = r] /\ UNCHANGED <<online, participants, notices, cut>>
    BY <1>2 DEF Flush
  <1> HIDE DEF r
  <1>6. emitted' = emitted \/ (job[e].kind = "mention" /\ emitted' = emitted \cup {<<u, e>>})
    <2>1. job[e].kind \in Kinds
      BY <1>1 DEF Telling
    <2>2. QED
      BY <1>2, <2>1, ModeOf DEF SentWithFlush
  <1>7. \A f \in Events, v \in Staff : /\ Told(v, f)' <=> Told(v, f)
                                       /\ Sent(v, f)' => Sent(v, f) \/ (f = e /\ r.kind = "mention")
                                       /\ Sent(v, f) => Sent(v, f)'
    BY <1>4, <1>5, <1>6 DEF Told, Sent
  <1>8. ASSUME job'[e] = r PROVE JobOK(e)'
    <2>1. NoneTold(e)' <=> NoneTold(e)
      BY <1>3, <1>4, <1>7, <1>8 DEF NoneTold
    <2> HIDE DEF Told, Sent, NoneTold, AllTold
    <2>2. QED
      BY <1>1, <1>3, <1>4, <1>7, <1>8, <2>1 DEF JobOK
  <1>9. emitted' \subseteq Staff \X Events
    BY <1>1, <1>3, <1>6 DEF NoticeTypes
  <1>10. QED
    BY <1>1, <1>4, <1>5, <1>7, <1>8, <1>9, JobMoves DEF NoticeTypes

\* One commit for all recipients: the telling was owed to all of them.
LEMMA CommitStep ==
    ASSUME NoticeInv, NEW e \in Events, Commit(e)
    PROVE  NoticeInv'
  <1>1. /\ job[e] \in Job /\ job[e].pc = "make" /\ Mode(job[e].kind) # "at once" /\ JobOK(e)
        /\ NoticeTypes /\ job[e] \in Telling /\ job[e].left = {}
    BY DEF Commit, NoticeInv, NoticeTypes, Job, Walking
  <1> DEFINE F == job[e].flushed
             r == [job[e] EXCEPT !.pc = IF Mode(job[e].kind) = "early" THEN "done" ELSE "commit",
                                 !.left = job[e].flushed]
  <1>2. F = job[e].to /\ F \subseteq Staff
    BY <1>1 DEF JobOK, Telling
  <1>3. /\ r \in Job /\ r.kind = job[e].kind /\ r.to = job[e].to
        /\ r.left = F /\ r.flushed = F
        /\ r.pc = IF Mode(job[e].kind) = "early" THEN "done" ELSE "commit"
    BY <1>1, <1>2 DEF Job, Telling
  <1>4. /\ job' = [job EXCEPT ![e] = r] /\ UNCHANGED <<online, participants, emitted, cut>>
        /\ notices' = NoticesWith(F, e)
    BY DEF Commit, Committed
  <1> HIDE DEF r
  <1>5. /\ notices' \in [Staff \X Events -> {"none", "unread", "read", "deleted"}]
        /\ \A v \in Staff, f \in Events :
              notices'[<<v, f>>] = IF v \in F /\ f = e THEN "unread" ELSE notices[<<v, f>>]
    BY <1>1, <1>4 DEF NoticesWith, NoticeTypes
  <1>6. \A f \in Events, v \in Staff : /\ Told(v, f)' <=> Told(v, f) \/ (v \in F /\ f = e)
                                       /\ Sent(v, f)' <=> Sent(v, f)
    BY <1>4, <1>5 DEF Told, Sent
  <1>7. ASSUME job'[e] = r PROVE JobOK(e)'
    <2>1. AllTold(e)'
      BY <1>2, <1>3, <1>6, <1>7 DEF AllTold
    <2>2. \A u \in Staff : Sent(u, e)' => Told(u, e)' \/ r.kind = "mention"
      BY <1>1, <1>3, <1>6 DEF JobOK
    <2>3. Mode(r.kind) \in {"deferred", "early"}
      BY <1>1, <1>3, ModeOf DEF Telling
    <2> HIDE DEF Told, Sent, AllTold
    <2>4. QED
      BY <1>2, <1>3, <1>7, <2>1, <2>2, <2>3 DEF JobOK
  <1>8. QED
    BY <1>1, <1>3, <1>4, <1>5, <1>6, <1>7, JobMoves DEF NoticeTypes

\* A deferred telling has its rows; it walks, skips or is done.
LEMMA EmitDeferredStep ==
    ASSUME NoticeInv, NEW e \in Events, EmitDeferred(e)
    PROVE  NoticeInv'
  <1>1. /\ job[e] \in Telling /\ job[e].pc = "commit" /\ JobOK(e) /\ NoticeTypes
        /\ UNCHANGED <<online, participants, notices, emitted, cut>>
    BY DEF EmitDeferred, NoticeInv, NoticeTypes, Job, Walking
  <1>2. /\ AllTold(e) /\ Mode(job[e].kind) = "deferred" /\ job[e].left \subseteq job[e].to
        /\ job[e].flushed \subseteq job[e].to /\ job[e].to \subseteq Staff
    BY <1>1 DEF JobOK, Telling
  <1>3. SUFFICES ASSUME NEW r \in Job, job' = [job EXCEPT ![e] = r], r.kind = job[e].kind,
                        r.to = job[e].to, r.flushed = job[e].flushed, r.left \subseteq r.to,
                        r.pc \in {"commit", "emit", "done"}, r.pc = "emit" => r.user \in job[e].to
                 PROVE  NoticeInv'
    <2>1. CASE job[e].left = {}
      <3> DEFINE r == [job[e] EXCEPT !.pc = "done"]
      <3>1. /\ r \in Job /\ r.kind = job[e].kind /\ r.to = job[e].to /\ r.pc = "done"
            /\ r.flushed = job[e].flushed /\ r.left = {}
        BY <1>1, <2>1 DEF Job, Telling
      <3>2. job' = [job EXCEPT ![e] = r]
        BY <2>1 DEF EmitDeferred
      <3> HIDE DEF r
      <3>3. QED
        BY <1>3, <3>1, <3>2
    <2>2. CASE job[e].left # {}
      <3>1. PICK u \in job[e].left :
               job' = [job EXCEPT ![e] = IF LinesOf(u) = {} THEN [job[e] EXCEPT !.left = @ \ {u}]
                                         ELSE Walk(e, u)]
        BY <2>2 DEF EmitDeferred
      <3> DEFINE r == [job[e] EXCEPT !.left = @ \ {u}]
                 w == Walk(e, u)
      <3>2. u \in Staff /\ u \in job[e].to
        BY <1>2
      <3>3. CASE LinesOf(u) = {}
        <4>1. /\ r \in Job /\ r.kind = job[e].kind /\ r.to = job[e].to /\ r.pc = "commit"
              /\ r.flushed = job[e].flushed /\ r.left = job[e].left \ {u}
          BY <1>1 DEF Job, Telling
        <4>2. job' = [job EXCEPT ![e] = r]
          BY <3>1, <3>3
        <4> HIDE DEF r
        <4>3. QED
          BY <1>2, <1>3, <4>1, <4>2
      <3>4. CASE LinesOf(u) # {}
        <4>1. /\ w \in Job /\ w.kind = job[e].kind /\ w.to = job[e].to
              /\ w.flushed = job[e].flushed /\ w.left = job[e].left \ {u}
              /\ w.pc = "emit" /\ w.user = u
          BY <1>1, <3>2, <3>4, WalkType
        <4>2. job' = [job EXCEPT ![e] = w]
          BY <3>1, <3>4
        <4> HIDE DEF w
        <4>3. QED
          BY <1>2, <1>3, <3>2, <4>1, <4>2
      <3>5. QED
        BY <3>3, <3>4
    <2>3. QED
      BY <2>1, <2>2
  <1>4. r.pc = "emit" => Told(r.user, e)
    BY <1>2, <1>3 DEF AllTold
  <1> HIDE DEF Told, AllTold
  <1>5. QED
    BY <1>1, <1>2, <1>3, <1>4, QuietMove

\* The walk of one user: a send, its end, or an exception.
LEMMA EmitStep ==
    ASSUME NoticeInv, NEW e \in Events, Emit(e)
    PROVE  NoticeInv'
  <1>1. /\ job[e] \in Walking /\ job[e].pc = "emit" /\ JobOK(e) /\ NoticeTypes
        /\ job[e].kind \in Kinds /\ job[e].user \in Staff
        /\ UNCHANGED <<online, participants, notices>>
    BY DEF Emit, NoticeInv, NoticeTypes, Job, Telling, Walking
  <1>2. /\ Mode(job[e].kind) \in {"deferred", "at once"} /\ Told(job[e].user, e)
        /\ Mode(job[e].kind) = "deferred" => AllTold(e)
        /\ Mode(job[e].kind) = "at once" => \A u \in job[e].to \ job[e].left : Told(u, e)
        /\ job[e].left \subseteq job[e].to /\ job[e].flushed \subseteq job[e].to
    BY <1>1, ModeOf DEF JobOK
  <1>3. ASSUME NEW pc \in {"make", "commit", "done"}, job' = [job EXCEPT ![e] = Walked(job[e], pc)],
               pc = "commit" <=> Mode(job[e].kind) = "deferred",
               cut' = cut \/ cut' = cut \cup {e}, pc = "done" => e \in cut', UNCHANGED emitted
        PROVE  NoticeInv'
    <2> DEFINE r == Walked(job[e], pc)
    <2>1. /\ r \in Job /\ r.kind = job[e].kind /\ r.to = job[e].to /\ r.pc = pc
          /\ r.flushed = job[e].flushed /\ r.left = job[e].left
      BY <1>1, <1>3 DEF Job, Telling, Walking, Walked
    <2>2. job' = [job EXCEPT ![e] = r]
      BY <1>3
    <2> HIDE DEF r
    <2>3. QED
      BY <1>1, <1>2, <1>3, <2>1, <2>2, QuietMove
  <1>4. ASSUME NEW l \in LinesOf(job[e].user),
               job' = [job EXCEPT ![e].sent = @ \cup {l}], UNCHANGED cut,
               emitted' = emitted \cup {<<job[e].user, e>>}
        PROVE  NoticeInv'
    <2> DEFINE r == [job[e] EXCEPT !.sent = @ \cup {l}]
    <2>1. l \in Lines
      BY <1>1 DEF LinesOf, NoticeTypes
    <2>2. /\ r \in Job /\ r.kind = job[e].kind /\ r.to = job[e].to /\ r.pc = "emit"
          /\ r.flushed = job[e].flushed /\ r.left = job[e].left /\ r.user = job[e].user
      BY <1>1, <2>1 DEF Job, Walking
    <2>3. job' = [job EXCEPT ![e] = r]
      BY <1>4
    <2> HIDE DEF r
    <2>4. \A f \in Events, v \in Staff : /\ Told(v, f)' <=> Told(v, f)
                                         /\ Sent(v, f) => Sent(v, f)'
                                         /\ Sent(v, f)' => Sent(v, f) \/ (f = e /\ v = job[e].user)
      BY <1>1, <1>4 DEF Told, Sent
    <2>5. ASSUME job'[e] = r PROVE JobOK(e)'
      <3>1. AllTold(e) => AllTold(e)'
        BY <1>1, <2>2, <2>4, <2>5 DEF AllTold, Walking
      <3>2. \A u \in Staff : Sent(u, e)' => Told(u, e)' \/ r.kind = "mention"
        BY <1>1, <1>2, <2>2, <2>4 DEF JobOK
      <3>3. job[e].to \subseteq Staff
        BY <1>1 DEF Walking
      <3> HIDE DEF Told, Sent, AllTold
      <3>4. QED
        BY <1>1, <1>2, <2>2, <2>4, <2>5, <3>1, <3>2, <3>3 DEF JobOK
    <2>6. emitted' \subseteq Staff \X Events
      BY <1>1, <1>4 DEF NoticeTypes
    <2>7. QED
      BY <1>1, <1>4, <2>2, <2>3, <2>4, <2>5, <2>6, JobMoves DEF NoticeTypes
  <1>5. QED
    BY <1>2, <1>3, <1>4 DEF Emit

\* The end of a telling, of its request, and of the server.
LEMMA EndStep ==
    ASSUME NoticeInv, (\E e \in Events : ToldAll(e) \/ Fail(e)) \/ Restart
    PROVE  NoticeInv'
  <1>1. NoticeTypes /\ \A f \in Events : JobOK(f) /\ job[f] \in Job
    BY DEF NoticeInv, NoticeTypes
  <1>2. ASSUME NEW e \in Events, NEW pc \in {"done", "failed"}, job[e].pc = "make",
               pc = "done" => job[e].left = {} /\ Mode(job[e].kind) = "at once",
               job' = [job EXCEPT ![e].pc = pc],
               UNCHANGED <<online, participants, notices, emitted, cut>>
        PROVE  NoticeInv'
    <2> DEFINE r == [job[e] EXCEPT !.pc = pc]
    <2>1. job[e] \in Telling
      BY <1>1, <1>2 DEF Job, Walking
    <2>2. /\ r \in Job /\ r.kind = job[e].kind /\ r.to = job[e].to /\ r.pc = pc
          /\ r.flushed = job[e].flushed /\ r.left = job[e].left
      BY <1>2, <2>1 DEF Job, Telling
    <2>3. job' = [job EXCEPT ![e] = r]
      BY <1>2
    <2> HIDE DEF r
    <2>4. job[e].left \subseteq job[e].to /\ job[e].flushed \subseteq job[e].to
      BY <1>1, <1>2 DEF JobOK
    <2>5. pc = "done" => AllTold(e)
      BY <1>1, <1>2 DEF JobOK, AllTold
    <2>6. QED
      BY <1>2, <2>2, <2>3, <2>4, <2>5, QuietMove
  <1>3. CASE Restart
    <2>1. ASSUME NEW f \in Events
          PROVE  /\ job'[f] \in Job
                 /\ \/ job'[f] = job[f] /\ job[f].pc \in {"none", "done"}
                    \/ /\ job'[f].pc = "failed" /\ job[f].pc \notin {"none", "done"}
                       /\ job'[f].kind = job[f].kind /\ job'[f].to = job[f].to
                       /\ job'[f].left = job[f].left /\ job'[f].flushed = job[f].flushed
      <3>1. job'[f] = IF job[f].pc \in {"none", "done"} THEN job[f]
                      ELSE [job[f] EXCEPT !.pc = "failed"]
        BY <1>3 DEF Restart
      <3>2. QED
        BY <1>1, <3>1 DEF Job, Telling, Walking
    <2>2. NoticeTypes'
      BY <1>1, <1>3, <2>1 DEF NoticeTypes, Restart
    <2>3. ASSUME NEW f \in Events PROVE JobOK(f)'
      <3>1. \A u \in Staff : (Told(u, f)' <=> Told(u, f)) /\ (Sent(u, f)' <=> Sent(u, f))
        BY <1>3 DEF Restart, Told, Sent
      <3>2. job[f].pc # "none" => job'[f].to = job[f].to /\ job[f].to \subseteq Staff
        BY <1>1, <2>1 DEF Job, Telling, Walking
      <3>3. job[f].pc # "none" => (AllTold(f)' <=> AllTold(f)) /\ (NoneTold(f)' <=> NoneTold(f))
        BY <3>1, <3>2 DEF AllTold, NoneTold
      <3>4. cut' = cut /\ JobOK(f)
        BY <1>1, <1>3 DEF Restart
      <3> HIDE DEF Told, Sent, AllTold, NoneTold
      <3>5. QED
        BY <2>1, <3>1, <3>2, <3>3, <3>4 DEF JobOK
    <2>4. QED
      BY <2>2, <2>3 DEF NoticeInv
  <1>4. QED
    BY <1>2, <1>3 DEF ToldAll, Fail

\* What users and their sockets do takes no notice away.
LEMMA UserStep ==
    ASSUME NoticeInv,
           \/ UNCHANGED noticeVars
           \/ \E l \in Lines : PlugIn(l) \/ PlugOut(l)
           \/ \E u \in Staff : (\E es \in SUBSET Events : ReadSome(u, es))
                               \/ (\E e \in Events : DeleteNotice(u, e))
    PROVE  NoticeInv'
  <1>1. NoticeTypes /\ \A f \in Events : JobOK(f) /\ job[f] \in Job
    BY DEF NoticeInv, NoticeTypes
  <1>2. UNCHANGED <<participants, emitted, job, cut>> /\ online' \subseteq Lines
    BY <1>1 DEF noticeVars, PlugIn, PlugOut, ReadSome, DeleteNotice, NoticeTypes
  <1>3. /\ notices' \in [Staff \X Events -> {"none", "unread", "read", "deleted"}]
        /\ \A p \in Staff \X Events : notices'[p] = "none" <=> notices[p] = "none"
    BY <1>1 DEF noticeVars, PlugIn, PlugOut, ReadSome, DeleteNotice, NoticeTypes
  <1>4. ASSUME NEW f \in Events PROVE JobOK(f)'
    <2>1. \A u \in Staff : (Told(u, f)' <=> Told(u, f)) /\ (Sent(u, f)' <=> Sent(u, f))
      BY <1>2, <1>3 DEF Told, Sent
    <2>2. job[f].pc # "none" => /\ job[f].to \subseteq Staff
                                /\ job[f].pc = "emit" => job[f].user \in Staff
      BY <1>1 DEF Job, Telling, Walking
    <2>3. job[f].pc # "none" => (AllTold(f)' <=> AllTold(f)) /\ (NoneTold(f)' <=> NoneTold(f))
      BY <1>2, <2>1, <2>2 DEF AllTold, NoneTold
    <2> HIDE DEF Told, Sent, AllTold, NoneTold
    <2>4. QED
      BY <1>1, <1>2, <2>1, <2>2, <2>3 DEF JobOK
  <1>5. QED
    BY <1>1, <1>2, <1>3, <1>4 DEF NoticeInv, NoticeTypes

\* Nobody has been told of anything at the start.
LEMMA NoticesStart == NoticesInit => NoticeInv
  <1> SUFFICES ASSUME NoticesInit PROVE NoticeInv
    OBVIOUS
  <1>1. NoticeTypes
    BY DEF NoticesInit, NoticeTypes, Job, Unborn
  <1>2. \A e \in Events : job[e].pc = "none"
    BY DEF NoticesInit, Unborn
  <1>3. \A e \in Events, u \in Staff : ~Told(u, e) /\ ~Sent(u, e)
    BY DEF NoticesInit, Told, Sent
  <1>4. QED
    BY <1>1, <1>2, <1>3 DEF NoticeInv, JobOK

\* One lemma per kind of step.
LEMMA NoticesStep == NoticeInv /\ [NoticesNext]_noticeVars => NoticeInv'
  <1> SUFFICES ASSUME NoticeInv, [NoticesNext]_noticeVars PROVE NoticeInv'
    OBVIOUS
  <1>1. participants \subseteq Staff /\ Holders \subseteq Staff /\ Admins \subseteq Staff
    BY NoticesAssumption DEF NoticeInv, NoticeTypes
  <1>2. ASSUME NEW e \in Events, \/ TaskClosed(e) \/ TaskCompleted(e) \/ OrderCreated(e)
                                 \/ StockAlert(e) \/ Mentions(e)
                                 \/ \E u \in Staff : TaskAssigned(e, u)
        PROVE  NoticeInv'
    <2>1. \A k \in {"assigned", "closed", "completed", "created", "stock", "mention"} : k \in Kinds
      BY DEF Kinds
    <2>2. PICK k \in Kinds, to \in SUBSET Staff : Begins(e, k, to) /\ participants' \subseteq Staff
      BY <1>1, <1>2, <2>1
      DEF TaskClosed, TaskCompleted, OrderCreated, StockAlert, Mentions, TaskAssigned
    <2>3. QED
      BY <2>2, BeginStep
  <1>3. ASSUME NEW e \in Events, \/ TellAtOnce(e) \/ Flush(e) \/ Commit(e) \/ EmitDeferred(e)
                                 \/ Emit(e) \/ ToldAll(e) \/ Fail(e)
        PROVE  NoticeInv'
    BY <1>3, TellStep, FlushStep, CommitStep, EmitDeferredStep, EmitStep, EndStep
  <1>4. QED
    BY <1>2, <1>3, EndStep, UserStep DEF NoticesNext

\* So it always holds, and with it the types of the module.
LEMMA NoticesInvariant == NoticesSpec => []NoticeInv
  BY NoticesStart, NoticesStep, PTL DEF NoticesSpec

LEMMA NoticeInvTypes == NoticeInv => NoticesTypeOK
  BY DEF NoticeInv, NoticeTypes, NoticesTypeOK, Job, Telling, Walking

\* However tellings, sockets, readers and the stops of the server interleave: an event that
\* was told to the end has a notice for each recipient unless an exception cut a walk short,
\* nobody is sent a notice that is not there but a mention, and a completion has the notices
\* of all its recipients or of none.
THEOREM NoticesAreExplained == NoticesSpec => []NoticesExplained
  <1>1. ASSUME NoticeInv PROVE MissedOnlyByChurn
    BY <1>1 DEF NoticeInv, JobOK, MissedOnlyByChurn, AllTold, Told
  <1>2. ASSUME NoticeInv PROVE SentIsThere
    <2>1. ASSUME NEW p \in emitted PROVE notices[p] # "none" \/ job[p[2]].kind = "mention"
      <3>1. PICK u \in Staff, e \in Events : p = <<u, e>>
        BY <1>2, <2>1 DEF NoticeInv, NoticeTypes
      <3>2. Sent(u, e) /\ JobOK(e)
        BY <1>2, <2>1, <3>1 DEF Sent, NoticeInv
      <3>3. Told(u, e) \/ job[e].kind = "mention"
        BY <3>2 DEF JobOK
      <3>4. QED
        BY <3>1, <3>3 DEF Told
    <2>2. \A e \in Events : job[e].pc # "none" /\ Mode(job[e].kind) = "deferred" => AllTold(e) \/ NoneTold(e)
      BY <1>2 DEF NoticeInv, JobOK
    <2>3. QED
      BY <2>1, <2>2 DEF SentIsThere, AllTold, NoneTold, Told
  <1>3. QED
    BY <1>1, <1>2, NoticesInvariant, PTL DEF NoticesExplained

-----------------------------------------------------------------------------
(* Attachments. *)

\* Uploads and deletions in flight.
Upload == [pc : {"new"}] \cup [pc : {"over"}]
          \cup [pc : {"checked", "written", "saved"}, store : Stores, target : Targets \cup {"none"}]
Deletion == [pc : {"idle"}]
            \cup [pc : {"found", "removed"}, row : AttachmentRow, store : Stores]

\* The types, with those of the requests.
FileTypes ==
    /\ message \in {"live", "deleted"} /\ archived \in BOOLEAN
    /\ stored \in [Stores -> SUBSET Files] /\ rows \subseteq AttachmentRow
    /\ upload \in [Files -> Upload] /\ deletion \in [Deleters -> Deletion]
    /\ failed \subseteq Files /\ cutDeletions \subseteq Files /\ missed \subseteq Files

\* No store has the file.
Gone(f) == \A s \in Stores : f \notin stored[s]

\* A file is in the store its upload named, and stays there while the row is awaited.
UploadOK(f) ==
    /\ f \notin stored["disk"] \/ f \notin stored["bucket"]
    /\ upload[f].pc \in {"new", "checked"} => Gone(f)
    /\ upload[f].pc = "written" => \A s \in Stores : f \in stored[s] <=> s = upload[f].store
    /\ Gone(f) \/ (\E a \in rows : a.file = f) \/ f \in failed \/ f \in missed
       \/ upload[f].pc = "written"

\* A row that is there, or that a deletion has found: its upload is past its commit, no other
\* row has its file, and no other store.
KnownRow(a) ==
    /\ upload[a.file].pc \in {"saved", "over"}
    /\ \A b \in rows : b.file = a.file => b = a
    /\ \A s \in Stores : a.file \in stored[s] => s = a.store

\* A row has its file, or the deletion that took it is under way or was cut off.
RowOK(a) == \/ a.file \in stored[a.store] \/ a.file \in cutDeletions
            \/ \E d \in Deleters : deletion[d].pc = "removed" /\ deletion[d].row = a

\* A deletion that has been to the store took the file, or it is known that it did not.
DeletionOK(d) ==
    deletion[d].pc # "idle" =>
        /\ KnownRow(deletion[d].row)
        /\ deletion[d].pc = "removed" => deletion[d].row.file \in missed \/ Gone(deletion[d].row.file)

\* The types, and uploads, rows and deletions are right.
FileInv == /\ FileTypes
           /\ \A f \in Files : UploadOK(f)
           /\ \A a \in rows : KnownRow(a) /\ RowOK(a)
           /\ \A d \in Deleters : DeletionOK(d)
-----------------------------------------------------------------------------
\* What no step does to a file whose upload is past its commit: write it again, or give it
\* another row.
Settled ==
    \A f \in Files : upload[f].pc \in {"saved", "over"} =>
        /\ upload'[f].pc \in {"saved", "over"}
        /\ \A s \in Stores : f \in stored'[s] => f \in stored[s]
        /\ \A b \in rows' : b.file = f => b \in rows

\* So what is known of a row stays true.
LEMMA KnownStays ==
    ASSUME Settled, NEW a \in AttachmentRow, KnownRow(a)
    PROVE  KnownRow(a)'
  <1>1. a.file \in Files
    BY DEF AttachmentRow
  <1>2. QED
    BY <1>1 DEF Settled, KnownRow

\* A step that leaves the deletions alone and takes nothing away.
LEMMA UploadMoves ==
    ASSUME FileInv, FileTypes', Settled, UNCHANGED <<deletion, missed>>,
           rows \subseteq rows', cutDeletions \subseteq cutDeletions',
           \A s \in Stores : stored[s] \subseteq stored'[s],
           \A a \in rows' \ rows : KnownRow(a)' /\ a.file \in stored'[a.store],
           \A f \in Files : UploadOK(f)'
    PROVE  FileInv'
  <1>1. \A a \in rows : a \in AttachmentRow /\ KnownRow(a) /\ RowOK(a) /\ a.store \in Stores
    BY DEF FileInv, FileTypes, AttachmentRow
  <1>2. ASSUME NEW a \in rows' PROVE KnownRow(a)' /\ RowOK(a)'
    <2>1. CASE a \in rows
      <3>1. KnownRow(a)'
        BY <1>1, <2>1, KnownStays
      <3>2. RowOK(a)'
        BY <1>1, <2>1 DEF RowOK
      <3>3. QED
        BY <3>1, <3>2
    <2>2. CASE a \notin rows
      BY <2>2 DEF RowOK
    <2>3. QED
      BY <2>1, <2>2
  <1>3. ASSUME NEW d \in Deleters PROVE DeletionOK(d)'
    <2> SUFFICES ASSUME deletion[d].pc # "idle" PROVE DeletionOK(d)'
      BY DEF DeletionOK
    <2> DEFINE a == deletion[d].row
    <2>1. a \in AttachmentRow /\ KnownRow(a) /\ a.file \in Files
      BY DEF FileInv, FileTypes, Deletion, DeletionOK, AttachmentRow
    <2>2. KnownRow(a)'
      BY <2>1, KnownStays
    <2>3. Gone(a.file) => Gone(a.file)'
      BY <2>1 DEF Settled, Gone, KnownRow
    <2>4. deletion[d].pc = "removed" => a.file \in missed \/ Gone(a.file)
      BY DEF FileInv, DeletionOK
    <2> HIDE DEF Gone, KnownRow
    <2>5. QED
      BY <2>2, <2>3, <2>4 DEF DeletionOK
  <1>4. QED
    BY <1>2, <1>3 DEF FileInv

\* Uploads.
LEMMA UploadStep ==
    ASSUME FileInv, NEW f \in Files,
           \/ \E t \in Targets : Attaching(f, t)
           \/ ChannelUpload(f) \/ FileWritten(f) \/ WriteFails(f) \/ RowCommitted(f) \/ RowFails(f)
           \/ \E told \in {"ok", "error"} : UploadAnswered(f, told)
    PROVE  FileInv'
  <1>1. FileTypes /\ upload[f] \in Upload /\ \A g \in Files : UploadOK(g) /\ g \in Files
    BY DEF FileInv, FileTypes
  <1>2. CASE (\E t \in Targets : Attaching(f, t)) \/ ChannelUpload(f)
    <2>1. PICK s \in Stores, t \in Targets \cup {"none"} :
              upload' = [upload EXCEPT ![f] = [pc |-> "checked", store |-> s, target |-> t]]
      BY <1>2 DEF Attaching, ChannelUpload, Stores
    <2>2. upload[f].pc = "new" /\ UNCHANGED <<message, archived, stored, rows, deletion, failed, cutDeletions, missed>>
      BY <1>2 DEF Attaching, ChannelUpload, NoUpload
    <2>3. upload' \in [Files -> Upload] /\ upload'[f].pc = "checked"
          /\ \A g \in Files \ {f} : upload'[g] = upload[g]
      BY <1>1, <2>1 DEF FileTypes, Upload
    <2>4. FileTypes' /\ Settled
      BY <1>1, <2>2, <2>3 DEF FileTypes, Settled
    <2>5. ASSUME NEW g \in Files PROVE UploadOK(g)'
      BY <1>1, <2>2, <2>3 DEF UploadOK, Gone
    <2>6. QED
      BY <2>2, <2>4, <2>5, UploadMoves
  <1>3. CASE FileWritten(f)
    <2>1. /\ upload[f].pc = "checked" /\ upload[f].store \in Stores
          /\ upload' = [upload EXCEPT ![f].pc = "written"]
          /\ stored' = [stored EXCEPT ![upload[f].store] = @ \cup {f}]
          /\ UNCHANGED <<message, archived, rows, deletion, failed, cutDeletions, missed>>
      BY <1>1, <1>3 DEF FileWritten, FileMoves, Upload
    <2>2. upload' \in [Files -> Upload] /\ upload'[f].pc = "written" /\ upload'[f].store = upload[f].store
          /\ \A g \in Files \ {f} : upload'[g] = upload[g]
      BY <1>1, <2>1 DEF FileTypes, Upload
    <2>3. stored' \in [Stores -> SUBSET Files]
          /\ \A s \in Stores : stored'[s] = IF s = upload[f].store THEN stored[s] \cup {f} ELSE stored[s]
      BY <1>1, <2>1 DEF FileTypes
    <2>4. FileTypes' /\ Settled
      BY <1>1, <2>1, <2>2, <2>3 DEF FileTypes, Settled
    <2>5. ASSUME NEW g \in Files PROVE UploadOK(g)'
      BY <1>1, <2>1, <2>2, <2>3 DEF UploadOK, Gone, Stores
    <2>6. QED
      BY <2>1, <2>3, <2>4, <2>5, UploadMoves
  <1>4. CASE RowCommitted(f)
    <2>1. /\ upload[f].pc = "written"
          /\ upload' = [upload EXCEPT ![f].pc = "saved"]
          /\ rows' = rows \cup {AttachmentOf(f)}
          /\ UNCHANGED <<message, archived, stored, deletion, failed, cutDeletions, missed>>
      BY <1>4 DEF RowCommitted, FileMoves
    <2>2. PICK a \in AttachmentRow :
              a = AttachmentOf(f) /\ a.file = f /\ a.store = upload[f].store /\ a.store \in Stores
      <3>1. /\ AttachmentOf(f) \in AttachmentRow /\ AttachmentOf(f).file = f
            /\ AttachmentOf(f).store = upload[f].store /\ upload[f].store \in Stores
        BY <1>1, <1>4, <2>1 DEF Upload, AttachmentOf, AttachmentRow, Insertable, RowCommitted, Targets
      <3>2. QED
        BY <3>1
    <2>3. upload' \in [Files -> Upload] /\ upload'[f].pc = "saved"
          /\ \A g \in Files \ {f} : upload'[g] = upload[g]
      BY <1>1, <2>1 DEF FileTypes, Upload
    <2>4. \A b \in rows : b.file # f
      BY <2>1 DEF FileInv, KnownRow
    <2>5. FileTypes' /\ Settled
      BY <1>1, <2>1, <2>2, <2>3 DEF FileTypes, Settled
    <2>6. ASSUME NEW g \in Files PROVE UploadOK(g)'
      BY <1>1, <2>1, <2>2, <2>3 DEF UploadOK, Gone
    <2>7. KnownRow(a)' /\ a.file \in stored'[a.store]
      <3>1. \A s \in Stores : f \in stored[s] <=> s = a.store
        BY <1>1, <2>1, <2>2 DEF UploadOK
      <3>2. \A b \in rows' : b.file = f => b = a
        BY <2>1, <2>2, <2>4
      <3>3. QED
        BY <2>1, <2>2, <2>3, <3>1, <3>2 DEF KnownRow
    <2>8. rows \subseteq rows' /\ \A b \in rows' \ rows : b = a
      BY <2>1, <2>2
    <2> HIDE DEF KnownRow, RowOK
    <2>9. QED
      BY <2>1, <2>5, <2>6, <2>7, <2>8, UploadMoves
  <1>5. CASE WriteFails(f) \/ RowFails(f) \/ \E told \in {"ok", "error"} : UploadAnswered(f, told)
    <2>1. /\ upload[f].pc \in {"checked", "written", "saved"}
          /\ upload' = [upload EXCEPT ![f] = UploadOver]
          /\ failed' = failed \cup {f} \/ (failed' = failed /\ upload[f].pc = "saved")
          /\ UNCHANGED <<message, archived, stored, rows, deletion, cutDeletions, missed>>
      <3>1. CASE WriteFails(f)
        BY <3>1 DEF WriteFails, Fails, UploadEnds
      <3>2. CASE RowFails(f)
        BY <3>2 DEF RowFails, Fails, UploadEnds
      <3>3. CASE \E told \in {"ok", "error"} : UploadAnswered(f, told)
        BY <3>3 DEF UploadAnswered, UploadEnds
      <3>4. QED
        BY <1>5, <3>1, <3>2, <3>3
    <2>2. upload' \in [Files -> Upload] /\ upload'[f].pc = "over"
          /\ \A g \in Files \ {f} : upload'[g] = upload[g]
      BY <1>1, <2>1 DEF FileTypes, Upload, UploadOver
    <2>3. FileTypes' /\ Settled
      BY <1>1, <2>1, <2>2 DEF FileTypes, Settled
    <2>4. ASSUME NEW g \in Files PROVE UploadOK(g)'
      BY <1>1, <2>1, <2>2 DEF UploadOK, Gone
    <2>5. QED
      BY <2>1, <2>3, <2>4, UploadMoves
  <1>6. QED
    BY <1>2, <1>3, <1>4, <1>5

\* A deletion is of a row that is there.
LEMMA DeletingStep ==
    ASSUME FileInv, NEW d \in Deleters, NEW s \in Stores, Deleting(d, s)
    PROVE  FileInv'
  <1>1. PICK a \in rows : deletion' = [deletion EXCEPT ![d] = [pc |-> "found", row |-> a, store |-> s]]
    BY DEF Deleting
  <1>2. /\ UNCHANGED <<message, archived, stored, rows, upload, failed, cutDeletions, missed>>
        /\ deletion[d].pc = "idle" /\ FileTypes /\ a \in AttachmentRow /\ KnownRow(a)
    BY DEF Deleting, NoDeletion, FileInv, FileTypes
  <1>3. /\ deletion' \in [Deleters -> Deletion] /\ deletion'[d].pc = "found" /\ deletion'[d].row = a
        /\ \A e \in Deleters \ {d} : deletion'[e] = deletion[e]
    BY <1>1, <1>2 DEF FileTypes, Deletion
  <1>4. FileTypes'
    BY <1>2, <1>3 DEF FileTypes
  <1>5. \A f \in Files : UploadOK(f)'
    BY <1>2 DEF FileInv, UploadOK, Gone
  <1>6. \A b \in AttachmentRow : KnownRow(b) => KnownRow(b)'
    BY <1>2 DEF KnownRow
  <1>7. \A b \in rows' : KnownRow(b)' /\ RowOK(b)'
    BY <1>2, <1>3, <1>6 DEF FileInv, FileTypes, RowOK
  <1>8. \A f : Gone(f) => Gone(f)'
    BY <1>2 DEF Gone
  <1>9. ASSUME NEW e \in Deleters PROVE DeletionOK(e)'
    <2>1. deletion[e].pc # "idle" => deletion[e].row \in AttachmentRow
      BY <1>2 DEF FileTypes, Deletion
    <2>2. QED
      BY <1>2, <1>3, <1>6, <1>8, <2>1 DEF FileInv, DeletionOK
  <1>10. QED
    BY <1>4, <1>5, <1>7, <1>9 DEF FileInv

\* The deletion takes the file from the store it asks, and remembers what it did not find there.
LEMMA FileRemovedStep ==
    ASSUME FileInv, NEW d \in Deleters, FileRemoved(d)
    PROVE  FileInv'
  <1>0. PICK a : a = deletion[d].row
    OBVIOUS
  <1>1. /\ FileTypes /\ deletion[d].pc = "found" /\ a \in AttachmentRow /\ KnownRow(a)
        /\ deletion[d].store \in Stores /\ a.file \in Files /\ a.store \in Stores
    BY <1>0 DEF FileRemoved, FileInv, FileTypes, Deletion, DeletionOK, AttachmentRow
  <1>2. /\ UNCHANGED <<message, archived, rows, upload, failed, cutDeletions>>
        /\ deletion' = [deletion EXCEPT ![d].pc = "removed"]
    BY DEF FileRemoved
  <1>3. /\ deletion' \in [Deleters -> Deletion] /\ deletion'[d].pc = "removed" /\ deletion'[d].row = a
        /\ \A e \in Deleters \ {d} : deletion'[e] = deletion[e]
    BY <1>0, <1>1, <1>2 DEF FileTypes, Deletion
  <1>4. /\ stored' \in [Stores -> SUBSET Files] /\ missed \subseteq missed' /\ missed' \subseteq Files
        /\ \A s \in Stores : \A f \in Files : /\ f \in stored'[s] => f \in stored[s]
                                              /\ f # a.file /\ f \in stored[s] => f \in stored'[s]
    BY <1>0, <1>1 DEF FileRemoved, Removed, FileTypes
  <1>5. a.file \in missed' \/ Gone(a.file)'
    <2>1. CASE a.file \in missed'
      BY <2>1
    <2>2. CASE a.file \notin missed'
      <3>1. deletion[d].store = a.store /\ stored' = [stored EXCEPT ![a.store] = @ \ {a.file}]
        BY <1>0, <2>2 DEF FileRemoved, Removed
      <3>2. QED
        BY <1>1, <3>1 DEF KnownRow, Gone, FileTypes
    <2>3. QED
      BY <2>1, <2>2
  <1>6. Settled /\ FileTypes'
    BY <1>1, <1>2, <1>3, <1>4 DEF Settled, FileTypes
  <1>7. ASSUME NEW f \in Files PROVE UploadOK(f)'
    <2>1. UploadOK(f)
      BY DEF FileInv
    <2>2. Gone(f) => Gone(f)'
      BY <1>4 DEF Gone
    <2>3. CASE f = a.file
      BY <1>1, <1>2, <1>4, <1>5, <2>1, <2>2, <2>3 DEF UploadOK, KnownRow, Stores
    <2>4. CASE f # a.file
      BY <1>2, <1>4, <2>1, <2>2, <2>4 DEF UploadOK, Stores
    <2>5. QED
      BY <2>3, <2>4
  <1>8. ASSUME NEW b \in rows' PROVE KnownRow(b)' /\ RowOK(b)'
    <2>1. b \in rows /\ b \in AttachmentRow /\ KnownRow(b) /\ RowOK(b) /\ b.file \in Files
          /\ b.store \in Stores
      BY <1>1, <1>2 DEF FileInv, FileTypes, AttachmentRow
    <2>2. KnownRow(b)'
      BY <1>6, <2>1, KnownStays
    <2>3. RowOK(b)'
      <3>1. CASE b = a
        BY <1>3, <3>1 DEF RowOK
      <3>2. CASE b # a
        <4>1. b.file # a.file
          BY <1>1, <2>1, <3>2 DEF KnownRow
        <4>2. b.file \in stored[b.store] => b.file \in stored'[b.store]
          BY <1>4, <2>1, <4>1
        <4>3. ASSUME NEW e \in Deleters, deletion[e].pc = "removed", deletion[e].row = b
              PROVE  deletion'[e].pc = "removed" /\ deletion'[e].row = b
          BY <1>1, <1>3, <4>3
        <4>4. QED
          BY <1>2, <2>1, <4>2, <4>3 DEF RowOK
      <3>3. QED
        BY <3>1, <3>2
    <2>4. QED
      BY <2>2, <2>3
  <1>9. ASSUME NEW e \in Deleters PROVE DeletionOK(e)'
    <2>1. CASE e = d
      BY <1>1, <1>3, <1>5, <1>6, <2>1, KnownStays DEF DeletionOK
    <2>2. CASE e # d
      <3>1. deletion'[e] = deletion[e] /\ DeletionOK(e)
        BY <1>3, <2>2 DEF FileInv
      <3>2. deletion[e].pc # "idle" => deletion[e].row \in AttachmentRow /\ deletion[e].row.file \in Files
        BY <1>1 DEF FileTypes, Deletion, AttachmentRow
      <3>3. \A f \in Files : Gone(f) => Gone(f)'
        BY <1>4 DEF Gone
      <3> HIDE DEF Gone, KnownRow
      <3>4. QED
        BY <1>4, <1>6, <3>1, <3>2, <3>3, KnownStays DEF DeletionOK
    <2>3. QED
      BY <2>1, <2>2
  <1>10. QED
    BY <1>6, <1>7, <1>8, <1>9 DEF FileInv

\* The row goes, or stays behind when the request ends between its two steps.
LEMMA RowEnds ==
    ASSUME FileInv, deletion' \in [Deleters -> Deletion],
           \A d \in Deleters : deletion'[d] = deletion[d] \/ deletion'[d].pc = "idle",
           UNCHANGED <<message, archived, stored, missed>>,
           upload' \in [Files -> Upload], failed \subseteq failed', failed' \subseteq Files,
           \A f \in Files : upload'[f] = upload[f] \/ (upload'[f].pc = "over" /\ f \in failed'),
           cutDeletions \subseteq cutDeletions', cutDeletions' \subseteq Files,
           rows' \subseteq rows,
           \A a \in rows \ rows' : Gone(a.file) \/ a.file \in missed,
           \A d \in Deleters : deletion[d].pc = "removed" /\ deletion'[d] # deletion[d] =>
               deletion[d].row \notin rows' \/ deletion[d].row.file \in cutDeletions'
    PROVE  FileInv'
  <1>1. FileTypes /\ FileTypes'
    BY DEF FileInv, FileTypes
  <1>2. Settled
    BY <1>1 DEF Settled, FileTypes
  <1>3. \A f : Gone(f)' <=> Gone(f)
    BY DEF Gone
  <1>4. ASSUME NEW f \in Files PROVE UploadOK(f)'
    <2>1. UploadOK(f)
      BY DEF FileInv
    <2>2. (\E a \in rows : a.file = f) => (\E a \in rows' : a.file = f) \/ Gone(f) \/ f \in missed
      OBVIOUS
    <2> HIDE DEF Gone
    <2>3. QED
      BY <1>3, <2>1, <2>2 DEF UploadOK
  <1>5. ASSUME NEW a \in rows' PROVE KnownRow(a)' /\ RowOK(a)'
    <2>1. a \in AttachmentRow /\ KnownRow(a) /\ RowOK(a)
      BY <1>1 DEF FileInv, FileTypes
    <2>2. QED
      BY <1>2, <2>1, KnownStays DEF RowOK
  <1>6. ASSUME NEW d \in Deleters PROVE DeletionOK(d)'
    <2>1. deletion[d].pc # "idle" => deletion[d].row \in AttachmentRow
      BY <1>1 DEF FileTypes, Deletion
    <2> HIDE DEF Gone, KnownRow
    <2>2. QED
      BY <1>2, <1>3, <2>1, KnownStays DEF FileInv, DeletionOK
  <1>7. QED
    BY <1>1, <1>4, <1>5, <1>6 DEF FileInv

\* delete_attachment to its end, and the stop of the server.
LEMMA DeletionEnds ==
    ASSUME FileInv, (\E d \in Deleters : RowDeleted(d) \/ RowStays(d)) \/ FilesServerStops
    PROVE  FileInv'
  <1>1. FileTypes
    BY DEF FileInv
  <1>2. \A d \in Deleters : deletion[d].pc = "removed" =>
            /\ deletion[d].row.file \in Files
            /\ Gone(deletion[d].row.file) \/ deletion[d].row.file \in missed
    BY <1>1 DEF FileInv, FileTypes, DeletionOK, Deletion, AttachmentRow
  <1>3. NoDeletion \in Deletion /\ NoDeletion.pc = "idle" /\ UploadOver \in Upload /\ UploadOver.pc = "over"
    BY DEF NoDeletion, Deletion, UploadOver, Upload
  <1>4. ASSUME NEW d \in Deleters, RowDeleted(d) \/ RowStays(d) PROVE FileInv'
    <2>1. /\ deletion[d].pc = "removed" /\ deletion' = [deletion EXCEPT ![d] = NoDeletion]
          /\ UNCHANGED <<message, archived, stored, missed, upload, failed>>
          /\ \/ rows' = rows \ {deletion[d].row} /\ cutDeletions' = cutDeletions
             \/ rows' = rows /\ cutDeletions' = cutDeletions \cup {deletion[d].row.file}
      BY <1>4 DEF RowDeleted, RowStays
    <2>2. /\ deletion' \in [Deleters -> Deletion] /\ deletion'[d].pc = "idle"
          /\ \A e \in Deleters \ {d} : deletion'[e] = deletion[e]
      BY <1>1, <1>3, <2>1 DEF FileTypes
    <2>3. cutDeletions \subseteq cutDeletions' /\ cutDeletions' \subseteq Files /\ rows' \subseteq rows
      BY <1>1, <1>2, <2>1 DEF FileTypes
    <2>4. \A a \in rows \ rows' : Gone(a.file) \/ a.file \in missed
      BY <1>2, <2>1
    <2>5. deletion[d].row \notin rows' \/ deletion[d].row.file \in cutDeletions'
      BY <2>1
    <2>6. upload \in [Files -> Upload] /\ failed \subseteq Files
      BY <1>1 DEF FileTypes
    <2> HIDE DEF Gone
    <2>7. QED
      BY <2>1, <2>2, <2>3, <2>4, <2>5, <2>6, RowEnds
  <1>5. CASE FilesServerStops
    <2>1. deletion' \in [Deleters -> Deletion] /\ \A d \in Deleters : deletion'[d].pc = "idle"
      BY <1>3, <1>5 DEF FilesServerStops
    <2>2. UNCHANGED <<message, archived, stored, rows, missed>>
      BY <1>5 DEF FilesServerStops
    <2>3. /\ upload' \in [Files -> Upload] /\ failed \subseteq failed' /\ failed' \subseteq Files
          /\ \A f \in Files : upload'[f] = upload[f] \/ (upload'[f].pc = "over" /\ f \in failed')
      BY <1>1, <1>3, <1>5 DEF FilesServerStops, Stage, FileTypes
    <2>4. /\ cutDeletions \subseteq cutDeletions' /\ cutDeletions' \subseteq Files
          /\ \A d \in Deleters : deletion[d].pc = "removed" => deletion[d].row.file \in cutDeletions'
      BY <1>1, <1>2, <1>5 DEF FilesServerStops, FileTypes
    <2>5. QED
      BY <2>1, <2>2, <2>3, <2>4, RowEnds
  <1>6. QED
    BY <1>4, <1>5

\* The invariant holds at the start, and every step keeps it.
LEMMA AttachmentsStart == AttachmentsInit => FileInv
  <1> SUFFICES ASSUME AttachmentsInit PROVE FileInv
    OBVIOUS
  <1>1. FileTypes
    BY DEF AttachmentsInit, FileTypes, Upload, Deletion, NoUpload, NoDeletion
  <1>2. \A f \in Files : upload[f].pc = "new" /\ Gone(f)
    BY DEF AttachmentsInit, NoUpload, Gone
  <1>3. rows = {} /\ \A d \in Deleters : deletion[d].pc = "idle"
    BY DEF AttachmentsInit, NoDeletion
  <1>4. \A f \in Files : UploadOK(f)
    BY <1>2 DEF UploadOK, Gone, Stores
  <1>5. QED
    BY <1>1, <1>3, <1>4 DEF FileInv, DeletionOK

\* One lemma per kind of step.
LEMMA AttachmentsStep == FileInv /\ [AttachmentsNext]_fileVars => FileInv'
  <1> SUFFICES ASSUME FileInv, [AttachmentsNext]_fileVars PROVE FileInv'
    OBVIOUS
  <1>1. ASSUME MessageDeleted \/ Archive \/ UNCHANGED fileVars PROVE FileInv'
    <2>1. UNCHANGED <<stored, rows, upload, deletion, failed, cutDeletions, missed>>
      BY <1>1 DEF MessageDeleted, Archive, fileVars
    <2>2. FileTypes'
      BY <1>1, <2>1 DEF MessageDeleted, Archive, fileVars, FileInv, FileTypes
    <2>3. /\ \A f \in Files : UploadOK(f)'
          /\ \A a \in rows' : KnownRow(a)' /\ RowOK(a)'
      BY <2>1 DEF FileInv, UploadOK, KnownRow, RowOK, Gone
    <2>4. \A d \in Deleters : DeletionOK(d)'
      BY <2>1 DEF FileInv, DeletionOK, KnownRow, Gone
    <2>5. QED
      BY <2>2, <2>3, <2>4 DEF FileInv
  <1>2. QED
    BY <1>1, UploadStep, DeletingStep, FileRemovedStep, DeletionEnds DEF AttachmentsNext

\* So it always holds, and with it the types of the module.
LEMMA AttachmentsInvariant == AttachmentsSpec => []FileInv
  BY AttachmentsStart, AttachmentsStep, PTL DEF AttachmentsSpec

LEMMA FileInvTypes == FileInv => AttachmentsTypeOK
  <1> SUFFICES ASSUME FileInv PROVE AttachmentsTypeOK
    OBVIOUS
  <1>1. FileTypes /\ \A a \in rows : KnownRow(a)
    BY DEF FileInv
  <1>2. \A a, b \in rows : a.file = b.file => a = b
    BY <1>1 DEF KnownRow
  <1>3. \A a \in rows : upload[a.file].pc \in {"saved", "over"}
    BY <1>1 DEF KnownRow
  <1>4. \A f \in Files : upload[f].pc \in {"new", "checked", "written", "saved", "over"}
    BY <1>1 DEF FileTypes, Upload
  <1>5. \A d \in Deleters : deletion[d] # NoDeletion =>
           deletion[d].pc \in {"found", "removed"} /\ deletion[d].row \in AttachmentRow
    BY <1>1 DEF FileTypes, Deletion, NoDeletion
  <1>6. stored["disk"] \cap stored["bucket"] = {}
    BY <1>1 DEF FileInv, UploadOK, FileTypes, Stores
  <1>7. QED
    BY <1>1, <1>2, <1>3, <1>4, <1>5, <1>6 DEF AttachmentsTypeOK, FileTypes

\* However uploads, deletions through either endpoint and the stops of the server interleave,
\* a row without its file is one whose deletion is under way or was cut off, and a file without
\* a row is one whose upload was, or that the deletion of its row missed.
THEOREM FileGapsAreExplained == AttachmentsSpec => []FileGapsExplained
  <1>1. ASSUME FileInv PROVE RowWithoutFileExplained
    <2> SUFFICES ASSUME NEW a \in rows, ~archived, ~Served(a, a.store)
                 PROVE  \/ a.file \in cutDeletions
                        \/ \E d \in Deleters : deletion[d] # NoDeletion
                             /\ deletion[d].row = a /\ deletion[d].pc = "removed"
      BY DEF RowWithoutFileExplained
    <2>1. RowOK(a) /\ a.file \notin stored[a.store]
      BY <1>1 DEF FileInv, Served
    <2>2. \A d : deletion[d].pc = "removed" => deletion[d] # NoDeletion
      BY DEF NoDeletion
    <2>3. QED
      BY <2>1, <2>2 DEF RowOK
  <1>2. ASSUME FileInv PROVE FileWithoutRowExplained
    <2> SUFFICES ASSUME NEW s \in Stores, NEW f \in stored[s], \A a \in rows : a.file # f
                 PROVE  f \in failed \cup missed \cup Stage("written")
      BY DEF FileWithoutRowExplained
    <2>1. f \in Files /\ ~Gone(f)
      BY <1>2 DEF FileInv, FileTypes, Gone
    <2>2. UploadOK(f)
      BY <1>2, <2>1 DEF FileInv
    <2>3. QED
      BY <2>1, <2>2 DEF UploadOK, Stage
  <1>3. QED
    BY <1>1, <1>2, AttachmentsInvariant, PTL DEF FileGapsExplained

-----------------------------------------------------------------------------
(* Onboarding. *)

\* What a registration in flight remembers.
Registration == [pc : {"idle"}]
                \cup [pc : {"insert", "onboard", "look"}, name : Names]
                \* Who makes the channel has found none.
                \cup [pc : {"make"}, name : Names, looked : {0}]
                \cup [pc : {"enter", "grant"}, name : Names, into : Ids]

\* The channels are numbered, and a registration made one only when it had found none.
GeneralsOK ==
    /\ generals \subseteq General /\ IsFiniteSet(generals)
    /\ {g.id : g \in generals} = 1 .. Cardinality(generals)
    /\ \A g \in generals : g.by = "register" => g.looked = 0

\* The types, with those of the registrations.
OnboardTypes ==
    /\ env \in {"development", "production"} /\ server \in {"starting", "seeding", "up"}
    /\ roles \in BOOLEAN /\ (env = "development" => roles)
    /\ team \in BOOLEAN /\ users \subseteq Names /\ stops \in 0 .. MaxStops
    /\ entrants \in [Ids -> SUBSET users] /\ readers \in [Ids -> SUBSET users]
    /\ cutShort \subseteq users /\ puzzled \subseteq users
    /\ reg \in [Registrations -> Registration]
    /\ server # "up" => \A r \in Registrations : reg[r] = NoReg

\* The stages behind the commit of the account.
AfterCommit == {"onboard", "look", "make", "enter", "grant"}

\* Behind the commit of the account there is an account, and behind that of the membership
\* a member.
RegistrationOK(r) ==
    /\ reg[r].pc \in AfterCommit => reg[r].name \in users
    /\ reg[r].pc = "grant" => reg[r].name \in entrants[reg[r].into]

\* Who can read a channel named general, and whose registration is under way.
ReadsSome(n) == \E g \in Ids : Reads(n, g)
UnderWay(n)  == \E r \in Registrations : reg[r].pc \in AfterCommit /\ reg[r].name = n

\* The types, the channels, the registrations; and no account is left out without a reason.
OnboardInv ==
    /\ OnboardTypes /\ GeneralsOK
    /\ \A r \in Registrations : RegistrationOK(r)
    /\ \A n \in users : ReadsSome(n) \/ UnderWay(n) \/ n \in cutShort \/ n \in puzzled
-----------------------------------------------------------------------------
\* InHand as a predicate.
LEMMA InHandMeans == \A n : n \in InHand <=> UnderWay(n)
  BY DEF InHand, UnderWay, AfterCommit

\* A channel gets the next id.
LEMMA OpenedOK ==
    ASSUME GeneralsOK, NEW by \in {"seed", "admin", "register"}, NEW looked \in 0 .. MaxGenerals,
           by = "register" => looked = 0, Opened(by, looked)
    PROVE  GeneralsOK' /\ Cardinality(generals) + 1 \in Ids
  <1> DEFINE n == Cardinality(generals)
             h == [id |-> n + 1, by |-> by, looked |-> looked]
  <1>1. n \in Nat /\ n < MaxGenerals /\ generals' = generals \cup {h}
    BY FS_CardinalityType DEF GeneralsOK, Opened
  <1>2. n + 1 \in Ids
    BY <1>1, OnboardAssumption DEF Ids
  <1>3. h \in General /\ h.id = n + 1 /\ h.by = by /\ h.looked = looked
    BY <1>2 DEF General
  <1> HIDE DEF h
  <1>4. h \notin generals
    BY <1>1, <1>3 DEF GeneralsOK
  <1>5. IsFiniteSet(generals') /\ Cardinality(generals') = n + 1
    BY <1>1, <1>4, FS_AddElement DEF GeneralsOK
  <1>6. {g.id : g \in generals'} = {g.id : g \in generals} \cup {n + 1}
    BY <1>1, <1>3
  <1>7. {g.id : g \in generals'} = 1 .. (n + 1)
    BY <1>1, <1>6 DEF GeneralsOK
  <1>8. QED
    BY <1>1, <1>2, <1>3, <1>5, <1>7 DEF GeneralsOK

\* A registration moves on: its account can read, is in hand or has met two channels.
LEMMA RegistrationMoves ==
    ASSUME OnboardInv, NEW r \in Registrations, NEW x \in Registration,
           reg' = [reg EXCEPT ![r] = x], server = "up", GeneralsOK',
           UNCHANGED <<env, roles, server, team, cutShort, stops>>,
           users \subseteq users', users' \subseteq Names, puzzled \subseteq puzzled',
           puzzled' \subseteq users',
           entrants' \in [Ids -> SUBSET users'], readers' \in [Ids -> SUBSET users'],
           \A g \in Ids : entrants[g] \subseteq entrants'[g] /\ readers[g] \subseteq readers'[g],
           x.pc \in AfterCommit => x.name \in users',
           x.pc = "grant" => x.name \in entrants'[x.into],
           \A n \in users' \ users : x.pc \in AfterCommit /\ x.name = n,
           \A n \in users : reg[r].pc \in AfterCommit /\ reg[r].name = n =>
               (x.pc \in AfterCommit /\ x.name = n) \/ ReadsSome(n)' \/ n \in puzzled'
    PROVE  OnboardInv'
  <1>1. OnboardTypes /\ reg' \in [Registrations -> Registration] /\ reg'[r] = x
        /\ \A q \in Registrations \ {r} : reg'[q] = reg[q]
    BY DEF OnboardInv, OnboardTypes
  <1>2. OnboardTypes'
    BY <1>1 DEF OnboardTypes
  <1>3. ASSUME NEW q \in Registrations PROVE RegistrationOK(q)'
    <2>1. CASE q = r
      BY <1>1, <2>1 DEF RegistrationOK
    <2>2. CASE q # r
      <3>1. RegistrationOK(q) /\ reg'[q] = reg[q] /\ reg[q] \in Registration
        BY <1>1, <2>2 DEF OnboardInv, OnboardTypes
      <3>2. reg[q].pc = "grant" => reg[q].into \in Ids
        BY <3>1 DEF Registration
      <3>3. QED
        BY <3>1, <3>2 DEF RegistrationOK
    <2>3. QED
      BY <2>1, <2>2
  <1>4. ASSUME NEW n \in users' PROVE ReadsSome(n)' \/ UnderWay(n)' \/ n \in cutShort' \/ n \in puzzled'
    <2>1. x.pc \in AfterCommit /\ x.name = n => UnderWay(n)'
      BY <1>1 DEF UnderWay
    <2>2. CASE n \in users
      <3>1. ReadsSome(n) => ReadsSome(n)'
        BY DEF ReadsSome, Reads
      <3>2. ASSUME NEW q \in Registrations, reg[q].pc \in AfterCommit, reg[q].name = n
            PROVE  ReadsSome(n)' \/ UnderWay(n)' \/ n \in puzzled'
        <4>1. CASE q = r
          BY <2>1, <3>2, <4>1
        <4>2. CASE q # r
          BY <1>1, <3>2, <4>2 DEF UnderWay
        <4>3. QED
          BY <4>1, <4>2
      <3>3. ReadsSome(n) \/ UnderWay(n) \/ n \in cutShort \/ n \in puzzled
        BY <2>2 DEF OnboardInv
      <3>4. QED
        BY <3>1, <3>2, <3>3 DEF UnderWay
    <2>3. CASE n \notin users
      BY <2>1, <2>3
    <2>4. QED
      BY <2>2, <2>3
  <1>5. QED
    BY <1>2, <1>3, <1>4 DEF OnboardInv

\* The same when the account is there.
LEMMA AccountMoves ==
    ASSUME OnboardInv, NEW r \in Registrations, NEW x \in Registration, NEW m \in users,
           reg[r].name = m, reg' = [reg EXCEPT ![r] = x], server = "up", GeneralsOK',
           UNCHANGED <<env, roles, server, team, users, cutShort, stops>>,
           puzzled' = puzzled \/ puzzled' = puzzled \cup {m},
           entrants' \in [Ids -> SUBSET users], readers' \in [Ids -> SUBSET users],
           \A g \in Ids : entrants[g] \subseteq entrants'[g] /\ readers[g] \subseteq readers'[g],
           x.pc # "idle" => x.pc \in AfterCommit /\ x.name = m,
           x.pc = "grant" => m \in entrants'[x.into],
           x.pc = "idle" => ReadsSome(m)' \/ m \in puzzled'
    PROVE  OnboardInv'
  <1>1. users \subseteq Names /\ puzzled \subseteq users
    BY DEF OnboardInv, OnboardTypes
  <1>2. puzzled \subseteq puzzled' /\ puzzled' \subseteq users'
    BY <1>1
  <1>3. x.pc \in AfterCommit => x.pc # "idle"
    BY DEF AfterCommit
  <1>4. \A n \in users : reg[r].pc \in AfterCommit /\ reg[r].name = n =>
               (x.pc \in AfterCommit /\ x.name = n) \/ ReadsSome(n)' \/ n \in puzzled'
    OBVIOUS
  <1> HIDE DEF ReadsSome
  <1>5. QED
    BY <1>1, <1>2, <1>3, <1>4, RegistrationMoves

\* register, up to the channel.
LEMMA AccountStep ==
    ASSUME OnboardInv, NEW r \in Registrations,
           (\E n \in Names : Registering(r, n)) \/ AccountMade(r)
    PROVE  OnboardInv'
  <1>1. /\ OnboardTypes /\ GeneralsOK /\ GeneralsOK' /\ server = "up" /\ reg[r] \in Registration
        /\ RegistrationOK(r)
        /\ UNCHANGED <<env, roles, server, team, generals, entrants, readers, cutShort, puzzled, stops>>
    BY DEF OnboardInv, OnboardTypes, Registering, Free, AccountMade, At, GeneralsOK
  <1>2. ASSUME NEW n \in Names, Registering(r, n) PROVE OnboardInv'
    <2> DEFINE x == [pc |-> "insert", name |-> n]
    <2>1. x \in Registration /\ x.pc = "insert"
      BY DEF Registration
    <2>2. reg' = [reg EXCEPT ![r] = x] /\ users' = users /\ reg[r].pc = "idle"
      BY <1>2 DEF Registering, Free, NoReg
    <2> HIDE DEF x
    <2>3. QED
      BY <1>1, <2>1, <2>2, RegistrationMoves DEF OnboardTypes, AfterCommit
  <1>3. CASE AccountMade(r)
    <2>1. reg[r].pc = "insert" /\ reg[r].name \in Names
      BY <1>1, <1>3 DEF AccountMade, At, Registration
    <2>2. CASE reg[r].name \in users
      <3>1. reg' = [reg EXCEPT ![r] = NoReg] /\ users' = users /\ NoReg \in Registration /\ NoReg.pc = "idle"
        BY <1>3, <2>2 DEF AccountMade, RegEnds, Registration, NoReg
      <3>2. QED
        BY <1>1, <2>1, <3>1, RegistrationMoves DEF OnboardTypes, AfterCommit
    <2>3. CASE reg[r].name \notin users
      <3> DEFINE x == [reg[r] EXCEPT !.pc = IF env = "development" THEN "onboard" ELSE "look"]
      <3>1. x \in Registration /\ x.pc \in {"onboard", "look"} /\ x.name = reg[r].name
        BY <1>1, <2>1 DEF Registration
      <3>2. reg' = [reg EXCEPT ![r] = x] /\ users' = users \cup {reg[r].name}
        BY <1>3, <2>3 DEF AccountMade, RegGoes
      <3> HIDE DEF x
      <3>3. entrants' \in [Ids -> SUBSET users'] /\ readers' \in [Ids -> SUBSET users']
        BY <1>1, <3>2 DEF OnboardTypes
      <3>4. QED
        BY <1>1, <2>1, <3>1, <3>2, <3>3, RegistrationMoves DEF OnboardTypes, AfterCommit
    <2>4. QED
      BY <2>2, <2>3
  <1>4. QED
    BY <1>2, <1>3

\* Who enters channels as a member stays one.
LEMMA EnteredOK ==
    ASSUME NEW of \in [Ids -> SUBSET users], NEW G, NEW n \in users
    PROVE  /\ Entered(of, G, n) \in [Ids -> SUBSET users]
           /\ \A g \in Ids : of[g] \subseteq Entered(of, G, n)[g]
           /\ \A g \in Ids \cap G : n \in Entered(of, G, n)[g]
  BY DEF Entered

\* register, from the channel on.
LEMMA ChannelStep ==
    ASSUME OnboardInv, NEW r \in Registrations,
           DemoOnboarded(r) \/ GeneralLookedFor(r) \/ GeneralMade(r) \/ MemberMade(r) \/ ReaderMade(r)
    PROVE  OnboardInv'
  <1>1. /\ OnboardTypes /\ GeneralsOK /\ server = "up" /\ reg[r] \in Registration /\ RegistrationOK(r)
        /\ reg[r].pc \in AfterCommit /\ reg[r].name \in users /\ reg[r].name \in Names
        /\ UNCHANGED <<env, roles, server, team, users, cutShort, stops>>
    BY DEF OnboardInv, OnboardTypes, DemoOnboarded, GeneralLookedFor, GeneralMade, MemberMade,
           ReaderMade, At, RegistrationOK, AfterCommit
  <1>2. /\ entrants \in [Ids -> SUBSET users] /\ readers \in [Ids -> SUBSET users]
        /\ puzzled \subseteq users
    BY <1>1 DEF OnboardTypes
  <1>3. UNCHANGED generals => GeneralsOK'
    BY <1>1 DEF GeneralsOK
  <1>4. PICK m : m = reg[r].name /\ m \in users /\ m \in Names
    BY <1>1
  <1>5. CASE DemoOnboarded(r)
    <2> DEFINE x == [reg[r] EXCEPT !.pc = "look"]
    <2>1. x \in Registration /\ x.pc = "look" /\ x.name = m
      BY <1>1, <1>4, <1>5 DEF DemoOnboarded, At, Registration
    <2>2. reg' = [reg EXCEPT ![r] = x] /\ UNCHANGED <<generals, puzzled>>
      BY <1>5 DEF DemoOnboarded, RegGoes
    <2>3. PICK G : entrants' = Entered(entrants, G, m) /\ readers' = Entered(readers, G, m)
      BY <1>4, <1>5 DEF DemoOnboarded
    <2> HIDE DEF x
    <2>4. /\ entrants' \in [Ids -> SUBSET users] /\ readers' \in [Ids -> SUBSET users]
          /\ \A g \in Ids : entrants[g] \subseteq entrants'[g] /\ readers[g] \subseteq readers'[g]
      BY <1>2, <1>4, <2>3, EnteredOK
    <2>5. QED
      BY <1>1, <1>2, <1>3, <1>4, <2>1, <2>2, <2>4, AccountMoves DEF AfterCommit
  <1>6. CASE GeneralLookedFor(r)
    <2>1. UNCHANGED <<generals, entrants, readers>>
      BY <1>6 DEF GeneralLookedFor
    <2>2. PICK x \in Registration :
             /\ reg' = [reg EXCEPT ![r] = x] /\ x.pc \in {"make", "enter", "idle"}
             /\ x.pc # "idle" => x.name = m /\ puzzled' = puzzled
             /\ x.pc = "idle" => puzzled' = puzzled \cup {m}
      <3>1. CASE generals = {} /\ puzzled' = puzzled
                 /\ reg' = [reg EXCEPT ![r] = [pc |-> "make", name |-> reg[r].name,
                                               looked |-> Cardinality(generals)]]
        <4>1. Cardinality(generals) = 0
          BY <3>1, FS_EmptySet
        <4>2. [pc |-> "make", name |-> m, looked |-> 0] \in Registration
          BY <1>4 DEF Registration
        <4>3. QED
          BY <1>4, <3>1, <4>1, <4>2
      <3>2. ASSUME NEW g \in generals, puzzled' = puzzled,
                   reg' = [reg EXCEPT ![r] = [pc |-> "enter", name |-> reg[r].name, into |-> g.id]]
            PROVE  \E x \in Registration :
                      /\ reg' = [reg EXCEPT ![r] = x] /\ x.pc = "enter"
                      /\ x.name = m /\ puzzled' = puzzled
        <4>1. g.id \in Ids
          BY <1>1 DEF GeneralsOK, General
        <4>2. [pc |-> "enter", name |-> m, into |-> g.id] \in Registration
          BY <1>4, <4>1 DEF Registration
        <4>3. QED
          BY <1>4, <3>2, <4>2
      <3>3. CASE RegEnds(r) /\ puzzled' = puzzled \cup {reg[r].name}
        <4>1. NoReg \in Registration /\ NoReg.pc = "idle"
          BY DEF NoReg, Registration
        <4>2. QED
          BY <1>4, <3>3, <4>1 DEF RegEnds
      <3>4. QED
        BY <1>6, <3>1, <3>2, <3>3 DEF GeneralLookedFor, Found
    <2>3. QED
      BY <1>1, <1>2, <1>3, <1>4, <2>1, <2>2, AccountMoves DEF AfterCommit
  <1>7. CASE GeneralMade(r)
    <2>1. reg[r].looked = 0 /\ 0 \in 0 .. MaxGenerals
      BY <1>1, <1>7, OnboardAssumption DEF GeneralMade, At, Registration
    <2>2. GeneralsOK' /\ Cardinality(generals) + 1 \in Ids
      BY <1>1, <1>7, <2>1, OpenedOK DEF GeneralMade
    <2> DEFINE x == [pc |-> "enter", name |-> m, into |-> Cardinality(generals) + 1]
    <2>3. x \in Registration /\ x.pc = "enter" /\ x.name = m
      BY <1>4, <2>2 DEF Registration
    <2>4. reg' = [reg EXCEPT ![r] = x] /\ UNCHANGED <<entrants, readers, puzzled>>
      BY <1>4, <1>7 DEF GeneralMade
    <2> HIDE DEF x
    <2>5. QED
      BY <1>1, <1>2, <1>4, <2>2, <2>3, <2>4, AccountMoves DEF AfterCommit
  <1>8. CASE MemberMade(r)
    <2> DEFINE x == [reg[r] EXCEPT !.pc = "grant"]
    <2>1. /\ x \in Registration /\ x.pc = "grant" /\ x.name = m /\ x.into = reg[r].into
          /\ reg[r].into \in Ids
      BY <1>1, <1>4, <1>8 DEF MemberMade, At, Registration
    <2>2. reg' = [reg EXCEPT ![r] = x] /\ UNCHANGED <<generals, readers, puzzled>>
          /\ entrants' = Entered(entrants, {reg[r].into}, m)
      BY <1>4, <1>8 DEF MemberMade, RegGoes
    <2> HIDE DEF x
    <2>3. /\ entrants' \in [Ids -> SUBSET users] /\ m \in entrants'[x.into]
          /\ \A g \in Ids : entrants[g] \subseteq entrants'[g]
      BY <1>2, <1>4, <2>1, <2>2, EnteredOK
    <2>4. QED
      BY <1>1, <1>2, <1>3, <1>4, <2>1, <2>2, <2>3, AccountMoves DEF AfterCommit
  <1>9. CASE ReaderMade(r)
    <2>1. PICK g \in Ids : g = reg[r].into /\ m \in entrants[g]
      BY <1>1, <1>4, <1>9 DEF ReaderMade, At, Registration, RegistrationOK
    <2>2. /\ reg' = [reg EXCEPT ![r] = NoReg] /\ UNCHANGED <<generals, entrants, puzzled>>
          /\ readers' = IF roles THEN Entered(readers, {g}, m) ELSE readers
      BY <1>4, <1>9, <2>1 DEF ReaderMade, RegEnds
    <2>3. NoReg \in Registration /\ NoReg.pc = "idle"
      BY DEF NoReg, Registration
    <2>4. /\ readers' \in [Ids -> SUBSET users] /\ (roles => m \in readers'[g])
          /\ \A h \in Ids : readers[h] \subseteq readers'[h]
      BY <1>2, <1>4, <2>1, <2>2, EnteredOK
    <2>5. ReadsSome(m)'
      <3>1. m \in entrants'[g] /\ (roles' => m \in readers'[g])
        BY <1>1, <2>1, <2>2, <2>4
      <3>2. QED
        BY <2>1, <3>1 DEF ReadsSome, Reads
    <2>6. QED
      BY <1>1, <1>2, <1>3, <1>4, <2>2, <2>3, <2>4, <2>5, AccountMoves DEF AfterCommit
  <1>10. QED
    BY <1>5, <1>6, <1>7, <1>8, <1>9

\* The seeding, an administrator's channel, and the stop of the server.
LEMMA ServerStep ==
    ASSUME OnboardInv,
           TeamSeeded \/ ChannelsSeeded \/ AdminOpens \/ OnboardServerStops \/ UNCHANGED onboardVars
    PROVE  OnboardInv'
  <1>1. OnboardTypes /\ GeneralsOK
    BY DEF OnboardInv
  <1>2. CASE OnboardServerStops
    <2>1. /\ UNCHANGED <<env, roles, team, users, generals, entrants, readers, puzzled>>
          /\ stops' = stops + 1 /\ stops < MaxStops /\ server' = "starting"
          /\ cutShort' = cutShort \cup InHand /\ reg' = [r \in Registrations |-> NoReg]
      BY <1>2 DEF OnboardServerStops
    <2>2. InHand \subseteq users
      BY InHandMeans DEF OnboardInv, RegistrationOK, UnderWay
    <2>3. reg' \in [Registrations -> Registration] /\ \A r \in Registrations : reg'[r].pc = "idle"
      BY <2>1 DEF NoReg, Registration
    <2>4. stops' \in 0 .. MaxStops
      BY <1>1, <2>1, OnboardAssumption DEF OnboardTypes
    <2>5. OnboardTypes'
      BY <1>1, <2>1, <2>2, <2>3, <2>4 DEF OnboardTypes
    <2>6. GeneralsOK'
      BY <1>1, <2>1 DEF GeneralsOK
    <2>7. \A r \in Registrations : RegistrationOK(r)'
      BY <2>3 DEF RegistrationOK, AfterCommit
    <2>8. \A n \in users' : ReadsSome(n)' \/ n \in cutShort' \/ n \in puzzled'
      BY <2>1, InHandMeans DEF OnboardInv, ReadsSome, Reads
    <2>9. QED
      BY <2>5, <2>6, <2>7, <2>8 DEF OnboardInv
  <1>3. CASE TeamSeeded \/ ChannelsSeeded \/ AdminOpens \/ UNCHANGED onboardVars
    <2>1. UNCHANGED <<env, roles, users, entrants, readers, reg, cutShort, puzzled, stops>>
      BY <1>3 DEF TeamSeeded, ChannelsSeeded, AdminOpens, onboardVars
    <2>2. GeneralsOK'
      <3>1. CASE UNCHANGED generals
        BY <1>1, <3>1 DEF GeneralsOK
      <3>2. ASSUME NEW by \in {"seed", "admin"}, Opened(by, Cardinality(generals)) PROVE GeneralsOK'
        <4>1. Cardinality(generals) \in 0 .. MaxGenerals
          BY <1>1, <3>2, FS_CardinalityType, OnboardAssumption DEF GeneralsOK, Opened
        <4>2. QED
          BY <1>1, <3>2, <4>1, OpenedOK
      <3>3. QED
        BY <1>3, <3>1, <3>2 DEF TeamSeeded, ChannelsSeeded, AdminOpens, onboardVars
    <2>3. OnboardTypes'
      <3>1. /\ server' \in {"starting", "seeding", "up"} /\ team' \in BOOLEAN
            /\ server' # "up" => server # "up"
        BY <1>1, <1>3 DEF TeamSeeded, ChannelsSeeded, AdminOpens, onboardVars, OnboardTypes
      <3>2. QED
        BY <1>1, <2>1, <3>1 DEF OnboardTypes
    <2>4. \A r \in Registrations : RegistrationOK(r)'
      BY <2>1 DEF OnboardInv, RegistrationOK
    <2>5. \A n \in users' : ReadsSome(n)' \/ UnderWay(n)' \/ n \in cutShort' \/ n \in puzzled'
      BY <2>1 DEF OnboardInv, ReadsSome, Reads, UnderWay
    <2>6. QED
      BY <2>2, <2>3, <2>4, <2>5 DEF OnboardInv
  <1>4. QED
    BY <1>2, <1>3

\* The invariant holds at the start, and every step keeps it.
LEMMA OnboardStart == OnboardInit => OnboardInv
  <1> SUFFICES ASSUME OnboardInit PROVE OnboardInv
    OBVIOUS
  <1>1. OnboardTypes
    <2>1. reg \in [Registrations -> Registration] /\ stops \in 0 .. MaxStops
      BY OnboardAssumption DEF OnboardInit, NoReg, Registration
    <2>2. QED
      BY <2>1 DEF OnboardInit, OnboardTypes
  <1>2. GeneralsOK
    BY FS_EmptySet DEF OnboardInit, GeneralsOK
  <1>3. \A r \in Registrations : RegistrationOK(r)
    BY DEF OnboardInit, RegistrationOK, NoReg, AfterCommit
  <1>4. QED
    BY <1>1, <1>2, <1>3 DEF OnboardInv, OnboardInit

LEMMA OnboardStep == OnboardInv /\ [OnboardNext]_onboardVars => OnboardInv'
  BY AccountStep, ChannelStep, ServerStep DEF OnboardNext

\* So it always holds, and with it the types of the module.
LEMMA OnboardInvariant == OnboardSpec => []OnboardInv
  BY OnboardStart, OnboardStep, PTL DEF OnboardSpec

LEMMA OnboardInvTypes == OnboardInv => OnboardTypeOK
  <1> SUFFICES ASSUME OnboardInv PROVE OnboardTypeOK
    OBVIOUS
  <1>1. InHand \subseteq users
    BY InHandMeans DEF OnboardInv, RegistrationOK, UnderWay
  <1>2. QED
    BY <1>1 DEF OnboardInv, OnboardTypes, GeneralsOK, OnboardTypeOK

\* However registrations, the seeding, administrators and the stops of the server interleave,
\* a registration makes a second channel only when it had looked before the first was there,
\* and an account that can read none is in hand, was cut off, or met two.
THEOREM RegistrationIsExplained == OnboardSpec => []RegistrationExplained
  <1>1. ASSUME OnboardInv PROVE SecondGeneralOverlaps
    <2> SUFFICES ASSUME NEW g \in generals, NEW h \in generals, h.by = "register"
                 PROVE  h.looked < g.id
      BY DEF SecondGeneralOverlaps
    <2>1. h.looked = 0 /\ g.id \in 1 .. MaxGenerals
      BY <1>1 DEF OnboardInv, GeneralsOK, General, Ids
    <2>2. QED
      BY <2>1, OnboardAssumption
  <1>2. ASSUME OnboardInv PROVE LeftOutExplained
    BY <1>2, InHandMeans DEF OnboardInv, LeftOutExplained, ReadsSome
  <1>3. QED
    BY <1>1, <1>2, OnboardInvariant, PTL DEF RegistrationExplained

-----------------------------------------------------------------------------
(* The services together. *)

\* Each component's invariant holds whichever of them steps.
ServicesInv == NoticeInv /\ IInv /\ FileInv /\ OnboardInv /\ focus \in {"notices", "alerts", "files", "onboarding"}

\* A component that does not step keeps its invariant.
LEMMA ServicesStep == ServicesInv /\ [ServicesNext]_ServiceVars => ServicesInv'
  <1> SUFFICES ASSUME ServicesInv, [ServicesNext]_ServiceVars PROVE ServicesInv'
    OBVIOUS
  <1>1. [NoticesNext]_noticeVars
    BY DEF ServicesNext, ServiceVars
  <1>2. [AlertsNext]_alertVars
    BY DEF ServicesNext, ServiceVars
  <1>3. [AttachmentsNext]_fileVars
    BY DEF ServicesNext, ServiceVars
  <1>4. [OnboardNext]_onboardVars
    BY DEF ServicesNext, ServiceVars
  <1>5. focus' = focus
    BY DEF ServicesNext, ServiceVars
  <1>6. NoticeInv' /\ IInv'
    BY <1>1, <1>2, NoticesStep, StepInv DEF ServicesInv
  <1>7. FileInv' /\ OnboardInv'
    BY <1>3, <1>4, AttachmentsStep, OnboardStep DEF ServicesInv
  <1>8. QED
    BY <1>5, <1>6, <1>7 DEF ServicesInv

\* Notices, alerts, files and accounts have their types: a file is in one store at most and
\* has one row at most, the channels are numbered, only accounts are members of them.
THEOREM ServicesTypeCorrect == ServicesSpec => []ServicesTypeOK
  <1>1. ServicesInit => ServicesInv
    BY NoticesStart, InitInv, AttachmentsStart, OnboardStart DEF ServicesInit, ServicesInv
  <1>2. ServicesInv => AlertsTypeOK
    BY DEF ServicesInv, IInv, Types, AlertsTypeOK, Request
  <1>3. ServicesInv => ServicesTypeOK
    BY <1>2, NoticeInvTypes, FileInvTypes, OnboardInvTypes
    DEF ServicesInv, ServicesTypeOK
  <1>4. QED
    BY <1>1, <1>3, ServicesStep, PTL DEF ServicesSpec
=============================================================================
