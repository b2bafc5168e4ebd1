--------------------------- MODULE LowStockAlerts ----------------------------
(***************************************************************************)
(* The restock tasks that a low stock creates and a restock closes:        *)
(* _check_low_stock_trigger (services/sales.py), restock_inventory and     *)
(* adjust_inventory (services/inventory.py), on_low_stock and              *)
(* on_inventory_restocked (automation/sales_triggers.py), over             *)
(* AutomationService (automation/service.py), and what people do to those  *)
(* tasks through api/automation.py.                                        *)
(*                                                                         *)
(* Each request commits its change of the stock first and then, in further *)
(* transactions, refreshes the stock, looks for tasks, creates or closes   *)
(* them: others run in between.  A request that crashes loses the rest.    *)
(***************************************************************************)
EXTENDS Integers, Sequences, FiniteSets

CONSTANTS
    Stocked,        \* the products
    Matches,        \* Matches[p]: products whose id starts with the id of p
    Threshold,      \* low_stock_threshold
    StartStock,     \* the stock at the start
    Moves,          \* bound: the quantities people enter
    MaxStock,       \* bound: the stock stops here
    Movers,         \* bound: the requests in flight at a time
    MaxAlerts       \* bound: the number of restock tasks

ASSUME AlertsAssumption ==
    /\ Matches \in [Stocked -> SUBSET Stocked] /\ \A p \in Stocked : p \in Matches[p]
    /\ Threshold \in Nat /\ StartStock \in [Stocked -> Nat]
    /\ Moves \subseteq Nat \ {0} /\ MaxStock \in [Stocked -> Nat] /\ MaxAlerts \in Nat

VARIABLES
    level,          \* level[p]: inventory.total_stock
    alerts,         \* the restock tasks, in id order
    mover           \* mover[c]: the request c in flight

alertVars == <<level, alerts, mover>>

\* What the lookups ask for, and what is still to be done.
OpenStatus == {"pending", "in_progress"}
LiveStatus == OpenStatus \cup {"claimed"}

\* A task that is completed or cancelled is closed: no step tells the two apart.  claimed:
\* claimed_by_user_id is set.  The rest are no columns: how many tasks there were when
\* the request that created this one looked, the claimed ones of its product among them,
\* and whether it was opened again once closed.
Alert == [product : Stocked, status : LiveStatus \cup {"closed"}, claimed : BOOLEAN,
          seen : Nat, overlooked : SUBSET Nat, reopened : BOOLEAN]

Rest == [pc |-> "idle"]

AlertsTypeOK ==
    /\ level \in [Stocked -> Nat]
    /\ alerts \in Seq(Alert)
    /\ \A c \in Movers :
          mover[c].pc \in {"idle", "sell", "sold", "adjusted", "restocked", "look", "create",
                          "assign", "find", "close", "assigning"}

AlertsInit ==
    /\ level = StartStock
    /\ alerts = <<>>
    /\ mover = [c \in Movers |-> Rest]

Goes(c, t) == mover' = [mover EXCEPT ![c] = t]

Live(p) == {t \in DOMAIN alerts : alerts[t].product = p /\ alerts[t].status \in LiveStatus}

\* What is written to a task; one that was closed and is not any more is reopened.
Written(t, s) ==
    [alerts[t] EXCEPT !.status = s,
                      !.reopened = @ \/ (alerts[t].status = "closed" /\ s # "closed")]

\* The tasks the lookups find, whose metadata match LIKE '%"product_id": N%': the pattern has
\* no end, so the products whose id starts with N match too.
OpenAlerts(p) ==
    {t \in DOMAIN alerts : alerts[t].status \in OpenStatus /\ alerts[t].product \in Matches[p]}

-----------------------------------------------------------------------------
(* Moves of the stock.                                                      *)

\* record_sale reads the stock before ...
SaleRead(c, p, q) ==
    /\ mover[c].pc = "idle" /\ level[p] >= q
    /\ Goes(c, [pc |-> "sell", product |-> p, quantity |-> q, before |-> level[p]])
    /\ UNCHANGED <<level, alerts>>

\* Mutant: the stock that was read has to suffice.
SufficedBefore(m) == m.before >= m.quantity

\* WHERE total_stock >= quantity.
Suffices(m) == level[m.product] >= m.quantity

\* ... and updates it where it suffices.
SaleUpdate(c) ==
    /\ mover[c].pc = "sell"
    /\ LET p == mover[c].product
           q == mover[c].quantity
       IN  IF Suffices(mover[c])
           THEN /\ level' = [level EXCEPT ![p] = @ - q]
                /\ Goes(c, [pc |-> "sold", product |-> p, before |-> mover[c].before])
           ELSE Goes(c, Rest) /\ UNCHANGED level
    /\ UNCHANGED alerts

\* The refresh and _check_low_stock_trigger: only a crossing counts, from the stock
\* read before the update to the stock read after it.
SaleRefresh(c) ==
    /\ mover[c].pc = "sold"
    /\ LET p == mover[c].product
       IN  Goes(c, IF mover[c].before > Threshold /\ level[p] <= Threshold
                   THEN [pc |-> "look", product |-> p] ELSE Rest)
    /\ UNCHANGED <<level, alerts>>

\* adjust_inventory, up or down, where the stock stays above zero.
Adjust(c, p, d) ==
    /\ mover[c].pc = "idle" /\ level[p] + d \in 0 .. MaxStock[p]
    /\ level' = [level EXCEPT ![p] = @ + d]
    /\ Goes(c, [pc |-> "adjusted", product |-> p])
    /\ UNCHANGED alerts

\* The refresh: a stock that is low now is reported, whoever made it so.
AdjustRefresh(c) ==
    /\ mover[c].pc = "adjusted"
    /\ LET p == mover[c].product
       IN  Goes(c, IF level[p] <= Threshold THEN [pc |-> "look", product |-> p] ELSE Rest)
    /\ UNCHANGED <<level, alerts>>

Restock(c, p, q) ==
    /\ mover[c].pc = "idle" /\ level[p] + q <= MaxStock[p]
    /\ level' = [level EXCEPT ![p] = @ + q]
    /\ Goes(c, [pc |-> "restocked", product |-> p])
    /\ UNCHANGED alerts

RestockRefresh(c) ==
    /\ mover[c].pc = "restocked"
    /\ LET p == mover[c].product
       IN  Goes(c, IF level[p] > Threshold THEN [pc |-> "find", product |-> p] ELSE Rest)
    /\ UNCHANGED <<level, alerts>>

\* A batch and a reversal call no hook.
SilentUp(p, q) ==
    /\ level[p] + q <= MaxStock[p]
    /\ level' = [level EXCEPT ![p] = @ + q]
    /\ UNCHANGED <<alerts, mover>>

-----------------------------------------------------------------------------
(* on_low_stock.                                                            *)

\* One task found is enough; two raise MultipleResultsFound, and no alert is made.
LookForAlert(c) ==
    /\ mover[c].pc = "look"
    /\ LET p == mover[c].product
       IN  Goes(c, IF OpenAlerts(p) = {}
                   THEN [pc |-> "create", product |-> p, seen |-> Len(alerts), overlooked |-> Live(p)]
                   ELSE Rest)
    /\ UNCHANGED <<level, alerts>>

\* create_task commits the task, and then awaits the webhook.
CreateAlert(c) ==
    /\ mover[c].pc = "create" /\ Len(alerts) < MaxAlerts
    /\ alerts' = Append(alerts, [product |-> mover[c].product, status |-> "pending",
                                 claimed |-> FALSE, seen |-> mover[c].seen,
                                 overlooked |-> mover[c].overlooked, reopened |-> FALSE])
    /\ Goes(c, [pc |-> "assign", task |-> Len(alerts) + 1])
    /\ UNCHANGED level

\* assign_user_to_task: the session holds the task as it read it, pending, and writes
\* in_progress over what it is now.
Assigned(c) ==
    /\ alerts' = [alerts EXCEPT ![mover[c].task] = Written(mover[c].task, "in_progress")]
    /\ Goes(c, Rest)
    /\ UNCHANGED level

\* The task goes to an administrator, if there is one.
AssignAlert(c) ==
    /\ mover[c].pc = "assign"
    /\ \/ Assigned(c)
       \/ Goes(c, Rest) /\ UNCHANGED <<level, alerts>>

-----------------------------------------------------------------------------
(* on_inventory_restocked.                                                  *)

FindAlerts(c) ==
    /\ mover[c].pc = "find"
    /\ Goes(c, [pc |-> "close", product |-> mover[c].product,
                tasks |-> OpenAlerts(mover[c].product)])
    /\ UNCHANGED <<level, alerts>>

\* update_task_status writes completed, whatever has become of the task.
\* One commit per task.
CloseAlert(c) ==
    /\ mover[c].pc = "close"
    /\ IF mover[c].tasks = {} THEN Goes(c, Rest) /\ UNCHANGED alerts
       ELSE \E t \in mover[c].tasks :
                /\ alerts' = [alerts EXCEPT ![t] = Written(t, "closed")]
                /\ Goes(c, [mover[c] EXCEPT !.tasks = @ \ {t}])
    /\ UNCHANGED level

-----------------------------------------------------------------------------
(* People and the tasks.                                                    *)

\* Mutant: only who holds the task is looked at.
ClaimableByAnyone(a) == ~a.claimed

\* A claim takes a task that is pending and nobody's.
Claimable(a) == a.status = "pending" /\ ~a.claimed

\* claim_task reads and writes under the lock of the row.
ClaimAlert(t) ==
    /\ Claimable(alerts[t])
    /\ alerts' = [alerts EXCEPT ![t] = [Written(t, "claimed") EXCEPT !.claimed = TRUE]]
    /\ UNCHANGED <<level, mover>>

\* An administrator takes over a task that is somebody's, in whatever status.
OverrideClaim(t) ==
    /\ alerts[t].claimed
    /\ alerts' = [alerts EXCEPT ![t] = Written(t, "claimed")]
    /\ UNCHANGED <<level, mover>>

\* reassign_task makes it somebody's and leaves its status.
ReassignAlert(t) ==
    /\ alerts' = [alerts EXCEPT ![t].claimed = TRUE]
    /\ UNCHANGED <<level, mover>>

\* cancel_task, soft_delete_task and an administrator's completion of a task without
\* assignments write over whatever the status is by then.
CloseByHand(t) ==
    /\ alerts' = [alerts EXCEPT ![t] = Written(t, "closed")]
    /\ UNCHANGED <<level, mover>>

\* An assignment by hand reads the task; a status that is not pending it leaves alone.
AssignByHand(c, t) ==
    /\ mover[c].pc = "idle" /\ alerts[t].status = "pending"
    /\ Goes(c, [pc |-> "assigning", task |-> t])
    /\ UNCHANGED <<level, alerts>>

AssignCommit(c) == mover[c].pc = "assigning" /\ Assigned(c)

AlertsCrash ==
    /\ \E c \in Movers : mover[c] # Rest
    /\ mover' = [c \in Movers |-> Rest]
    /\ UNCHANGED <<level, alerts>>

AlertStep(c) ==
    \/ SaleUpdate(c) \/ SaleRefresh(c) \/ AdjustRefresh(c) \/ RestockRefresh(c)
    \/ LookForAlert(c) \/ CreateAlert(c) \/ AssignAlert(c)
    \/ FindAlerts(c) \/ CloseAlert(c) \/ AssignCommit(c)

PeopleStep(t) ==
    \/ ClaimAlert(t) \/ OverrideClaim(t) \/ ReassignAlert(t) \/ CloseByHand(t)
    \/ \E c \in Movers : AssignByHand(c, t)

AlertsNext ==
    \/ \E c \in Movers : AlertStep(c)
    \/ \E c \in Movers, p \in Stocked, q \in Moves :
           SaleRead(c, p, q) \/ Adjust(c, p, q) \/ Adjust(c, p, -q) \/ Restock(c, p, q)
    \/ \E p \in Stocked, q \in Moves : SilentUp(p, q)
    \/ \E t \in DOMAIN alerts : PeopleStep(t)
    \/ AlertsCrash

AlertsSpec == AlertsInit /\ [][AlertsNext]_alertVars

-----------------------------------------------------------------------------
(* Properties.                                                              *)

\* A product has two alerts still to be done only for one of three reasons: the request that
\* made the second had looked before the first was there; it had looked while the first
\* was claimed, which the lookup does not find; or the first had been closed and was opened
\* again ("Check if there's already a pending/in-progress restock task for this product",
\* sales_triggers.py:100).
SecondAlertExplained ==
    \A p \in Stocked : \A s, t \in Live(p) :
        s < t => \/ alerts[t].seen < s
                 \/ s \in alerts[t].overlooked
                 \/ alerts[s].reopened

\* A closed alert is opened again only by the write of an assignment that had read it
\* pending, the one its creation owed it or one by hand, or by an administrator who takes
\* it over from someone; no restock, lookup, retry or claim does it.
ReopenedByWhom ==
    \A t \in DOMAIN alerts :
        alerts[t].status = "closed" /\ alerts'[t].status # "closed" =>
            \/ alerts[t].claimed /\ alerts'[t].status = "claimed"
            \/ \E c \in Movers : /\ mover[c].pc \in {"assign", "assigning"} /\ mover[c].task = t
                                 /\ mover'[c] = Rest
ReopenedOnlySo == [][ReopenedByWhom]_alertVars

\* Alerts are there twice, or again, for these reasons only.
AlertsExplained == []SecondAlertExplained /\ ReopenedOnlySo

-----------------------------------------------------------------------------
(* What a comment of the code says, and the code does not do.               *)

\* A restock closes the alerts of its product ("Find and close any pending low-stock
\* tasks for this product", sales_triggers.py:217).
RestockClosesItsOwn ==
    [][\A c \in Movers : mover[c].pc = "close" /\ alerts' # alerts =>
          \A t \in DOMAIN alerts : alerts'[t] # alerts[t] /\ t \in mover[c].tasks
                                   /\ mover'[c] # mover[c]
              => alerts[t].product = mover[c].product]_alertVars
=============================================================================
