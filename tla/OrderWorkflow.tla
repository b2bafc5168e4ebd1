--------------------------- MODULE OrderWorkflow ---------------------------
(***************************************************************************)
(* The life of one order of the operations platform: the engine's workflow *)
(* steps (backend/app/services/task_engine.py), the automation tasks and   *)
(* assignments people act on (backend/app/automation/service.py), and the  *)
(* coroutine that creates them (backend/app/automation/order_triggers.py). *)
(* Orders share no row, so one order is the whole state.                   *)
(*                                                                         *)
(* A variable holds committed rows.  A handler that is one transaction and *)
(* reads under the one row lock it writes under is one action.             *)
(* create_order commits many times, and completing an assignment reads     *)
(* several times (READ COMMITTED) and locks one row after another before   *)
(* it commits, so each of these is a sequence of actions that every other  *)
(* handler may interleave with.                                            *)
(***************************************************************************)
EXTENDS Naturals, Sequences, FiniteSets

CONSTANTS
    Users,             \* the people using the system
    Admins,            \* those with is_system_admin
    Creator,           \* the user who creates the order: its requester
    RolesOf,           \* RolesOf[u]: the operational roles of user u
    Nobody,            \* the NULL user id
    Calls,             \* bound: completions in flight at a time
    OrderType,         \* the type of the order
    DirectSteps,       \* do clients call POST /api/tasks/{id}/complete?
    ActDuringCreation, \* bound: may people act before create_order returns?
    MaxOps,            \* bound: interventions of the creator and the admins
    MaxCrashes         \* bound: crashes of the server

OrderTypes == {"agent_restock", "agent_retail", "store_keeper_restock",
               "customer_wholesale"}
Roles      == {"foreman", "delivery", "requester"}
TaskIds    == {"root", "foreman", "delivery"}
NoRole     == "none"

ASSUME OrderTypeAssumption == OrderType \in OrderTypes
ASSUME UsersAssumption ==
    /\ Nobody \notin Users
    /\ Admins \subseteq Users
    /\ Creator \in Users
    /\ RolesOf \in [Users -> SUBSET {"foreman", "delivery"}]
ASSUME BoundsAssumption ==
    /\ DirectSteps \in BOOLEAN
    /\ ActDuringCreation \in BOOLEAN
    /\ MaxOps \in Nat
    /\ MaxCrashes \in Nat

-----------------------------------------------------------------------------
(* The workflow definitions. *)

Step(k, r) == [key |-> k, role |-> r]

WarehouseSteps ==
    << Step("assemble_items", "foreman"),
       Step("foreman_handover", "foreman"),
       Step("delivery_received", "delivery"),
       Step("deliver_items", "delivery") >>

WORKFLOWS ==
    [agent_restock        |-> Append(WarehouseSteps, Step("confirm_received", "requester")),
     store_keeper_restock |-> Append(WarehouseSteps, Step("confirm_received", "requester")),
     agent_retail         |-> << Step("accept_delivery", "delivery"),
                                 Step("deliver_items", "delivery") >>,
     customer_wholesale   |-> WarehouseSteps]

Workflow == WORKFLOWS[OrderType]
Steps    == 1 .. Len(Workflow)

\* The steps complete_assignment lets a holder of role r complete.
RoleToSteps ==
    [foreman   |-> {"assemble_items", "foreman_handover"},
     delivery  |-> {"delivery_received", "deliver_items", "accept_delivery"},
     requester |-> {"confirm_received"}]

StepsFor(r) == IF r \in Roles
               THEN {s \in Steps : Workflow[s].key \in RoleToSteps[r]}
               ELSE {}

\* Mutant: only the store keeper's restock has a requester.
HasRequesterKeeperOnly == OrderType = "store_keeper_restock"

HasRequester == OrderType \in {"agent_restock", "store_keeper_restock"}
FirstRole    == IF OrderType = "agent_retail" THEN "delivery" ELSE "foreman"

-----------------------------------------------------------------------------
VARIABLES
    order,     \* orders.status, "absent" before the row exists
    step,      \* step[s]: tasks.status of the workflow's s-th step
    task,      \* task[t]: the automation task t of the order
    asg,       \* asg[t]: its assignments, in id order
    creating,  \* where the create_order coroutine is
    tx,        \* tx[c]: the completion c in flight
    ops,       \* interventions so far (bounded by MaxOps)
    crashes    \* crashes so far (bounded by MaxCrashes)

vars == <<order, step, task, asg, creating, tx, ops, crashes>>

StepStatus  == {"pending", "active", "done"}
OrderStatus == {"absent", "submitted", "in_progress",
                "awaiting_confirmation", "completed"}
TaskStatus  == {"absent", "open", "pending", "claimed", "in_progress",
                "completed", "cancelled"}
Assignment  == [user : Users, role : Roles \cup {NoRole},
                status : {"pending", "in_progress", "done"}]

Phases == {"start", "root", "root_requester", "root_progress", "root_reopen",
           "role", "role_open", "role_refresh", "role_again", "tail",
           "done", "failed"}

\* The rows a completion locks: the order, a step, a task, the i-th assignment of a task.
RowIds        == {"row"} \X TaskIds \X Nat
Locks         == ({"order", "step", "task"} \X TaskIds \X Nat) \cup RowIds
OrderLock     == <<"order", "root", 0>>
StepLock(s)   == <<"step", "root", s>>
TaskLock(t)   == <<"task", t, 0>>
RowLock(t, i) == <<"row", t, i>>

Idle == [pc |-> "idle", user |-> Nobody, task |-> "root", row |-> 0,
         role |-> NoRole, step |-> 0, due |-> {}, held |-> {}, marks |-> {},
         won |-> FALSE, left |-> {}, closed |-> {}]

\* due: the rows the next statement is about to write; held: the row locks it has;
\* marks: the assignments it has marked done; won: has it completed its step?
\* left, closed: the role tasks it will close, and the tasks it has closed.
Call == [pc : {"idle", "read", "acking", "marking", "noting", "engine", "delivering",
               "chain", "root", "closing", "cascade", "commit", "parent",
               "parent_task", "parent_rows"},
         user : Users \cup {Nobody}, task : TaskIds, row : Nat,
         role : Roles \cup {NoRole}, step : Steps \cup {0},
         due : SUBSET RowIds, held : SUBSET Locks, marks : SUBSET RowIds,
         won : BOOLEAN, left : SUBSET {"foreman", "delivery"}, closed : SUBSET TaskIds]

TypeOK ==
    /\ order \in OrderStatus
    /\ step \in [Steps -> StepStatus]
    /\ task \in [TaskIds -> [status : TaskStatus, claimedBy : Users \cup {Nobody}]]
    /\ asg \in [TaskIds -> Seq(Assignment)]
    /\ creating \in [at : Phases, role : TaskIds]
    /\ tx \in [Calls -> Call]
    /\ ops \in Nat
    /\ crashes \in Nat

Init ==
    /\ order = "absent"
    /\ step = [s \in Steps |-> "pending"]
    /\ task = [t \in TaskIds |-> [status |-> "absent", claimedBy |-> Nobody]]
    /\ asg = [t \in TaskIds |-> <<>>]
    /\ creating = [at |-> "start", role |-> "root"]
    /\ tx = [c \in Calls |-> Idle]
    /\ ops = 0
    /\ crashes = 0

RequiredRole(t) == IF t = "root" THEN NoRole ELSE t
Exists(t)       == task[t].status # "absent"
Rows(t)         == DOMAIN asg[t]
RowOf(t, u)     == {i \in Rows(t) : asg[t][i].user = u}
AllDone(st)     == \A s \in Steps : st[s] = "done"
NotDone(st, r)  == {s \in Steps : Workflow[s].role = r /\ st[s] # "done"}

MarkDone(rows, I) == [i \in DOMAIN rows |->
    IF i \in I THEN [rows[i] EXCEPT !.status = "done"] ELSE rows[i]]

\* The bound on the interleavings with the creation coroutine.
Open == ActDuringCreation \/ creating.at \in {"done", "failed"}
-----------------------------------------------------------------------------
(* The engine: task_engine.complete_task on the steps st. *)

Pending(st) == {p \in Steps : st[p] = "pending"}

\* Mutant: only a step of the same role is activated.
NextStepSameRole(st, s) ==
    {p \in Pending(st) : p = s + 1 /\ Workflow[p].role = Workflow[s].role}

\* The successor by id if it is pending, else the first pending step.
NextStep(st, s) ==
    IF s + 1 \in Pending(st) THEN {s + 1}
    ELSE {p \in Pending(st) : \A q \in Pending(st) : p <= q}

\* Mutant: the update misses the id, and completes the steps of the role.
EngineCompleteRole(st, s) ==
    LET done == [p \in Steps |-> IF Workflow[p].role = Workflow[s].role THEN "done" ELSE st[p]]
    IN  [p \in Steps |-> IF p \in NextStep(done, s) THEN "active" ELSE done[p]]

EngineComplete(st, s) ==
    LET done == [st EXCEPT ![s] = "done"]
    IN  [p \in Steps |-> IF p \in NextStep(done, s) THEN "active" ELSE done[p]]

\* Mutant: the update of the step misses "WHERE status = active".
AnyStatus(s) == s # 0

\* The condition of the engine's guarded update.
StillActive(s) == s # 0 /\ step[s] = "active"

\* Is s the step with which the work of the delivery role ends?
EndsDelivery(st, s) == Workflow[s].role = "delivery" /\ NotDone(st, "delivery") = {}

-----------------------------------------------------------------------------
(* What a call in flight has written: seen by itself, and by all once it    *)
(* commits.  It keeps the locks of the rows it has written until then.      *)

StepsAfter(c) == IF tx[c].won THEN EngineComplete(step, tx[c].step) ELSE step

AsgAfter(c) ==
    [t \in TaskIds |-> MarkDone(asg[t], {i \in Rows(t) : RowLock(t, i) \in tx[c].marks})]

RowLocks(t, I) == {RowLock(t, i) : i \in I}

\* The rows of a task that c sees undone.
Undone(c, t) == {i \in Rows(t) : AsgAfter(c)[t][i].status # "done"}

LockFree(l) == \A c \in Calls : l \notin tx[c].held

Finish(c) == tx' = [tx EXCEPT ![c] = Idle]

-----------------------------------------------------------------------------
(* create_order and OrderAutomationTriggers.on_order_created.               *)

Goto(at, r) == creating' = [at |-> at, role |-> r]

\* The order and its steps commit together; the first step is active.
CreateOrder ==
    /\ creating.at = "start"
    /\ order' = "submitted"
    /\ step' = [step EXCEPT ![1] = "active"]
    /\ Goto("root", "root")
    /\ UNCHANGED <<task, asg, tx, ops, crashes>>

\* create_task commits the root task; everything below runs after that commit.
CreateRoot ==
    /\ creating.at = "root"
    /\ task' = [task EXCEPT !.root = [status |-> "open", claimedBy |-> Nobody]]
    /\ IF HasRequester THEN Goto("root_requester", "root") ELSE Goto("role", FirstRole)
    /\ UNCHANGED <<order, step, asg, tx, ops, crashes>>

\* assign_user_to_task(creator, "requester"), from _create_template_assignments:
\* the unique constraint on (task, user) breaks the session, and with it
\* create_order, when the creator holds another assignment of the task by now.
AssignRequester ==
    /\ creating.at = "root_requester"
    /\ IF RowOf("root", Creator) = {}
       THEN /\ asg' = [asg EXCEPT !.root = Append(@, [user   |-> Creator,
                                                      role   |-> "requester",
                                                      status |-> "pending"])]
            /\ Goto("root_progress", "root")
       ELSE /\ Goto("failed", "root")
            /\ UNCHANGED asg
    /\ UNCHANGED <<order, step, task, tx, ops, crashes>>

\* The template helper moves the task with its requester to in_progress...
RootInProgress ==
    /\ creating.at = "root_progress"
    /\ LockFree(TaskLock("root"))
    /\ task' = [task EXCEPT !.root.status = "in_progress"]
    /\ Goto("root_reopen", "root")
    /\ UNCHANGED <<order, step, asg, tx, ops, crashes>>

\* ...and on_order_created, finding it not open, opens it again.  The second call
\* of the template helper finds the assignment of the first and does nothing.
RootReopen ==
    /\ creating.at = "root_reopen"
    /\ LockFree(TaskLock("root"))
    /\ task' = [task EXCEPT !.root = [status |-> "open", claimedBy |-> Nobody]]
    /\ Goto("role", FirstRole)
    /\ UNCHANGED <<order, step, asg, tx, ops, crashes>>

\* A role task is first committed as pending, with a webhook call after it.
CreateRoleTask ==
    /\ creating.at = "role"
    /\ task' = [task EXCEPT ![creating.role] = [status |-> "pending", claimedBy |-> Nobody]]
    /\ Goto("role_open", creating.role)
    /\ UNCHANGED <<order, step, asg, tx, ops, crashes>>

\* create_task then writes open over whatever status the row has by now.  Its
\* copy of claimed_by is NULL already, so that column is not written.  (The refresh
\* that follows expires task.assignments; reading them again cannot be awaited, and
\* the error is logged: no template assignment is made for a role task.)
OpenRoleTask ==
    /\ creating.at = "role_open"
    /\ LockFree(TaskLock(creating.role))
    /\ task' = [task EXCEPT ![creating.role].status = "open"]
    /\ Goto("role_refresh", creating.role)
    /\ UNCHANGED <<order, step, asg, tx, ops, crashes>>

AfterRole == IF creating.role = "foreman" THEN Goto("role", "delivery") ELSE Goto("tail", "root")

\* The refresh reads the row again: somebody may have claimed it by now...
RefreshRoleTask ==
    /\ creating.at = "role_refresh"
    /\ IF task[creating.role].status = "open" THEN AfterRole
       ELSE Goto("role_again", creating.role)
    /\ UNCHANGED <<order, step, task, asg, tx, ops, crashes>>

\* ...and then on_order_created, finding it not open, writes open a second time.
OpenAgain ==
    /\ creating.at = "role_again"
    /\ LockFree(TaskLock(creating.role))
    /\ task' = [task EXCEPT ![creating.role].status = "open"]
    /\ AfterRole
    /\ UNCHANGED <<order, step, asg, tx, ops, crashes>>

\* The last part of create_order recomputes the status from the steps.  Its session
\* still holds the Task objects it has made, and no commit expires them: whatever
\* the rows say by now it sees the first step active, and writes in_progress.
RecomputeWrite ==
    /\ creating.at = "tail"
    /\ LockFree(OrderLock)
    /\ order' = "in_progress"
    /\ Goto("done", "root")
    /\ UNCHANGED <<step, task, asg, tx, ops, crashes>>

Creation ==
    \/ CreateOrder \/ CreateRoot
    \/ AssignRequester \/ RootInProgress \/ RootReopen
    \/ CreateRoleTask \/ OpenRoleTask \/ RefreshRoleTask \/ OpenAgain
    \/ RecomputeWrite

-----------------------------------------------------------------------------
(* Claiming. *)

\* Mutant: the update only looks at the status.
ClaimableByStatus(t) == task[t].status \in {"open", "pending"}

\* The condition of claim_task's guarded update.
Claimable(t) == task[t].status \in {"open", "pending"} /\ task[t].claimedBy = Nobody

\* Mutant: the look for an assignment misses the task.
WithClaimerOfOrder(u, t) ==
    IF \E r \in TaskIds : RowOf(r, u) # {} THEN asg
    ELSE [asg EXCEPT ![t] = Append(@, [user   |-> u,
                                      role   |-> RequiredRole(t),
                                      status |-> "in_progress"])]

\* The claimer gets an assignment of the task unless there is one.
WithClaimer(u, t) ==
    IF RowOf(t, u) # {} THEN asg
    ELSE [asg EXCEPT ![t] = Append(@, [user   |-> u,
                                      role   |-> RequiredRole(t),
                                      status |-> "in_progress"])]

\* claim_task without override, one transaction under the lock of the task's row.  A
\* second assignment of the same user on the task would break the unique constraint
\* and undo the claim.
ClaimTask(u, t) ==
    /\ Open /\ LockFree(TaskLock(t))
    /\ Claimable(t)
    /\ RequiredRole(t) \in RolesOf[u] \cup {NoRole} \/ u \in Admins
    /\ \A i \in RowOf(t, u) : asg[t][i].role = RequiredRole(t)
    /\ task' = [task EXCEPT ![t] = [status |-> "claimed", claimedBy |-> u]]
    /\ asg' = WithClaimer(u, t)
    /\ UNCHANGED <<order, step, creating, tx, ops, crashes>>

\* An admin's claim with override takes over a claimed task whatever its status,
\* and creates no assignment.
OverrideClaim(u, t) ==
    /\ Open /\ ops < MaxOps
    /\ u \in Admins
    /\ task[t].claimedBy # Nobody /\ LockFree(TaskLock(t))
    /\ task' = [task EXCEPT ![t] = [status |-> "claimed", claimedBy |-> u]]
    /\ ops' = ops + 1
    /\ UNCHANGED <<order, step, asg, creating, tx, crashes>>
-----------------------------------------------------------------------------
(* Completing an assignment: AutomationService.complete_assignment.         *)

\* A user's own assignment of the task; for an admin the first that is not done.
PickRow(u, t) ==
    IF u \in Admins
    THEN LET left == {i \in Rows(t) : asg[t][i].status # "done"}
         IN  {i \in left : \A j \in left : i <= j}
    ELSE RowOf(t, u)

\* The step the holder of role r would complete: none for an admin and for a
\* role that has no steps, else the active one (no active one: PermissionError).
PickStep(u, r) ==
    IF u \in Admins \/ r = NoRole THEN {0}
    ELSE {s \in StepsFor(r) : step[s] = "active"}

\* POST /tasks/{id}/complete and /assignments/{id}/complete: the latter drops the
\* assignment's id and is a call for its task.
CompleteBegin(c, u, t) ==
    /\ Open
    /\ tx[c].pc = "idle"
    /\ IF u \in Admins THEN ops < MaxOps /\ ops' = ops + 1 ELSE UNCHANGED ops
    /\ \E i \in PickRow(u, t) :
         /\ asg[t][i].status # "done"
         /\ \E s \in PickStep(u, asg[t][i].role) :
              tx' = [tx EXCEPT ![c] =
                       [Idle EXCEPT !.pc = "read", !.user = u, !.task = t,
                                    !.row = i, !.role = asg[t][i].role, !.step = s]]
    /\ UNCHANGED <<order, step, task, asg, creating, crashes>>

KeyOf(s) == IF s = 0 THEN "none" ELSE Workflow[s].key

\* The role whose assignment a step acknowledges.
Acknowledges(s) == CASE KeyOf(s) = "delivery_received" -> "foreman"
                     [] KeyOf(s) = "confirm_received"  -> "delivery"
                     [] OTHER                          -> NoRole

AckRows(c) ==
    {j \in Rows(tx[c].task) : /\ Acknowledges(tx[c].step) # NoRole
                              /\ asg[tx[c].task][j].role = Acknowledges(tx[c].step)}

\* Does the call mark the assignment it picked done?  An admin's always; a user's
\* when the step is the confirmation, or its role has no step left.
MarksOwn(c) ==
    \/ tx[c].user \in Admins
    \/ KeyOf(tx[c].step) = "confirm_received"
    \/ /\ \E s \in Steps : Workflow[s].role = tx[c].role
       /\ NotDone(step, tx[c].role) = {}

-----------------------------------------------------------------------------
(* The locks a completion waits for.  A statement takes the locks of its     *)
(* rows one by one, and writes when it has them all; WHERE is evaluated anew *)
(* on a row that it has waited for.                                          *)

\* The caller's own assignment is only written while it is still the caller's.
StillOwn(c) == tx[c].user \in Admins \/ asg[tx[c].task][tx[c].row].user = tx[c].user

\* The cascade takes the tasks in the order of their ids.
NextLeft(c) == IF "foreman" \in tx[c].left THEN "foreman" ELSE "delivery"

\* The rows that the next statement of c writes.
Writes(c) ==
    LET at  == tx[c].pc
        own == {RowLock(tx[c].task, tx[c].row)}
    IN  CASE at \in {"acking", "commit"} -> tx[c].due
          [] at = "marking" /\ StillOwn(c) /\ tx[c].row \in Undone(c, tx[c].task) -> own
          [] at = "noting" /\ StillOwn(c) -> own
          [] at = "engine" /\ StillActive(tx[c].step) -> {StepLock(tx[c].step)}
          [] at = "delivering" ->
                 RowLocks("root", {i \in Undone(c, "root") : asg["root"][i].role = "delivery"})
          [] at = "chain" -> {TaskLock(t) : t \in TaskIds}
          [] at = "closing" -> {OrderLock, TaskLock("root")}
          [] at = "cascade" -> {TaskLock(NextLeft(c))} \cup tx[c].due
          [] at = "parent_task" -> {TaskLock("root")}
          [] at = "parent_rows" -> RowLocks("root", Undone(c, "root"))
          [] OTHER -> {}

Needs(c) == Writes(c) \ tx[c].held

Ready(c) == \A l \in Needs(c) : LockFree(l)

\* The record of c once its statement is through, and c goes on to at.
Through(c, at) == [tx[c] EXCEPT !.pc = at, !.held = @ \cup Needs(c)]

\* Mutant: nothing looks for cycles of waiting transactions.
WaitsUnseen(c, d) == FALSE

WaitsFor(c, d) == c # d /\ Needs(c) \cap tx[d].held # {}

\* One of several locks that a statement needs.  (CREATE INDEX locks the table as a
\* whole: it waits until no one holds a task.)
Acquire(c) ==
    /\ tx[c].pc # "chain"
    /\ Cardinality(Needs(c)) > 1
    /\ \E l \in Needs(c) : LockFree(l) /\ tx' = [tx EXCEPT ![c].held = @ \cup {l}]
    /\ UNCHANGED <<order, step, task, asg, creating, ops, crashes>>

\* PostgreSQL aborts one of two transactions that wait for each other.
DeadlockVictim(c) ==
    /\ \E d \in Calls : WaitsFor(c, d) /\ WaitsFor(d, c)
    /\ Finish(c)
    /\ UNCHANGED <<order, step, task, asg, creating, ops, crashes>>

-----------------------------------------------------------------------------
\* Which assignment of another role does the step acknowledge?  Two of them raise
\* MultipleResultsFound, which ends the call with nothing written.
Acknowledge(c) ==
    /\ tx[c].pc = "read"
    /\ LET rows == IF NotDone(step, Acknowledges(tx[c].step)) = {}
                   THEN AckRows(c) \cap Undone(c, tx[c].task) ELSE {}
       IN  IF Cardinality(AckRows(c)) > 1
           THEN Finish(c)
           ELSE tx' = [tx EXCEPT ![c].pc = "acking", ![c].due = RowLocks(tx[c].task, rows)]
    /\ UNCHANGED <<order, step, task, asg, creating, ops, crashes>>

\* It is marked done; then the call decides what becomes of the caller's own.
UpdateAck(c) ==
    /\ tx[c].pc = "acking"
    /\ Ready(c)
    /\ tx' = [tx EXCEPT ![c] = [Through(c, IF MarksOwn(c) THEN "marking" ELSE "noting")
                                  EXCEPT !.marks = tx[c].due, !.due = {}]]
    /\ UNCHANGED <<order, step, task, asg, creating, ops, crashes>>

\* The caller's own assignment is marked done, or gets the caller's notes.
UpdateOwn(c) ==
    /\ tx[c].pc \in {"marking", "noting"}
    /\ Ready(c)
    /\ tx' = [tx EXCEPT ![c] =
                [Through(c, IF tx[c].step = 0 THEN "root" ELSE "engine")
                   EXCEPT !.marks = IF tx[c].pc = "marking" THEN @ \cup Writes(c) ELSE @]]
    /\ UNCHANGED <<order, step, task, asg, creating, ops, crashes>>

\* POST /api/tasks/{id}/complete calls the engine by itself: a call without an
\* assignment.  (Unpacking the engine's dictionary then fails, after the commit.)
StepBegin(c, s) ==
    /\ Open /\ DirectSteps
    /\ tx[c].pc = "idle"
    /\ order # "absent" /\ StillActive(s)
    /\ tx' = [tx EXCEPT ![c] = [Idle EXCEPT !.pc = "engine", !.step = s]]
    /\ UNCHANGED <<order, step, task, asg, creating, ops, crashes>>

\* After the handover on the foreman's task the call ensures the delivery task.
Chains(c) == tx[c].task = "foreman" /\ KeyOf(tx[c].step) = "foreman_handover"

AfterEngine(c) == IF tx[c].row = 0 THEN "commit" ELSE IF Chains(c) THEN "chain" ELSE "root"

\* The engine's guarded update of the step, and of its successor, which is nobody
\* else's while it is pending.  When the step is no longer active the engine raises:
\* that ends a call to the engine alone, and complete_assignment carries on without.
EngineUpdate(c) ==
    /\ tx[c].pc = "engine"
    /\ Ready(c)
    /\ LET s    == tx[c].step
           last == StillActive(s) /\ Exists("root") /\ EndsDelivery(EngineComplete(step, s), s)
       IN  IF ~StillActive(s) /\ tx[c].row = 0
           THEN Finish(c)
           ELSE tx' = [tx EXCEPT ![c] =
                         [Through(c, IF last THEN "delivering" ELSE AfterEngine(c))
                            EXCEPT !.won = StillActive(s)]]
    /\ UNCHANGED <<order, step, task, asg, creating, ops, crashes>>

\* The last delivery step closes the delivery assignments of the root task.
EngineDelivery(c) ==
    /\ tx[c].pc = "delivering"
    /\ Ready(c)
    /\ tx' = [tx EXCEPT ![c] = [Through(c, AfterEngine(c)) EXCEPT !.marks = @ \cup Writes(c)]]
    /\ UNCHANGED <<order, step, task, asg, creating, ops, crashes>>

\* _maybe_chain_foreman_to_delivery creates an index, for which no task may be locked,
\* and commits the session in the middle of the call.  With an active delivery task it
\* then returns.  Else it inserts one for user id 0, which the foreign key refuses; the
\* failed session ends the whole call.
ChainCommit(c) ==
    /\ tx[c].pc = "chain"
    /\ Ready(c)
    /\ step' = StepsAfter(c)
    /\ asg' = AsgAfter(c)
    /\ IF task["delivery"].status \in {"open", "claimed", "pending"}
       THEN tx' = [tx EXCEPT ![c].pc = "root", ![c].held = {}, ![c].marks = {}, ![c].won = FALSE]
       ELSE Finish(c)
    /\ UNCHANGED <<order, task, creating, ops, crashes>>

\* Mutant: a root task without assignments is not done (as in close_task_if_all_done).
RootClosesAssigned(rows, st) ==
    /\ rows # <<>>
    /\ \A i \in DOMAIN rows : rows[i].status = "done"
    /\ OrderType = "agent_retail" =>
           \A s \in Steps : KeyOf(s) = "deliver_items" => st[s] = "done"

\* The decision to close the order: no assignment of the root task is left, and a
\* retail order is delivered.
RootCloses(rows, st) ==
    /\ \A i \in DOMAIN rows : rows[i].status = "done"
    /\ OrderType = "agent_retail" =>
           \A s \in Steps : KeyOf(s) = "deliver_items" => st[s] = "done"

EvaluateRoot(c) ==
    /\ tx[c].pc = "root"
    /\ tx' = [tx EXCEPT ![c].pc =
                IF Exists("root") /\ RootCloses(AsgAfter(c).root, StepsAfter(c))
                THEN "closing" ELSE "commit"]
    /\ UNCHANGED <<order, step, task, asg, creating, ops, crashes>>

\* Mutant: claimed tasks are forgotten.
CascadedUnclaimed == {t \in TaskIds \ {"root"} : task[t].status \in {"open", "in_progress"}}

\* The role tasks that closing the order completes as well.
Cascaded == {t \in TaskIds \ {"root"} : task[t].status \in {"open", "claimed", "in_progress"}}

\* The order and the root task are written; then the role tasks are read.
CloseOrder(c) ==
    /\ tx[c].pc = "closing"
    /\ Ready(c)
    /\ tx' = [tx EXCEPT ![c] = [Through(c, IF Cascaded = {} THEN "commit" ELSE "cascade")
                                  EXCEPT !.closed = {"root"}, !.left = Cascaded]]
    /\ UNCHANGED <<order, step, task, asg, creating, ops, crashes>>

\* A role task is written (and with it, in one flush, the assignments of the one
\* before), and then its assignments are read.
CascadeTask(c) ==
    /\ tx[c].pc = "cascade"
    /\ Ready(c)
    /\ LET t    == NextLeft(c)
           rest == tx[c].left \ {t}
       IN  tx' = [tx EXCEPT ![c] = [Through(c, IF rest = {} THEN "commit" ELSE "cascade")
                    EXCEPT !.closed = @ \cup {t}, !.left = rest,
                           !.marks = @ \cup tx[c].due, !.due = RowLocks(t, Undone(c, t))]]
    /\ UNCHANGED <<order, step, task, asg, creating, ops, crashes>>

\* Mutant: the status of an assignment is written to the task.
CloseTasksAsDone(T) == [t \in TaskIds |->
    IF t \in T THEN [task[t] EXCEPT !.status = "done"] ELSE task[t]]

CloseTasks(T) == [t \in TaskIds |->
    IF t \in T THEN [task[t] EXCEPT !.status = "completed"] ELSE task[t]]

\* Mutant: a completion that does not close the order says it is in progress.
OrderAfterRecomputed(c) == IF OrderLock \in tx[c].held THEN "completed" ELSE "in_progress"

OrderAfter(c) == IF OrderLock \in tx[c].held THEN "completed" ELSE order

\* The single commit, which first writes what the cascade has left over.
CompleteCommit(c) ==
    /\ tx[c].pc = "commit"
    /\ Ready(c)
    /\ step' = StepsAfter(c)
    /\ order' = OrderAfter(c)
    /\ task' = CloseTasks(tx[c].closed)
    /\ asg' = [t \in TaskIds |->
                 MarkDone(AsgAfter(c)[t], {i \in Rows(t) : RowLock(t, i) \in tx[c].due})]
    /\ Finish(c)
    /\ UNCHANGED <<creating, ops, crashes>>

-----------------------------------------------------------------------------
(* Interventions of the creator and of the admins. *)

Manages(u) == u = Creator \/ u \in Admins

Intervenes == Open /\ ops < MaxOps /\ ops' = ops + 1

\* cancel_task (creator or admin) and soft_delete_task (admin): any status.
CancelTask(u, t) ==
    /\ Intervenes /\ Manages(u) /\ Exists(t) /\ LockFree(TaskLock(t))
    /\ task' = [task EXCEPT ![t].status = "cancelled"]
    /\ UNCHANGED <<order, step, asg, creating, tx, crashes>>

\* assign_user_to_task: one assignment for a user on a task.
AssignUser(u, t, v, r) ==
    /\ Intervenes /\ Manages(u) /\ Exists(t)
    /\ RowOf(t, v) = {}
    /\ task[t].status = "pending" => LockFree(TaskLock(t))
    /\ asg' = [asg EXCEPT ![t] = Append(@, [user |-> v, role |-> r, status |-> "pending"])]
    /\ task' = IF task[t].status = "pending"
               THEN [task EXCEPT ![t].status = "in_progress"] ELSE task
    /\ UNCHANGED <<order, step, creating, tx, crashes>>

\* The root task's session copies are in use while create_order sets it up; an
\* admin's reassignment in that moment is left out.
RootSettled == creating.at \notin {"root_requester", "root_progress", "root_reopen"}

\* reassign_task moves the claim, and nothing else.
ReassignTask(u, t, v) ==
    /\ Intervenes /\ u \in Admins /\ Exists(t) /\ RootSettled
    /\ LockFree(TaskLock(t))
    /\ task' = [task EXCEPT ![t].claimedBy = v]
    /\ UNCHANGED <<order, step, asg, creating, tx, crashes>>

\* Mutant: a reassigned assignment starts again.
ReassignAssignmentAfresh(u, t, i, v, r) ==
    /\ Intervenes /\ u \in Admins /\ RootSettled
    /\ i \in Rows(t) /\ LockFree(RowLock(t, i))
    /\ RowOf(t, v) \subseteq {i}
    /\ asg' = [asg EXCEPT ![t][i] = [user |-> v, role |-> r, status |-> "pending"]]
    /\ UNCHANGED <<order, step, task, creating, tx, crashes>>

\* reassign_assignment gives an assignment to another user, or another role.
ReassignAssignment(u, t, i, v, r) ==
    /\ Intervenes /\ u \in Admins /\ RootSettled
    /\ i \in Rows(t) /\ LockFree(RowLock(t, i))
    /\ RowOf(t, v) \subseteq {i}
    /\ asg[t][i].user # v \/ asg[t][i].role # r
    /\ asg' = [asg EXCEPT ![t][i].user = v, ![t][i].role = r]
    /\ UNCHANGED <<order, step, task, creating, tx, crashes>>

\* An admin completes a task that has no assignments.  For a delivery task the
\* handler goes on, after the commit, to the root task.
ForceComplete(c, u, t) ==
    /\ Intervenes /\ u \in Admins /\ Exists(t)
    /\ tx[c].pc = "idle"
    /\ asg[t] = <<>> /\ LockFree(TaskLock(t))
    /\ task' = [task EXCEPT ![t].status = "completed"]
    /\ tx' = IF t = "delivery"
             THEN [tx EXCEPT ![c] = [Idle EXCEPT !.pc = "parent", !.user = u]] ELSE tx
    /\ UNCHANGED <<order, step, asg, creating, crashes>>

\* It closes the root task, and its assignments, when it sees no role task left:
\* another transaction, which writes the task, then its rows, and then commits.
CloseParent(c) ==
    /\ tx[c].pc = "parent"
    /\ IF \A t \in TaskIds :
              (task[t].status \in {"absent", "completed", "cancelled"}) <=> t # "root"
       THEN tx' = [tx EXCEPT ![c].pc = "parent_task"]
       ELSE Finish(c)
    /\ UNCHANGED <<order, step, task, asg, creating, ops, crashes>>

ParentTask(c) ==
    /\ tx[c].pc = "parent_task"
    /\ Ready(c)
    /\ tx' = [tx EXCEPT ![c] = [Through(c, "parent_rows") EXCEPT !.closed = {"root"}]]
    /\ UNCHANGED <<order, step, task, asg, creating, ops, crashes>>

ParentRows(c) ==
    /\ tx[c].pc = "parent_rows"
    /\ Ready(c)
    /\ tx' = [tx EXCEPT ![c] = [Through(c, "commit") EXCEPT !.marks = Writes(c)]]
    /\ UNCHANGED <<order, step, task, asg, creating, ops, crashes>>

\* What the server does for a completion in flight.
Completing(c) ==
    \/ Acknowledge(c) \/ UpdateAck(c) \/ UpdateOwn(c) \/ EngineUpdate(c) \/ EngineDelivery(c)
    \/ ChainCommit(c) \/ EvaluateRoot(c) \/ CloseOrder(c) \/ CascadeTask(c) \/ CompleteCommit(c)
    \/ CloseParent(c) \/ ParentTask(c) \/ ParentRows(c)
    \/ Acquire(c) \/ DeadlockVictim(c)

\* The server stops: open transactions roll back, and a create_order that has not
\* returned never resumes.
Crash ==
    /\ crashes < MaxCrashes
    /\ crashes' = crashes + 1
    /\ tx' = [c \in Calls |-> Idle]
    /\ IF creating.at \in {"start", "done", "failed"}
       THEN UNCHANGED creating ELSE Goto("failed", "root")
    /\ UNCHANGED <<order, step, task, asg, ops>>

-----------------------------------------------------------------------------
Intervention ==
    \E u \in Users, t \in TaskIds :
        \/ OverrideClaim(u, t)
        \/ CancelTask(u, t)
        \/ \E c \in Calls : ForceComplete(c, u, t)
        \/ \E v \in Users : ReassignTask(u, t, v)
        \/ \E v \in Users, r \in Roles : AssignUser(u, t, v, r)
        \/ \E i \in Rows(t), v \in Users, r \in Roles : ReassignAssignment(u, t, i, v, r)

Next ==
    \/ Creation
    \/ \E u \in Users, t \in TaskIds : ClaimTask(u, t)
    \/ \E c \in Calls, u \in Users, t \in TaskIds : CompleteBegin(c, u, t)
    \/ \E c \in Calls : Completing(c)
    \/ \E c \in Calls, s \in Steps : StepBegin(c, s)
    \/ Intervention
    \/ Crash

Spec == Init /\ [][Next]_vars

\* What the server itself guarantees: the coroutine of create_order and the calls in
\* flight are scheduled, and whoever waits for a row lock gets it in its turn
\* (PostgreSQL queues the waiters of a row, and looks for deadlocks among them).
ServerFairness ==
    /\ SF_vars(Creation)
    /\ \A c \in Calls : SF_vars(Completing(c))

\* What the process needs of people: whoever may claim a role task that is free
\* does so in the end, and whoever has an assignment keeps trying to complete it.
PeopleFairness ==
    /\ \A t \in TaskIds \ {"root"} : WF_vars(\E u \in Users : ClaimTask(u, t))
    /\ \A u \in Users, t \in TaskIds : SF_vars(\E c \in Calls : CompleteBegin(c, u, t))

ServerSpec == Spec /\ ServerFairness
FairSpec   == Spec /\ ServerFairness /\ PeopleFairness

-----------------------------------------------------------------------------
(* Properties. *)

Quiet   == creating.at = "done" /\ \A c \in Calls : tx[c].pc = "idle"
Shipped == AllDone(step)

\* The steps of an order are done strictly in the order of its workflow: a prefix
\* is done, the next one is the only active one, the rest is pending.  The guarded
\* updates of complete_task must keep this under every race of two completers.
StepsInOrder ==
    order # "absent" =>
        \E k \in 1 .. Len(Workflow) + 1 : \A s \in Steps :
            step[s] = IF s < k THEN "done" ELSE IF s = k THEN "active" ELSE "pending"

\* Whatever commits, at most one more step is done, and no step that was done comes
\* back: a double click never completes the next step too (complete_task's
\* "WHERE status = active", task_engine.py:465).
OneStepMore ==
    /\ \A s \in Steps : step[s] = "done" => step'[s] = "done"
    /\ \A r, s \in Steps : r # s /\ step[r] # "done" /\ step[s] # "done"
                             => ~(step'[r] = "done" /\ step'[s] = "done")

StepsAdvance == [][OneStepMore]_vars

\* An order is completed only when all its workflow steps are done (the safety
\* check of complete_task, task_engine.py:544).
CompletedMeansShipped == order = "completed" => Shipped

\* Of all the users who race for a role task one wins: without manual assignments
\* a task never has two assignments of the role it requires, even though
\* create_task writes open over a claim.
OneClaimWinner ==
    \A t \in TaskIds \ {"root"} : Cardinality({i \in Rows(t) : asg[t][i].role = t}) <= 1

\* A claimed task is on the list of its claimer: claim_task leaves the claimer with
\* an assignment of the task.
ClaimIsAssigned ==
    \A t \in TaskIds : task[t].status = "claimed" => RowOf(t, task[t].claimedBy) # {}

\* Closing an order leaves nobody with work on its role tasks: none can still be
\* claimed or worked on, and every assignment of them is done.  (The root task is
\* not included: a claim may slip in between the decision to close and the write.)
NoWorkAfterClose ==
    order = "completed" /\ creating.at = "done" =>
        \A t \in TaskIds \ {"root"} :
            /\ task[t].status \in {"absent", "completed", "cancelled"}
            /\ \A i \in Rows(t) : asg[t][i].status = "done"

\* Claims have their assignments while the order is open, and none is left when it is closed.
WorkFollowsOrder == ClaimIsAssigned /\ NoWorkAfterClose

\* The commit that completes the last step of a retail order completes the order,
\* if nobody touched its root task: the decision, taken before the commit, sees the
\* step the call itself has completed (service.py:1317).
LastStepCloses ==
    \A c \in Calls :
        /\ OrderType = "agent_retail" /\ asg.root = <<>> /\ Exists("root")
        /\ tx[c].pc = "commit" /\ tx[c].row # 0 /\ tx'[c].pc = "idle"
        /\ ~Shipped /\ AllDone(step')
        => order' = "completed"

DeliveryClosesRetail == [][LastStepCloses]_vars

\* A completed order stays completed, whatever people do, except for the late
\* write at the end of its own create_order.
StaysCompleted == order = "completed" => order' = "completed" \/ creating.at = "tail"

ReopenedOnlyByCreation == [][StaysCompleted]_vars

\* Work that was acknowledged stays acknowledged: an assignment that is done is
\* never open again, whoever reassigns, cancels or completes what.
StaysDone ==
    \A t \in TaskIds : \A i \in Rows(t) :
        asg[t][i].status = "done" => i \in DOMAIN asg'[t] /\ asg'[t][i].status = "done"

WorkStaysDone == [][StaysDone]_vars

\* Every completion ends: those that lock the same rows in opposite orders, as the
\* handover's table lock (service.py:1629) and the cascade (service.py:1353) do, and
\* those that commit in the middle, do not keep each other waiting for ever.
CallsEnd == \A c \in Calls : tx[c].pc # "idle" ~> tx[c].pc = "idle"

\* If people claim and complete what they may, the order gets shipped: no role is
\* ever left without an assignment it can act on while its step is active.
OrderShips == creating.at = "done" ~> Shipped

\* When the last step is done and nothing is in flight, the order is completed
\* (tests/test_order_workflow_regression.py:217, task_engine.py:408).
ShippedMeansCompleted == Quiet /\ Shipped => order = "completed"

\* An open role task is unclaimed, so that it can be claimed (service.py:401).
OpenMeansUnclaimed ==
    \A t \in TaskIds \ {"root"} : task[t].status = "open" => task[t].claimedBy = Nobody
=============================================================================
