------------------------ MODULE OrderWorkflow_proofs ------------------------
(***************************************************************************)
(* What holds of OrderWorkflow for every set of users, calls and bounds,   *)
(* and every type of order: types, and the order of the workflow steps.    *)
(***************************************************************************)
EXTENDS OrderWorkflow, FiniteSetTheorems, TLAPS

-----------------------------------------------------------------------------
(* Lemmas about the data. *)

\* Every workflow has at least two steps.
LEMMA WorkflowLength == Len(Workflow) \in Nat /\ Len(Workflow) >= 2
<1> DEFINE Two  == << Step("accept_delivery", "delivery"), Step("deliver_items", "delivery") >>
           Last == Step("confirm_received", "requester")
<1>1. Len(WarehouseSteps) = 4 /\ WarehouseSteps \in Seq({WarehouseSteps[i] : i \in 1 .. 4})
  BY DEF WarehouseSteps
<1>2. WarehouseSteps \in Seq({WarehouseSteps[i] : i \in 1 .. 4} \cup {Last})
  BY <1>1
<1>3. Len(Append(WarehouseSteps, Last)) = 5
  BY <1>1, <1>2, SMTT(30)
<1>4. Len(Two) = 2
  OBVIOUS
<1>5. Workflow = Append(WarehouseSteps, Last) \/ Workflow = Two \/ Workflow = WarehouseSteps
  BY OrderTypeAssumption DEF Workflow, WORKFLOWS, OrderTypes
<1>6. Len(Workflow) \in {2, 4, 5}
  <2>1. CASE Workflow = Append(WarehouseSteps, Last) BY <1>3, <2>1
  <2>2. CASE Workflow = Two BY <1>4, <2>2
  <2>3. CASE Workflow = WarehouseSteps BY <1>1, <2>3
  <2>4. QED BY <1>5, <2>1, <2>2, <2>3
<1>7. QED BY <1>6

\* Marking assignments done changes neither which there are nor their type.
LEMMA MarkDoneType ==
    ASSUME NEW rows \in Seq(Assignment), NEW I
    PROVE  /\ MarkDone(rows, I) \in Seq(Assignment)
           /\ DOMAIN MarkDone(rows, I) = DOMAIN rows
<1>1. \A i \in 1 .. Len(rows) : rows[i] \in Assignment
  OBVIOUS
<1>2. \A a \in Assignment : [a EXCEPT !.status = "done"] \in Assignment
  BY DEF Assignment
<1>3. MarkDone(rows, I) \in [1 .. Len(rows) -> Assignment]
  BY <1>1, <1>2 DEF MarkDone
<1>4. QED BY <1>3 DEF MarkDone

\* The engine writes statuses of steps.
LEMMA EngineCompleteType ==
    ASSUME NEW st \in [Steps -> StepStatus], NEW s
    PROVE  EngineComplete(st, s) \in [Steps -> StepStatus]
BY DEF EngineComplete, StepStatus

\* What a call has written is of the type of what is there.
LEMMA AfterType ==
    ASSUME TypeOK, NEW c \in Calls
    PROVE  /\ StepsAfter(c) \in [Steps -> StepStatus]
           /\ AsgAfter(c) \in [TaskIds -> Seq(Assignment)]
           /\ \A t \in TaskIds : DOMAIN AsgAfter(c)[t] = DOMAIN asg[t]
<1>1. AsgAfter(c) \in [TaskIds -> Seq(Assignment)]
  BY MarkDoneType DEF AsgAfter, TypeOK
<1>2. StepsAfter(c) \in [Steps -> StepStatus]
  BY EngineCompleteType DEF StepsAfter, TypeOK
<1>3. \A t \in TaskIds : DOMAIN AsgAfter(c)[t] = DOMAIN asg[t]
  BY MarkDoneType DEF AsgAfter, TypeOK
<1> QED BY <1>1, <1>2, <1>3

-----------------------------------------------------------------------------
(* Locks. *)

\* The locks of different kinds of rows, and of different rows, are different.
LEMMA LockKinds ==
    /\ OrderLock \in Locks \ RowIds
    /\ \A s \in Nat : StepLock(s) \in Locks \ RowIds /\ StepLock(s) # OrderLock
    /\ \A t \in TaskIds : /\ TaskLock(t) \in Locks \ RowIds /\ TaskLock(t) # OrderLock
                          /\ \A s \in Nat : TaskLock(t) # StepLock(s)
    /\ \A t \in TaskIds, i \in Nat : RowLock(t, i) \in RowIds
    /\ \A t, r, i, j : RowLock(t, i) = RowLock(r, j) => t = r /\ i = j
    /\ \A t, r : TaskLock(t) = TaskLock(r) => t = r
    /\ \A s, r : StepLock(s) = StepLock(r) => s = r
    /\ RowIds \subseteq Locks
BY DEF OrderLock, StepLock, TaskLock, RowLock, Locks, RowIds, TaskIds

\* Rows have numbers.
LEMMA RowNumbers == ASSUME TypeOK, NEW t \in TaskIds PROVE Rows(t) \subseteq Nat \ {0}
<1>1. asg[t] \in Seq(Assignment)
  BY DEF TypeOK
<1>2. DOMAIN asg[t] = 1 .. Len(asg[t]) /\ Len(asg[t]) \in Nat
  BY <1>1
<1> QED BY <1>2 DEF Rows

\* The locks of rows of a task.
LEMMA RowLocksType ==
    ASSUME TypeOK, NEW t \in TaskIds, NEW I \in SUBSET Rows(t)
    PROVE  RowLocks(t, I) \in SUBSET RowIds
BY RowNumbers, LockKinds DEF RowLocks

\* What each statement of a call writes, statement by statement.
LEMMA WritesAt ==
    ASSUME NEW c \in Calls
    PROVE  /\ tx[c].pc \in {"acking", "commit"} => Writes(c) = tx[c].due
           /\ tx[c].pc \in {"marking", "noting"} =>
                 Writes(c) \subseteq {RowLock(tx[c].task, tx[c].row)}
           /\ tx[c].pc = "engine" =>
                 Writes(c) = IF StillActive(tx[c].step) THEN {StepLock(tx[c].step)} ELSE {}
           /\ tx[c].pc = "delivering" =>
                 Writes(c) = RowLocks("root", {i \in Undone(c, "root") : asg["root"][i].role = "delivery"})
           /\ tx[c].pc = "chain" => Writes(c) = {TaskLock(t) : t \in TaskIds}
           /\ tx[c].pc = "closing" => Writes(c) = {OrderLock, TaskLock("root")}
           /\ tx[c].pc = "cascade" => Writes(c) = {TaskLock(NextLeft(c))} \cup tx[c].due
           /\ tx[c].pc = "parent_task" => Writes(c) = {TaskLock("root")}
           /\ tx[c].pc = "parent_rows" => Writes(c) = RowLocks("root", Undone(c, "root"))
           /\ tx[c].pc \in {"idle", "read", "root", "parent"} => Writes(c) = {}
<1>1. CASE tx[c].pc \in {"acking", "commit"}  BY <1>1 DEF Writes
<1>2. CASE tx[c].pc \in {"marking", "noting"}  BY <1>2 DEF Writes
<1>3. CASE tx[c].pc = "engine"  BY <1>3 DEF Writes
<1>4. CASE tx[c].pc = "delivering"  BY <1>4 DEF Writes
<1>5. CASE tx[c].pc = "chain"  BY <1>5 DEF Writes
<1>6. CASE tx[c].pc = "closing"  BY <1>6 DEF Writes
<1>7. CASE tx[c].pc = "cascade"  BY <1>7 DEF Writes
<1>8. CASE tx[c].pc = "parent_task"  BY <1>8 DEF Writes
<1>9. CASE tx[c].pc = "parent_rows"  BY <1>9 DEF Writes
<1>10. CASE tx[c].pc \in {"idle", "read", "root", "parent"}  BY <1>10 DEF Writes
<1> QED  BY <1>1, <1>2, <1>3, <1>4, <1>5, <1>6, <1>7, <1>8, <1>9, <1>10

\* They are rows, and only the closing of an order writes the order.
LEMMA WritesType ==
    ASSUME TypeOK, NEW c \in Calls
    PROVE  /\ Writes(c) \in SUBSET Locks
           /\ OrderLock \in Writes(c) => tx[c].pc = "closing"
           /\ tx[c].pc \in {"marking", "noting", "delivering", "parent_rows"} =>
                 Writes(c) \in SUBSET RowIds
<1>0. /\ tx[c] \in Call /\ "root" \in TaskIds /\ NextLeft(c) \in TaskIds
      /\ tx[c].due \in SUBSET RowIds /\ tx[c].task \in TaskIds /\ tx[c].row \in Nat
      /\ tx[c].step \in Nat
  <2>1. tx[c] \in Call /\ "root" \in TaskIds /\ NextLeft(c) \in TaskIds
    BY DEF TypeOK, NextLeft, TaskIds
  <2> QED  BY <2>1, WorkflowLength DEF Call, Steps
<1>1. /\ Undone(c, "root") \in SUBSET Rows("root")
      /\ {i \in Undone(c, "root") : asg["root"][i].role = "delivery"} \in SUBSET Rows("root")
  BY DEF Undone
<1>2. /\ RowLocks("root", Undone(c, "root")) \in SUBSET RowIds
      /\ RowLocks("root", {i \in Undone(c, "root") : asg["root"][i].role = "delivery"}) \in SUBSET RowIds
  BY <1>0, <1>1, RowLocksType
<1>3. RowLock(tx[c].task, tx[c].row) \in RowIds
  BY <1>0, LockKinds
<1>4. OrderLock \notin RowIds /\ OrderLock \in Locks /\ RowIds \in SUBSET Locks
  BY LockKinds
<1>5. /\ StepLock(tx[c].step) \in Locks \ {OrderLock}
      /\ \A t \in TaskIds : TaskLock(t) \in Locks \ {OrderLock}
  BY <1>0, LockKinds
<1>6. Writes(c) \in SUBSET RowIds => Writes(c) \in SUBSET Locks /\ OrderLock \notin Writes(c)
  BY <1>4
<1>7. tx[c].pc \in {"acking", "commit"} => Writes(c) \in SUBSET RowIds
  BY <1>0, WritesAt
<1>8. tx[c].pc \in {"marking", "noting"} => Writes(c) \in SUBSET RowIds
  BY <1>3, WritesAt
<1>9. tx[c].pc \in {"delivering", "parent_rows"} => Writes(c) \in SUBSET RowIds
  BY <1>2, WritesAt
<1>10. tx[c].pc = "engine" => Writes(c) \in SUBSET (Locks \ {OrderLock})
  <2>1. tx[c].pc = "engine" => Writes(c) = {StepLock(tx[c].step)} \/ Writes(c) = {}
    BY WritesAt
  <2> QED  BY <1>5, <2>1
<1>11. tx[c].pc = "parent_task" => Writes(c) \in SUBSET (Locks \ {OrderLock})
  BY <1>0, <1>5, WritesAt
<1>12. tx[c].pc = "chain" => Writes(c) \in SUBSET (Locks \ {OrderLock})
  <2>1. {TaskLock(t) : t \in TaskIds} \in SUBSET (Locks \ {OrderLock})
    BY <1>5
  <2> QED  BY <2>1, WritesAt
<1>13. tx[c].pc = "closing" => Writes(c) \in SUBSET Locks
  <2>1. {OrderLock, TaskLock("root")} \in SUBSET Locks
    BY <1>0, <1>4, <1>5
  <2> QED  BY <2>1, WritesAt
<1>14. tx[c].pc = "cascade" => Writes(c) \in SUBSET (Locks \ {OrderLock})
  <2>1. {TaskLock(NextLeft(c))} \cup tx[c].due \in SUBSET (Locks \ {OrderLock})
    BY <1>0, <1>4, <1>5
  <2> QED  BY <2>1, WritesAt
<1>15. tx[c].pc \in {"idle", "read", "root", "parent"} => Writes(c) = {}
  BY WritesAt
<1>16. tx[c].pc \in {"idle", "read", "acking", "marking", "noting", "engine", "delivering",
                     "chain", "root", "closing", "cascade", "commit", "parent",
                     "parent_task", "parent_rows"}
  BY <1>0 DEF Call
<1> QED
  BY <1>6, <1>7, <1>8, <1>9, <1>10, <1>11, <1>12, <1>13, <1>14, <1>15, <1>16

-----------------------------------------------------------------------------
(* The calls in flight. *)

Pcs == {"idle", "read", "acking", "marking", "noting", "engine", "delivering", "chain",
        "root", "closing", "cascade", "commit", "parent", "parent_task", "parent_rows"}

\* The record of a call whose statement is through.
LEMMA ThroughType ==
    ASSUME TypeOK, NEW c \in Calls, NEW at \in Pcs
    PROVE  LET r == Through(c, at) IN
           /\ r \in Call /\ r.pc = at /\ r.held = tx[c].held \cup Needs(c)
           /\ r.user = tx[c].user /\ r.task = tx[c].task /\ r.row = tx[c].row
           /\ r.role = tx[c].role /\ r.step = tx[c].step /\ r.due = tx[c].due
           /\ r.marks = tx[c].marks /\ r.won = tx[c].won /\ r.left = tx[c].left
           /\ r.closed = tx[c].closed
<1>1. tx[c] \in Call
  BY DEF TypeOK
<1>2. Needs(c) \in SUBSET Locks
  BY WritesType DEF Needs
<1>3. tx[c].held \cup Needs(c) \in SUBSET Locks
  BY <1>1, <1>2 DEF Call
<1> QED  BY <1>1, <1>3 DEF Through, Call, Pcs

\* The steps of a call that write nothing but its own record.
Quietly(c) ==
    \/ Acknowledge(c) \/ UpdateAck(c) \/ UpdateOwn(c) \/ EngineUpdate(c) \/ EngineDelivery(c)
    \/ EvaluateRoot(c) \/ CloseOrder(c) \/ CascadeTask(c) \/ CloseParent(c) \/ ParentTask(c)
    \/ ParentRows(c) \/ Acquire(c) \/ DeadlockVictim(c)

\* A record with nothing in it.
LEMMA IdleType ==
    /\ Idle \in Call /\ Idle.pc = "idle" /\ Idle.won = FALSE /\ Idle.held = {} /\ Idle.row = 0
    /\ Idle.due = {} /\ Idle.marks = {} /\ Idle.left = {} /\ Idle.closed = {} /\ Idle.step = 0
    /\ Idle.task = "root"
BY DEF Idle, Call, Roles, NoRole, TaskIds, RowIds, Locks

\* The record changes as its statement says.
LEMMA RecordChange ==
    ASSUME TypeOK, NEW c \in Calls, NEW r \in Call, tx' = [tx EXCEPT ![c] = r]
    PROVE  /\ tx' \in [Calls -> Call] /\ tx'[c] = r
           /\ \A d \in Calls \ {c} : tx'[d] = tx[d]
BY DEF TypeOK

\* What the record of a call is after the step at.
RecordAt(c, at) ==
    /\ tx'[c].pc = at
    /\ tx'[c].user = tx[c].user /\ tx'[c].task = tx[c].task /\ tx'[c].row = tx[c].row
    /\ tx'[c].role = tx[c].role /\ tx'[c].step = tx[c].step
    /\ tx'[c].won = tx[c].won \/ tx[c].pc = "engine"
    /\ tx'[c].left = tx[c].left \/ tx[c].pc \in {"closing", "cascade"}
    /\ tx'[c].closed = tx[c].closed \/ tx[c].pc \in {"closing", "cascade", "parent_task"}
    /\ tx'[c].due = tx[c].due \/ tx[c].pc \in {"read", "acking", "cascade"}
    /\ tx'[c].marks = tx[c].marks
          \/ tx[c].pc \in {"acking", "marking", "delivering", "cascade", "parent_rows"}

\* The call has its statement's locks, which were free.
LocksTaken(c) ==
    /\ Ready(c)
    /\ tx'[c].held = tx[c].held \cup Needs(c)

\* What each of the quiet steps writes.
Moves(c) ==
    \/ /\ Acknowledge(c)
       /\ tx[c].pc = "read" /\ RecordAt(c, "acking") /\ tx'[c].held = tx[c].held
       /\ \/ tx'[c].due = {}
          \/ tx'[c].due = RowLocks(tx[c].task, AckRows(c) \cap Undone(c, tx[c].task))
    \/ /\ UpdateAck(c)
       /\ tx[c].pc = "acking" /\ RecordAt(c, IF MarksOwn(c) THEN "marking" ELSE "noting")
       /\ LocksTaken(c) /\ tx'[c].marks = tx[c].due /\ tx'[c].due = {}
    \/ /\ UpdateOwn(c)
       /\ tx[c].pc \in {"marking", "noting"} /\ RecordAt(c, IF tx[c].step = 0 THEN "root" ELSE "engine")
       /\ LocksTaken(c)
       /\ tx'[c].marks = IF tx[c].pc = "marking" THEN tx[c].marks \cup Writes(c) ELSE tx[c].marks
    \/ /\ EngineUpdate(c)
       /\ tx[c].pc = "engine" /\ tx'[c].pc \in {"delivering", AfterEngine(c)}
       /\ RecordAt(c, tx'[c].pc) /\ LocksTaken(c) /\ tx'[c].won = StillActive(tx[c].step)
    \/ /\ EngineDelivery(c)
       /\ tx[c].pc = "delivering" /\ RecordAt(c, AfterEngine(c)) /\ LocksTaken(c)
       /\ tx'[c].marks = tx[c].marks \cup Writes(c)
    \/ /\ EvaluateRoot(c)
       /\ tx[c].pc = "root" /\ tx'[c].held = tx[c].held
       /\ RecordAt(c, IF Exists("root") /\ RootCloses(AsgAfter(c).root, StepsAfter(c))
                      THEN "closing" ELSE "commit")
    \/ /\ CloseOrder(c)
       /\ tx[c].pc = "closing" /\ RecordAt(c, IF Cascaded = {} THEN "commit" ELSE "cascade")
       /\ LocksTaken(c) /\ tx'[c].closed = {"root"} /\ tx'[c].left = Cascaded
    \/ /\ CascadeTask(c)
       /\ tx[c].pc = "cascade"
       /\ RecordAt(c, IF tx[c].left \ {NextLeft(c)} = {} THEN "commit" ELSE "cascade")
       /\ LocksTaken(c) /\ tx'[c].closed = tx[c].closed \cup {NextLeft(c)}
       /\ tx'[c].left = tx[c].left \ {NextLeft(c)}
       /\ tx'[c].marks = tx[c].marks \cup tx[c].due
       /\ tx'[c].due = RowLocks(NextLeft(c), Undone(c, NextLeft(c)))
    \/ /\ CloseParent(c)
       /\ tx[c].pc = "parent" /\ RecordAt(c, "parent_task") /\ tx'[c].held = tx[c].held
       /\ Exists("root")
    \/ /\ ParentTask(c)
       /\ tx[c].pc = "parent_task" /\ RecordAt(c, "parent_rows") /\ LocksTaken(c)
       /\ tx'[c].closed = {"root"}
    \/ /\ ParentRows(c)
       /\ tx[c].pc = "parent_rows" /\ RecordAt(c, "commit") /\ LocksTaken(c)
       /\ tx'[c].marks = Writes(c)
    \/ /\ Acquire(c)
       /\ \E l \in Needs(c) : LockFree(l) /\ tx'[c] = [tx[c] EXCEPT !.held = @ \cup {l}]

\* A quiet step writes the record of its call, or ends the call.
LEMMA QuietMoves ==
    ASSUME TypeOK, NEW c \in Calls, Quietly(c)
    PROVE  /\ UNCHANGED <<order, step, task, asg, creating, ops, crashes>>
           /\ tx' \in [Calls -> Call]
           /\ \A d \in Calls \ {c} : tx'[d] = tx[d]
           /\ tx[c].pc # "idle"
           /\ tx'[c] = Idle \/ Moves(c)
<1>0. /\ tx \in [Calls -> Call] /\ tx[c] \in Call /\ tx[c].task \in TaskIds
      /\ tx[c].held \in SUBSET Locks /\ tx[c].marks \in SUBSET RowIds /\ tx[c].due \in SUBSET RowIds
      /\ tx[c].left \in SUBSET {"foreman", "delivery"} /\ tx[c].closed \in SUBSET TaskIds
      /\ NextLeft(c) \in TaskIds /\ Writes(c) \in SUBSET Locks
  <2>1. tx \in [Calls -> Call] /\ tx[c] \in Call  BY DEF TypeOK
  <2> QED  BY <2>1, WritesType DEF Call, NextLeft, TaskIds
<1>1. CASE tx' = [tx EXCEPT ![c] = Idle] /\ UNCHANGED <<order, step, task, asg, creating, ops, crashes>>
           /\ tx[c].pc # "idle"
  BY <1>1, RecordChange, IdleType
<1>2. CASE Acknowledge(c)
  <2> DEFINE rows == IF NotDone(step, Acknowledges(tx[c].step)) = {}
                     THEN AckRows(c) \cap Undone(c, tx[c].task) ELSE {}
             r == [tx[c] EXCEPT !.pc = "acking", !.due = RowLocks(tx[c].task, rows)]
  <2>1. RowLocks(tx[c].task, rows) \in SUBSET RowIds
    <3>1. rows \in SUBSET Rows(tx[c].task)  BY DEF Undone
    <3> HIDE DEF rows
    <3> QED  BY <1>0, <3>1, RowLocksType
  <2>2. RowLocks(tx[c].task, rows) = {}
           \/ RowLocks(tx[c].task, rows) = RowLocks(tx[c].task, AckRows(c) \cap Undone(c, tx[c].task))
    BY DEF RowLocks
  <2>3. Finish(c) \/ tx' = [tx EXCEPT ![c] = r]
    BY <1>0, <1>2 DEF Acknowledge
  <2>4. UNCHANGED <<order, step, task, asg, creating, ops, crashes>> /\ tx[c].pc = "read"
    BY <1>2 DEF Acknowledge
  <2> HIDE DEF rows
  <2>5. /\ r \in Call /\ r.pc = "acking" /\ r.due = RowLocks(tx[c].task, rows)
        /\ r.held = tx[c].held /\ r.user = tx[c].user /\ r.task = tx[c].task /\ r.row = tx[c].row
        /\ r.role = tx[c].role /\ r.step = tx[c].step
        /\ r.marks = tx[c].marks /\ r.won = tx[c].won /\ r.left = tx[c].left
        /\ r.closed = tx[c].closed
    BY <1>0, <2>1 DEF Call
  <2> HIDE DEF r
  <2>6. CASE Finish(c)  BY <1>1, <2>4, <2>6 DEF Finish
  <2>7. CASE tx' = [tx EXCEPT ![c] = r]
    <3>1. tx' \in [Calls -> Call] /\ tx'[c] = r /\ \A d \in Calls \ {c} : tx'[d] = tx[d]
      BY <2>5, <2>7, RecordChange
    <3>2. Moves(c)
      BY <1>2, <2>2, <2>4, <2>5, <3>1 DEF Moves, RecordAt
    <3> QED  BY <2>4, <3>1, <3>2
  <2> QED  BY <2>3, <2>6, <2>7
<1>3. \A at \in Pcs : LET r == Through(c, at) IN
           /\ r \in Call /\ r.pc = at /\ r.held = tx[c].held \cup Needs(c)
           /\ r.user = tx[c].user /\ r.task = tx[c].task /\ r.row = tx[c].row
           /\ r.role = tx[c].role /\ r.step = tx[c].step /\ r.due = tx[c].due
           /\ r.marks = tx[c].marks /\ r.won = tx[c].won /\ r.left = tx[c].left
           /\ r.closed = tx[c].closed
  BY ThroughType
<1>4. CASE UpdateAck(c)
  <2> DEFINE at == IF MarksOwn(c) THEN "marking" ELSE "noting"
             p == Through(c, at)
             r == [p EXCEPT !.marks = tx[c].due, !.due = {}]
  <2>1. /\ p \in Call /\ p.pc = at /\ p.held = tx[c].held \cup Needs(c)
        /\ p.user = tx[c].user /\ p.task = tx[c].task /\ p.row = tx[c].row
        /\ p.role = tx[c].role /\ p.step = tx[c].step /\ p.due = tx[c].due
        /\ p.marks = tx[c].marks /\ p.won = tx[c].won /\ p.left = tx[c].left
        /\ p.closed = tx[c].closed
    BY <1>3 DEF Pcs
  <2>2. tx' = [tx EXCEPT ![c] = r] /\ tx[c].pc = "acking" /\ Ready(c)
        /\ UNCHANGED <<order, step, task, asg, creating, ops, crashes>>
    BY <1>4 DEF UpdateAck
  <2> HIDE DEF p, at
  <2>3. /\ r \in Call /\ r.pc = at /\ r.held = tx[c].held \cup Needs(c)
        /\ r.user = tx[c].user /\ r.task = tx[c].task /\ r.row = tx[c].row
        /\ r.role = tx[c].role /\ r.step = tx[c].step /\ r.due = {}
        /\ r.marks = tx[c].due /\ r.won = tx[c].won /\ r.left = tx[c].left
        /\ r.closed = tx[c].closed
    BY <1>0, <2>1 DEF Call
  <2> HIDE DEF r
  <2>4. tx' \in [Calls -> Call] /\ tx'[c] = r /\ \A d \in Calls \ {c} : tx'[d] = tx[d]
    BY <2>2, <2>3, RecordChange
  <2>5. Moves(c)
    BY <1>4, <2>2, <2>3, <2>4 DEF Moves, RecordAt, LocksTaken, at
  <2> QED  BY <2>2, <2>4, <2>5
<1>5. CASE UpdateOwn(c)
  <2> DEFINE at == IF tx[c].step = 0 THEN "root" ELSE "engine"
             p == Through(c, at)
             m == IF tx[c].pc = "marking" THEN tx[c].marks \cup Writes(c) ELSE tx[c].marks
             r == [p EXCEPT !.marks = m]
  <2>1. /\ p \in Call /\ p.pc = at /\ p.held = tx[c].held \cup Needs(c)
        /\ p.user = tx[c].user /\ p.task = tx[c].task /\ p.row = tx[c].row
        /\ p.role = tx[c].role /\ p.step = tx[c].step /\ p.due = tx[c].due
        /\ p.marks = tx[c].marks /\ p.won = tx[c].won /\ p.left = tx[c].left
        /\ p.closed = tx[c].closed
    BY <1>3 DEF Pcs
  <2>2. tx[c].pc \in {"marking", "noting"} /\ Ready(c)
        /\ UNCHANGED <<order, step, task, asg, creating, ops, crashes>>
    BY <1>5 DEF UpdateOwn
  <2>3. tx' = [tx EXCEPT ![c] = r]
    BY <1>5, <2>1 DEF UpdateOwn
  <2>4. m \in SUBSET RowIds
    BY <1>0, <2>2, WritesType
  <2> HIDE DEF p, at, m
  <2>5. /\ r \in Call /\ r.pc = at /\ r.held = tx[c].held \cup Needs(c)
        /\ r.user = tx[c].user /\ r.task = tx[c].task /\ r.row = tx[c].row
        /\ r.role = tx[c].role /\ r.step = tx[c].step /\ r.due = tx[c].due
        /\ r.marks = m /\ r.won = tx[c].won /\ r.left = tx[c].left
        /\ r.closed = tx[c].closed
    BY <1>0, <2>1, <2>4 DEF Call
  <2> HIDE DEF r
  <2>6. tx' \in [Calls -> Call] /\ tx'[c] = r /\ \A d \in Calls \ {c} : tx'[d] = tx[d]
    BY <2>3, <2>5, RecordChange
  <2>7. Moves(c)
    BY <1>5, <2>2, <2>5, <2>6 DEF Moves, RecordAt, LocksTaken, at, m
  <2> QED  BY <2>2, <2>6, <2>7
<1>6. CASE EngineUpdate(c)
  <2> DEFINE s == tx[c].step
             last == StillActive(s) /\ Exists("root") /\ EndsDelivery(EngineComplete(step, s), s)
             at == IF last THEN "delivering" ELSE AfterEngine(c)
             p == Through(c, at)
             w == StillActive(s)
             r == [p EXCEPT !.won = w]
  <2>0. at \in Pcs /\ at \in {"delivering", AfterEngine(c)} /\ w \in BOOLEAN
    BY DEF Pcs, AfterEngine, StillActive
  <2>1. /\ p \in Call /\ p.pc = at /\ p.held = tx[c].held \cup Needs(c)
        /\ p.user = tx[c].user /\ p.task = tx[c].task /\ p.row = tx[c].row
        /\ p.role = tx[c].role /\ p.step = tx[c].step /\ p.due = tx[c].due
        /\ p.marks = tx[c].marks /\ p.won = tx[c].won /\ p.left = tx[c].left
        /\ p.closed = tx[c].closed
    <3> HIDE DEF at
    <3> QED  BY <1>3, <2>0
  <2>2. tx[c].pc = "engine" /\ Ready(c)
        /\ UNCHANGED <<order, step, task, asg, creating, ops, crashes>>
    BY <1>6 DEF EngineUpdate
  <2>3. Finish(c) \/ tx' = [tx EXCEPT ![c] = r]
    BY <1>6 DEF EngineUpdate
  <2>4. CASE Finish(c)  BY <1>1, <2>2, <2>4 DEF Finish
  <2>5. CASE tx' = [tx EXCEPT ![c] = r]
    <3> HIDE DEF p, at, w
    <3>1. /\ r \in Call /\ r.pc = at /\ r.held = tx[c].held \cup Needs(c)
          /\ r.user = tx[c].user /\ r.task = tx[c].task /\ r.row = tx[c].row
          /\ r.role = tx[c].role /\ r.step = tx[c].step /\ r.due = tx[c].due
          /\ r.marks = tx[c].marks /\ r.won = w /\ r.left = tx[c].left
          /\ r.closed = tx[c].closed
      BY <1>0, <2>0, <2>1 DEF Call
    <3> HIDE DEF r
    <3>2. tx' \in [Calls -> Call] /\ tx'[c] = r /\ \A d \in Calls \ {c} : tx'[d] = tx[d]
      BY <2>5, <3>1, RecordChange
    <3>3. Moves(c)
      BY <1>6, <2>0, <2>2, <3>1, <3>2 DEF Moves, RecordAt, LocksTaken, w
    <3> QED  BY <2>2, <3>2, <3>3
  <2> QED  BY <2>3, <2>4, <2>5
<1>7. CASE EngineDelivery(c)
  <2> DEFINE at == AfterEngine(c)
             p == Through(c, at)
             r == [p EXCEPT !.marks = tx[c].marks \cup Writes(c)]
  <2>0. at \in Pcs
    BY DEF Pcs, AfterEngine
  <2>1. /\ p \in Call /\ p.pc = at /\ p.held = tx[c].held \cup Needs(c)
        /\ p.user = tx[c].user /\ p.task = tx[c].task /\ p.row = tx[c].row
        /\ p.role = tx[c].role /\ p.step = tx[c].step /\ p.due = tx[c].due
        /\ p.marks = tx[c].marks /\ p.won = tx[c].won /\ p.left = tx[c].left
        /\ p.closed = tx[c].closed
    <3> HIDE DEF at
    <3> QED  BY <1>3, <2>0
  <2>2. tx[c].pc = "delivering" /\ Ready(c)
        /\ UNCHANGED <<order, step, task, asg, creating, ops, crashes>>
    BY <1>7 DEF EngineDelivery
  <2>3. tx' = [tx EXCEPT ![c] = r]
    BY <1>7, <2>1 DEF EngineDelivery
  <2>4. tx[c].marks \cup Writes(c) \in SUBSET RowIds
    BY <1>0, <2>2, WritesType
  <2> HIDE DEF p, at
  <2>5. /\ r \in Call /\ r.pc = at /\ r.held = tx[c].held \cup Needs(c)
        /\ r.user = tx[c].user /\ r.task = tx[c].task /\ r.row = tx[c].row
        /\ r.role = tx[c].role /\ r.step = tx[c].step /\ r.due = tx[c].due
        /\ r.marks = tx[c].marks \cup Writes(c) /\ r.won = tx[c].won /\ r.left = tx[c].left
        /\ r.closed = tx[c].closed
    BY <1>0, <2>1, <2>4 DEF Call
  <2> HIDE DEF r
  <2>6. tx' \in [Calls -> Call] /\ tx'[c] = r /\ \A d \in Calls \ {c} : tx'[d] = tx[d]
    BY <2>3, <2>5, RecordChange
  <2>7. Moves(c)
    BY <1>7, <2>2, <2>5, <2>6 DEF Moves, RecordAt, LocksTaken, at
  <2> QED  BY <2>2, <2>6, <2>7
<1>8. CASE EvaluateRoot(c)
  <2> DEFINE at == IF Exists("root") /\ RootCloses(AsgAfter(c).root, StepsAfter(c))
                   THEN "closing" ELSE "commit"
             r == [tx[c] EXCEPT !.pc = at]
  <2>1. tx[c].pc = "root" /\ tx' = [tx EXCEPT ![c] = r]
        /\ UNCHANGED <<order, step, task, asg, creating, ops, crashes>>
    BY <1>0, <1>8 DEF EvaluateRoot
  <2>2. at \in {"closing", "commit"}  OBVIOUS
  <2> HIDE DEF at
  <2>3. /\ r \in Call /\ r.pc = at /\ r.held = tx[c].held
        /\ r.user = tx[c].user /\ r.task = tx[c].task /\ r.row = tx[c].row
        /\ r.role = tx[c].role /\ r.step = tx[c].step /\ r.due = tx[c].due
        /\ r.marks = tx[c].marks /\ r.won = tx[c].won /\ r.left = tx[c].left
        /\ r.closed = tx[c].closed
    BY <1>0, <2>2 DEF Call
  <2> HIDE DEF r
  <2>4. tx' \in [Calls -> Call] /\ tx'[c] = r /\ \A d \in Calls \ {c} : tx'[d] = tx[d]
    BY <2>1, <2>3, RecordChange
  <2>5. Moves(c)
    BY <1>8, <2>1, <2>3, <2>4 DEF Moves, RecordAt, at
  <2> QED  BY <2>1, <2>4, <2>5
<1>9. CASE CloseOrder(c)
  <2> DEFINE at == IF Cascaded = {} THEN "commit" ELSE "cascade"
             p == Through(c, at)
             r == [p EXCEPT !.closed = {"root"}, !.left = Cascaded]
  <2>1. /\ p \in Call /\ p.pc = at /\ p.held = tx[c].held \cup Needs(c)
        /\ p.user = tx[c].user /\ p.task = tx[c].task /\ p.row = tx[c].row
        /\ p.role = tx[c].role /\ p.step = tx[c].step /\ p.due = tx[c].due
        /\ p.marks = tx[c].marks /\ p.won = tx[c].won /\ p.left = tx[c].left
        /\ p.closed = tx[c].closed
    BY <1>3 DEF Pcs
  <2>2. tx[c].pc = "closing" /\ Ready(c) /\ tx' = [tx EXCEPT ![c] = r]
        /\ UNCHANGED <<order, step, task, asg, creating, ops, crashes>>
    BY <1>9 DEF CloseOrder
  <2>4. {"root"} \in SUBSET TaskIds /\ Cascaded \in SUBSET {"foreman", "delivery"}
    BY DEF TaskIds, Cascaded
  <2> HIDE DEF p, at
  <2>5. /\ r \in Call /\ r.pc = at /\ r.held = tx[c].held \cup Needs(c)
        /\ r.user = tx[c].user /\ r.task = tx[c].task /\ r.row = tx[c].row
        /\ r.role = tx[c].role /\ r.step = tx[c].step /\ r.due = tx[c].due
        /\ r.marks = tx[c].marks /\ r.won = tx[c].won /\ r.left = Cascaded
        /\ r.closed = {"root"}
    BY <1>0, <2>1, <2>4 DEF Call
  <2> HIDE DEF r
  <2>6. tx' \in [Calls -> Call] /\ tx'[c] = r /\ \A d \in Calls \ {c} : tx'[d] = tx[d]
    BY <2>2, <2>5, RecordChange
  <2>7. Moves(c)
    BY <1>9, <2>2, <2>5, <2>6 DEF Moves, RecordAt, LocksTaken, at
  <2> QED  BY <2>2, <2>6, <2>7
<1>10. CASE CascadeTask(c)
  <2> DEFINE t == NextLeft(c)
             at == IF tx[c].left \ {t} = {} THEN "commit" ELSE "cascade"
             p == Through(c, at)
             D == RowLocks(t, Undone(c, t))
             r == [p EXCEPT !.closed = @ \cup {t}, !.left = tx[c].left \ {t},
                            !.marks = @ \cup tx[c].due, !.due = D]
  <2>1. /\ p \in Call /\ p.pc = at /\ p.held = tx[c].held \cup Needs(c)
        /\ p.user = tx[c].user /\ p.task = tx[c].task /\ p.row = tx[c].row
        /\ p.role = tx[c].role /\ p.step = tx[c].step /\ p.due = tx[c].due
        /\ p.marks = tx[c].marks /\ p.won = tx[c].won /\ p.left = tx[c].left
        /\ p.closed = tx[c].closed
    BY <1>3 DEF Pcs
  <2>2. tx[c].pc = "cascade" /\ Ready(c) /\ tx' = [tx EXCEPT ![c] = r]
        /\ UNCHANGED <<order, step, task, asg, creating, ops, crashes>>
    BY <1>10 DEF CascadeTask
  <2>3. D \in SUBSET RowIds
    <3>1. Undone(c, t) \in SUBSET Rows(t)  BY DEF Undone
    <3> QED  BY <1>0, <3>1, RowLocksType
  <2>4. /\ tx[c].marks \cup tx[c].due \in SUBSET RowIds /\ tx[c].closed \cup {t} \in SUBSET TaskIds
        /\ tx[c].left \ {t} \in SUBSET {"foreman", "delivery"}
    BY <1>0
  <2> HIDE DEF p, at, D, t
  <2>5. /\ r \in Call /\ r.pc = at /\ r.held = tx[c].held \cup Needs(c)
        /\ r.user = tx[c].user /\ r.task = tx[c].task /\ r.row = tx[c].row
        /\ r.role = tx[c].role /\ r.step = tx[c].step /\ r.due = D
        /\ r.marks = tx[c].marks \cup tx[c].due /\ r.won = tx[c].won /\ r.left = tx[c].left \ {t}
        /\ r.closed = tx[c].closed \cup {t}
    BY <2>1, <2>3, <2>4 DEF Call
  <2> HIDE DEF r
  <2>6. tx' \in [Calls -> Call] /\ tx'[c] = r /\ \A d \in Calls \ {c} : tx'[d] = tx[d]
    BY <2>2, <2>5, RecordChange
  <2>7. Moves(c)
    BY <1>10, <2>2, <2>5, <2>6 DEF Moves, RecordAt, LocksTaken, at, D, t
  <2> QED  BY <2>2, <2>6, <2>7
<1>11. CASE CloseParent(c)
  <2> DEFINE r == [tx[c] EXCEPT !.pc = "parent_task"]
  <2>1. tx[c].pc = "parent" /\ (Finish(c) \/ (Exists("root") /\ tx' = [tx EXCEPT ![c] = r]))
        /\ UNCHANGED <<order, step, task, asg, creating, ops, crashes>>
    <3>1. "root" \in TaskIds  BY DEF TaskIds
    <3> QED  BY <1>0, <1>11, <3>1 DEF CloseParent, Exists
  <2>2. CASE Finish(c)  BY <1>1, <2>1, <2>2 DEF Finish
  <2>3. CASE Exists("root") /\ tx' = [tx EXCEPT ![c] = r]
    <3>1. /\ r \in Call /\ r.pc = "parent_task" /\ r.held = tx[c].held
          /\ r.user = tx[c].user /\ r.task = tx[c].task /\ r.row = tx[c].row
          /\ r.role = tx[c].role /\ r.step = tx[c].step /\ r.due = tx[c].due
          /\ r.marks = tx[c].marks /\ r.won = tx[c].won /\ r.left = tx[c].left
          /\ r.closed = tx[c].closed
      BY <1>0 DEF Call
    <3> HIDE DEF r
    <3>2. tx' \in [Calls -> Call] /\ tx'[c] = r /\ \A d \in Calls \ {c} : tx'[d] = tx[d]
      BY <2>3, <3>1, RecordChange
    <3>3. Moves(c)
      BY <1>11, <2>1, <2>3, <3>1, <3>2 DEF Moves, RecordAt
    <3> QED  BY <2>1, <3>2, <3>3
  <2> QED  BY <2>1, <2>2, <2>3
<1>12. CASE ParentTask(c)
  <2> DEFINE p == Through(c, "parent_rows")
             r == [p EXCEPT !.closed = {"root"}]
  <2>1. /\ p \in Call /\ p.pc = "parent_rows" /\ p.held = tx[c].held \cup Needs(c)
        /\ p.user = tx[c].user /\ p.task = tx[c].task /\ p.row = tx[c].row
        /\ p.role = tx[c].role /\ p.step = tx[c].step /\ p.due = tx[c].due
        /\ p.marks = tx[c].marks /\ p.won = tx[c].won /\ p.left = tx[c].left
        /\ p.closed = tx[c].closed
    BY <1>3 DEF Pcs
  <2>2. tx[c].pc = "parent_task" /\ Ready(c) /\ tx' = [tx EXCEPT ![c] = r]
        /\ UNCHANGED <<order, step, task, asg, creating, ops, crashes>>
    BY <1>12 DEF ParentTask
  <2>4. {"root"} \in SUBSET TaskIds
    BY DEF TaskIds
  <2> HIDE DEF p
  <2>5. /\ r \in Call /\ r.pc = "parent_rows" /\ r.held = tx[c].held \cup Needs(c)
        /\ r.user = tx[c].user /\ r.task = tx[c].task /\ r.row = tx[c].row
        /\ r.role = tx[c].role /\ r.step = tx[c].step /\ r.due = tx[c].due
        /\ r.marks = tx[c].marks /\ r.won = tx[c].won /\ r.left = tx[c].left
        /\ r.closed = {"root"}
    BY <2>1, <2>4 DEF Call
  <2> HIDE DEF r
  <2>6. tx' \in [Calls -> Call] /\ tx'[c] = r /\ \A d \in Calls \ {c} : tx'[d] = tx[d]
    BY <2>2, <2>5, RecordChange
  <2>7. Moves(c)
    BY <1>12, <2>2, <2>5, <2>6 DEF Moves, RecordAt, LocksTaken
  <2> QED  BY <2>2, <2>6, <2>7
<1>13. CASE ParentRows(c)
  <2> DEFINE p == Through(c, "commit")
             r == [p EXCEPT !.marks = Writes(c)]
  <2>1. /\ p \in Call /\ p.pc = "commit" /\ p.held = tx[c].held \cup Needs(c)
        /\ p.user = tx[c].user /\ p.task = tx[c].task /\ p.row = tx[c].row
        /\ p.role = tx[c].role /\ p.step = tx[c].step /\ p.due = tx[c].due
        /\ p.marks = tx[c].marks /\ p.won = tx[c].won /\ p.left = tx[c].left
        /\ p.closed = tx[c].closed
    BY <1>3 DEF Pcs
  <2>2. tx[c].pc = "parent_rows" /\ Ready(c) /\ tx' = [tx EXCEPT ![c] = r]
        /\ UNCHANGED <<order, step, task, asg, creating, ops, crashes>>
    BY <1>13 DEF ParentRows
  <2>4. Writes(c) \in SUBSET RowIds
    BY <2>2, WritesType
  <2> HIDE DEF p
  <2>5. /\ r \in Call /\ r.pc = "commit" /\ r.held = tx[c].held \cup Needs(c)
        /\ r.user = tx[c].user /\ r.task = tx[c].task /\ r.row = tx[c].row
        /\ r.role = tx[c].role /\ r.step = tx[c].step /\ r.due = tx[c].due
        /\ r.marks = Writes(c) /\ r.won = tx[c].won /\ r.left = tx[c].left
        /\ r.closed = tx[c].closed
    BY <2>1, <2>4 DEF Call
  <2> HIDE DEF r
  <2>6. tx' \in [Calls -> Call] /\ tx'[c] = r /\ \A d \in Calls \ {c} : tx'[d] = tx[d]
    BY <2>2, <2>5, RecordChange
  <2>7. Moves(c)
    BY <1>13, <2>2, <2>5, <2>6 DEF Moves, RecordAt, LocksTaken
  <2> QED  BY <2>2, <2>6, <2>7
<1>14. CASE Acquire(c)
  <2>1. PICK l \in Needs(c) : LockFree(l) /\ tx' = [tx EXCEPT ![c].held = @ \cup {l}]
    BY <1>14 DEF Acquire
  <2> DEFINE r == [tx[c] EXCEPT !.held = @ \cup {l}]
  <2>2. tx' = [tx EXCEPT ![c] = r]
    BY <1>0, <2>1
  <2>3. l \in Locks /\ l \in Writes(c)
    BY <1>0, <2>1 DEF Needs
  <2>4. r \in Call
    BY <1>0, <2>3 DEF Call
  <2>5. tx' \in [Calls -> Call] /\ tx'[c] = r /\ \A d \in Calls \ {c} : tx'[d] = tx[d]
    BY <2>2, <2>4, RecordChange
  <2>6. Moves(c)
    BY <1>14, <2>1, <2>5 DEF Moves
  <2>7. tx[c].pc # "idle"
    BY <2>3, WritesAt
  <2> QED  BY <1>14, <2>5, <2>6, <2>7 DEF Acquire
<1>15. CASE DeadlockVictim(c)
  <2>1. tx[c].pc # "idle"
    BY <1>15, WritesAt DEF DeadlockVictim, WaitsFor, Needs
  <2> QED  BY <1>1, <1>15, <2>1 DEF DeadlockVictim, Finish
<1> QED
  BY <1>2, <1>4, <1>5, <1>6, <1>7, <1>8, <1>9, <1>10, <1>11, <1>12, <1>13, <1>14, <1>15 DEF Quietly

\* A call that commits in the middle goes on with nothing; at the end it ends.
LEMMA CommitMoves ==
    ASSUME TypeOK, NEW c \in Calls, ChainCommit(c) \/ CompleteCommit(c)
    PROVE  /\ tx' \in [Calls -> Call] /\ \A d \in Calls \ {c} : tx'[d] = tx[d]
           /\ step' = StepsAfter(c) /\ tx'[c].won = FALSE /\ tx'[c].held = {}
           /\ tx[c].pc # "idle" /\ UNCHANGED <<creating, ops, crashes>>
           /\ \/ tx'[c] = Idle
              \/ /\ ChainCommit(c) /\ tx[c].pc = "chain" /\ tx'[c].pc = "root" /\ tx'[c].marks = {}
                 /\ tx'[c].user = tx[c].user /\ tx'[c].task = tx[c].task /\ tx'[c].row = tx[c].row
                 /\ tx'[c].role = tx[c].role /\ tx'[c].step = tx[c].step
                 /\ tx'[c].due = tx[c].due /\ tx'[c].left = tx[c].left /\ tx'[c].closed = tx[c].closed
<1>0. tx \in [Calls -> Call] /\ tx[c] \in Call
  BY DEF TypeOK
<1>1. CASE Finish(c)
  BY <1>0, <1>1, RecordChange, IdleType DEF Finish, ChainCommit, CompleteCommit
<1>2. CASE ChainCommit(c) /\ ~Finish(c)
  <2> DEFINE r == [tx[c] EXCEPT !.pc = "root", !.held = {}, !.marks = {}, !.won = FALSE]
  <2>1. tx' = [tx EXCEPT ![c] = r]
    BY <1>0, <1>2 DEF ChainCommit
  <2>2. /\ r \in Call /\ r.pc = "root" /\ r.held = {} /\ r.marks = {} /\ r.won = FALSE
        /\ r.user = tx[c].user /\ r.task = tx[c].task /\ r.row = tx[c].row
        /\ r.role = tx[c].role /\ r.step = tx[c].step /\ r.due = tx[c].due
        /\ r.left = tx[c].left /\ r.closed = tx[c].closed
    BY <1>0 DEF Call
  <2> HIDE DEF r
  <2>3. tx' \in [Calls -> Call] /\ tx'[c] = r /\ \A d \in Calls \ {c} : tx'[d] = tx[d]
    BY <2>1, <2>2, RecordChange
  <2> QED  BY <1>2, <2>2, <2>3 DEF ChainCommit
<1> QED  BY <1>1, <1>2 DEF CompleteCommit

\* The record of a call that begins.
LEMMA BeginMoves ==
    ASSUME TypeOK, NEW c \in Calls
    PROVE  /\ \A u \in Users, t \in TaskIds : CompleteBegin(c, u, t) =>
                 /\ tx[c].pc = "idle" /\ tx' \in [Calls -> Call]
                 /\ \A d \in Calls \ {c} : tx'[d] = tx[d]
                 /\ tx'[c].pc = "read" /\ tx'[c].user = u /\ tx'[c].task = t
                 /\ tx'[c].held = {} /\ tx'[c].marks = {} /\ tx'[c].due = {}
                 /\ tx'[c].left = {} /\ tx'[c].closed = {} /\ tx'[c].won = FALSE
                 /\ tx'[c].row \in PickRow(u, t) /\ tx'[c].row \in Rows(t) /\ tx'[c].row # 0
                 /\ tx'[c].role = asg[t][tx'[c].row].role
                 /\ tx'[c].step \in PickStep(u, tx'[c].role)
                 /\ UNCHANGED <<order, step, task, asg, creating, crashes>>
           /\ \A s \in Steps : StepBegin(c, s) =>
                 /\ tx[c].pc = "idle" /\ tx' \in [Calls -> Call]
                 /\ \A d \in Calls \ {c} : tx'[d] = tx[d]
                 /\ tx'[c].pc = "engine" /\ tx'[c].step = s /\ tx'[c].row = 0
                 /\ tx'[c].held = {} /\ tx'[c].marks = {} /\ tx'[c].due = {}
                 /\ tx'[c].left = {} /\ tx'[c].closed = {} /\ tx'[c].won = FALSE
                 /\ UNCHANGED <<order, step, task, asg, creating, ops, crashes>>
           /\ \A u \in Users, t \in TaskIds : ForceComplete(c, u, t) =>
                 /\ tx[c].pc = "idle" /\ tx' \in [Calls -> Call]
                 /\ \A d \in Calls \ {c} : tx'[d] = tx[d]
                 /\ \/ tx'[c] = tx[c]
                    \/ /\ t = "delivery" /\ tx'[c].pc = "parent" /\ tx'[c].row = 0
                       /\ tx'[c].held = {} /\ tx'[c].marks = {} /\ tx'[c].due = {}
                       /\ tx'[c].left = {} /\ tx'[c].closed = {} /\ tx'[c].won = FALSE
<1>0. tx \in [Calls -> Call] /\ tx[c] \in Call
  BY DEF TypeOK
<1>1. ASSUME NEW u \in Users, NEW t \in TaskIds, CompleteBegin(c, u, t)
      PROVE  /\ tx[c].pc = "idle" /\ tx' \in [Calls -> Call]
             /\ \A d \in Calls \ {c} : tx'[d] = tx[d]
             /\ tx'[c].pc = "read" /\ tx'[c].user = u /\ tx'[c].task = t
             /\ tx'[c].held = {} /\ tx'[c].marks = {} /\ tx'[c].due = {}
             /\ tx'[c].left = {} /\ tx'[c].closed = {} /\ tx'[c].won = FALSE
             /\ tx'[c].row \in PickRow(u, t) /\ tx'[c].row \in Rows(t) /\ tx'[c].row # 0
             /\ tx'[c].role = asg[t][tx'[c].row].role
             /\ tx'[c].step \in PickStep(u, tx'[c].role)
             /\ UNCHANGED <<order, step, task, asg, creating, crashes>>
  <2>1. PICK i \in PickRow(u, t) : \E s \in PickStep(u, asg[t][i].role) :
          tx' = [tx EXCEPT ![c] = [Idle EXCEPT !.pc = "read", !.user = u, !.task = t,
                                               !.row = i, !.role = asg[t][i].role, !.step = s]]
    BY <1>1 DEF CompleteBegin
  <2>2. PICK s \in PickStep(u, asg[t][i].role) :
          tx' = [tx EXCEPT ![c] = [Idle EXCEPT !.pc = "read", !.user = u, !.task = t,
                                               !.row = i, !.role = asg[t][i].role, !.step = s]]
    BY <2>1
  <2> DEFINE r == [Idle EXCEPT !.pc = "read", !.user = u, !.task = t,
                               !.row = i, !.role = asg[t][i].role, !.step = s]
  <2>3. i \in Rows(t) /\ i \in Nat \ {0}
    BY RowNumbers DEF PickRow, RowOf
  <2>4. asg[t][i].role \in Roles \cup {NoRole} /\ s \in Steps \cup {0}
    <3>1. asg[t] \in Seq(Assignment)  BY DEF TypeOK
    <3>2. asg[t][i] \in Assignment  BY <2>3, <3>1 DEF Rows
    <3> QED  BY <3>2 DEF PickStep, StepsFor, Assignment
  <2>5. /\ r \in Call /\ r.pc = "read" /\ r.user = u /\ r.task = t
        /\ r.held = {} /\ r.marks = {} /\ r.due = {} /\ r.left = {} /\ r.closed = {}
        /\ r.won = FALSE /\ r.row = i /\ r.role = asg[t][i].role /\ r.step = s
    BY <2>3, <2>4, IdleType DEF Call
  <2>6. tx' = [tx EXCEPT ![c] = r]  BY <2>2
  <2> HIDE DEF r
  <2>7. tx' \in [Calls -> Call] /\ tx'[c] = r /\ \A d \in Calls \ {c} : tx'[d] = tx[d]
    BY <2>5, <2>6, RecordChange
  <2>8. tx[c].pc = "idle" /\ UNCHANGED <<order, step, task, asg, creating, crashes>>
    BY <1>1 DEF CompleteBegin
  <2> QED  BY <2>3, <2>5, <2>7, <2>8
<1>2. ASSUME NEW s \in Steps, StepBegin(c, s)
      PROVE  /\ tx[c].pc = "idle" /\ tx' \in [Calls -> Call]
             /\ \A d \in Calls \ {c} : tx'[d] = tx[d]
             /\ tx'[c].pc = "engine" /\ tx'[c].step = s /\ tx'[c].row = 0
             /\ tx'[c].held = {} /\ tx'[c].marks = {} /\ tx'[c].due = {}
             /\ tx'[c].left = {} /\ tx'[c].closed = {} /\ tx'[c].won = FALSE
             /\ UNCHANGED <<order, step, task, asg, creating, ops, crashes>>
  <2> DEFINE r == [Idle EXCEPT !.pc = "engine", !.step = s]
  <2>1. r \in Call /\ r.pc = "engine" /\ r.step = s /\ r.row = 0 /\ r.held = {} /\ r.marks = {}
        /\ r.due = {} /\ r.left = {} /\ r.closed = {} /\ r.won = FALSE
    BY IdleType DEF Call
  <2>2. tx[c].pc = "idle" /\ tx' = [tx EXCEPT ![c] = r]
        /\ UNCHANGED <<order, step, task, asg, creating, ops, crashes>>
    BY <1>2 DEF StepBegin
  <2> HIDE DEF r
  <2> QED  BY <2>1, <2>2, RecordChange
<1>3. ASSUME NEW u \in Users, NEW t \in TaskIds, ForceComplete(c, u, t)
      PROVE  /\ tx[c].pc = "idle" /\ tx' \in [Calls -> Call]
             /\ \A d \in Calls \ {c} : tx'[d] = tx[d]
             /\ \/ tx'[c] = tx[c]
                \/ /\ t = "delivery" /\ tx'[c].pc = "parent" /\ tx'[c].row = 0
                   /\ tx'[c].held = {} /\ tx'[c].marks = {} /\ tx'[c].due = {}
                   /\ tx'[c].left = {} /\ tx'[c].closed = {} /\ tx'[c].won = FALSE
  <2> DEFINE r == [Idle EXCEPT !.pc = "parent", !.user = u]
  <2>1. r \in Call /\ r.pc = "parent" /\ r.row = 0 /\ r.held = {} /\ r.marks = {}
        /\ r.due = {} /\ r.left = {} /\ r.closed = {} /\ r.won = FALSE
    BY IdleType DEF Call
  <2>2. tx[c].pc = "idle" /\ (tx' = tx \/ (t = "delivery" /\ tx' = [tx EXCEPT ![c] = r]))
    BY <1>3 DEF ForceComplete
  <2> HIDE DEF r
  <2>3. CASE tx' = tx
    <3>1. tx'[c] = tx[c] /\ tx' \in [Calls -> Call] /\ \A d \in Calls \ {c} : tx'[d] = tx[d]
      BY <1>0, <2>3
    <3> QED  BY <2>2, <3>1
  <2>4. CASE t = "delivery" /\ tx' = [tx EXCEPT ![c] = r]
    BY <2>1, <2>2, <2>4, RecordChange
  <2> QED  BY <2>2, <2>3, <2>4
<1> QED  BY <1>1, <1>2, <1>3

-----------------------------------------------------------------------------
(* Types. *)

\* No order, no task: the initial state has the types.
LEMMA TypeInit == Init => TypeOK
<1> SUFFICES ASSUME Init PROVE TypeOK
  OBVIOUS
<1>1. \A t \in TaskIds : asg[t] \in Seq(Assignment)
  BY DEF Init
<1>2. tx \in [Calls -> Call]
  BY IdleType DEF Init
<1>3. QED
  BY <1>1, <1>2 DEF Init, TypeOK, OrderStatus, StepStatus, TaskStatus, TaskIds, Phases

\* The steps of creating an order keep the types.
LEMMA CreationType ==
    ASSUME TypeOK, Creation
    PROVE  TypeOK'
<1>1. CASE CreateOrder
  BY <1>1 DEF CreateOrder, Goto, TypeOK, OrderStatus, StepStatus, Phases, TaskIds
<1>2. CASE CreateRoot
  BY <1>2, OrderTypeAssumption, SMTT(30)
     DEF CreateRoot, Goto, TypeOK, TaskStatus, TaskIds, Phases, FirstRole
<1>3. CASE AssignRequester
  <2>1. [user |-> Creator, role |-> "requester", status |-> "pending"] \in Assignment
    BY UsersAssumption DEF Assignment, Roles
  <2>2. "root" \in TaskIds /\ asg["root"] \in Seq(Assignment)
    BY DEF TypeOK, TaskIds
  <2>3. \A a \in Assignment : Append(asg["root"], a) \in Seq(Assignment)
    BY <2>2
  <2>4. asg' \in [TaskIds -> Seq(Assignment)]
    BY <1>3, <2>1, <2>2, <2>3 DEF AssignRequester, TypeOK
  <2>5. QED
    BY <1>3, <2>4 DEF AssignRequester, Goto, TypeOK, Phases, TaskIds
<1>4. CASE RootInProgress
  BY <1>4 DEF RootInProgress, Goto, TypeOK, TaskStatus, TaskIds, Phases
<1>5. CASE RootReopen
  BY <1>5 DEF RootReopen, Goto, TypeOK, TaskStatus, TaskIds, Phases, FirstRole
<1>6. CASE CreateRoleTask
  BY <1>6 DEF CreateRoleTask, Goto, TypeOK, TaskStatus, TaskIds, Phases
<1>7. CASE OpenRoleTask \/ RefreshRoleTask \/ OpenAgain
  <2>1. creating.role \in TaskIds
    BY DEF TypeOK
  <2>2. task' = task \/ task' = [task EXCEPT ![creating.role].status = "open"]
    BY <1>7 DEF OpenRoleTask, RefreshRoleTask, OpenAgain
  <2>3. task' \in [TaskIds -> [status : TaskStatus, claimedBy : Users \cup {Nobody}]]
    <3>1. task \in [TaskIds -> [status : TaskStatus, claimedBy : Users \cup {Nobody}]]
          /\ "open" \in TaskStatus
      BY DEF TypeOK, TaskStatus
    <3> QED  BY <2>1, <2>2, <3>1
  <2>4. creating' \in [at : Phases, role : TaskIds]
    BY <1>7, <2>1 DEF OpenRoleTask, RefreshRoleTask, OpenAgain, AfterRole, Goto, Phases, TaskIds
  <2>5. QED
    BY <1>7, <2>3, <2>4 DEF OpenRoleTask, RefreshRoleTask, OpenAgain, TypeOK
<1>8. CASE RecomputeWrite
  BY <1>8 DEF RecomputeWrite, Goto, TypeOK, TaskIds, Phases, OrderStatus
<1>9. QED
  BY <1>1, <1>2, <1>3, <1>4, <1>5, <1>6, <1>7, <1>8 DEF Creation

\* Claiming a task keeps the types.
LEMMA ClaimType ==
    ASSUME TypeOK, NEW u \in Users, NEW t \in TaskIds, ClaimTask(u, t) \/ OverrideClaim(u, t)
    PROVE  TypeOK'
<1>1. [status |-> "claimed", claimedBy |-> u]
        \in [status : TaskStatus, claimedBy : Users \cup {Nobody}]
  BY DEF TaskStatus
<1>2. task' \in [TaskIds -> [status : TaskStatus, claimedBy : Users \cup {Nobody}]]
  BY <1>1 DEF ClaimTask, OverrideClaim, TypeOK
<1>3. [user |-> u, role |-> RequiredRole(t), status |-> "in_progress"] \in Assignment
  BY DEF Assignment, RequiredRole, Roles, TaskIds
<1>4. asg[t] \in Seq(Assignment)
  BY DEF TypeOK
<1>5. \A a \in Assignment : Append(asg[t], a) \in Seq(Assignment)
  BY <1>4
<1>6. WithClaimer(u, t) \in [TaskIds -> Seq(Assignment)]
  BY <1>3, <1>5 DEF WithClaimer, TypeOK
<1>7. CASE ClaimTask(u, t)
  BY <1>2, <1>6, <1>7 DEF ClaimTask, TypeOK
<1>8. CASE OverrideClaim(u, t)
  BY <1>2, <1>8 DEF OverrideClaim, TypeOK
<1>9. QED
  BY <1>7, <1>8

\* Every step of a call keeps the types.
LEMMA CompletingType ==
    ASSUME TypeOK, NEW c \in Calls, Completing(c)
    PROVE  TypeOK'
<1>1. CASE Quietly(c)
  BY <1>1, QuietMoves DEF TypeOK
<1>2. CASE ChainCommit(c)
  <2>1. /\ tx' \in [Calls -> Call] /\ step' = StepsAfter(c) /\ asg' = AsgAfter(c)
        /\ UNCHANGED <<order, task, creating, ops, crashes>>
    BY <1>2, CommitMoves DEF ChainCommit
  <2> QED  BY <2>1, AfterType DEF TypeOK
<1>3. CASE CompleteCommit(c)
  <2>1. \A T : CloseTasks(T) \in [TaskIds -> [status : TaskStatus, claimedBy : Users \cup {Nobody}]]
    BY DEF CloseTasks, TypeOK, TaskStatus
  <2>2. asg' \in [TaskIds -> Seq(Assignment)]
    <3>1. \A t \in TaskIds : \A I : MarkDone(AsgAfter(c)[t], I) \in Seq(Assignment)
      BY MarkDoneType, AfterType
    <3> QED  BY <1>3, <3>1 DEF CompleteCommit
  <2>3. task' \in [TaskIds -> [status : TaskStatus, claimedBy : Users \cup {Nobody}]]
    BY <1>3, <2>1 DEF CompleteCommit
  <2>4. order' \in OrderStatus
    BY <1>3 DEF CompleteCommit, OrderAfter, TypeOK, OrderStatus
  <2>5. tx' \in [Calls -> Call] /\ step' = StepsAfter(c) /\ UNCHANGED <<creating, ops, crashes>>
    BY <1>3, CommitMoves
  <2> QED
    BY <2>2, <2>3, <2>4, <2>5, AfterType DEF TypeOK
<1> QED  BY <1>1, <1>2, <1>3 DEF Completing, Quietly

\* The begin of a call keeps the types.
LEMMA BeginType ==
    ASSUME TypeOK, NEW c \in Calls,
           (\E u \in Users, t \in TaskIds : CompleteBegin(c, u, t)) \/ \E s \in Steps : StepBegin(c, s)
    PROVE  TypeOK'
<1>1. ASSUME NEW u \in Users, NEW t \in TaskIds, CompleteBegin(c, u, t) PROVE TypeOK'
  <2>1. ops' \in Nat
    <3>1. ops' = ops \/ ops' = ops + 1  BY <1>1 DEF CompleteBegin
    <3> QED  BY <3>1 DEF TypeOK
  <2> QED  BY <1>1, <2>1, BeginMoves DEF TypeOK
<1>2. ASSUME NEW s \in Steps, StepBegin(c, s) PROVE TypeOK'
  BY <1>2, BeginMoves DEF TypeOK
<1> QED  BY <1>1, <1>2

\* Reassignment, closing and deletion by an administrator keep the types.
LEMMA InterventionType ==
    ASSUME TypeOK, Intervention
    PROVE  TypeOK'
<1>1. PICK u \in Users, t \in TaskIds :
        \/ OverrideClaim(u, t)
        \/ CancelTask(u, t)
        \/ \E c \in Calls : ForceComplete(c, u, t)
        \/ \E v \in Users : ReassignTask(u, t, v)
        \/ \E v \in Users, r \in Roles : AssignUser(u, t, v, r)
        \/ \E i \in Rows(t), v \in Users, r \in Roles : ReassignAssignment(u, t, i, v, r)
  BY DEF Intervention
<1>2. CASE OverrideClaim(u, t)
  BY <1>2, ClaimType
<1>3. CASE CancelTask(u, t)
  <2>1. task' \in [TaskIds -> [status : TaskStatus, claimedBy : Users \cup {Nobody}]]
    BY <1>3 DEF CancelTask, TypeOK, TaskStatus
  <2>2. ops' \in Nat
    BY <1>3 DEF CancelTask, Intervenes, TypeOK
  <2>3. QED
    BY <1>3, <2>1, <2>2 DEF CancelTask, TypeOK
<1>4. ASSUME NEW c \in Calls, ForceComplete(c, u, t)
      PROVE  TypeOK'
  <2>2. tx' \in [Calls -> Call]
    BY <1>4, BeginMoves
  <2>3. task' \in [TaskIds -> [status : TaskStatus, claimedBy : Users \cup {Nobody}]]
    BY <1>4 DEF ForceComplete, TypeOK, TaskStatus
  <2>4. QED
    BY <1>4, <2>2, <2>3 DEF ForceComplete, Intervenes, TypeOK
<1>5. ASSUME NEW v \in Users, ReassignTask(u, t, v)
      PROVE  TypeOK'
  <2>1. task' \in [TaskIds -> [status : TaskStatus, claimedBy : Users \cup {Nobody}]]
    BY <1>5 DEF ReassignTask, TypeOK
  <2>2. ops' \in Nat
    BY <1>5 DEF ReassignTask, Intervenes, TypeOK
  <2>3. QED
    BY <1>5, <2>1, <2>2 DEF ReassignTask, TypeOK
<1>6. ASSUME NEW v \in Users, NEW r \in Roles, AssignUser(u, t, v, r)
      PROVE  TypeOK'
  <2>1. [user |-> v, role |-> r, status |-> "pending"] \in Assignment
    BY DEF Assignment
  <2>2. asg[t] \in Seq(Assignment)
    BY DEF TypeOK
  <2>3. \A a \in Assignment : Append(asg[t], a) \in Seq(Assignment)
    BY <2>2
  <2>4. asg' \in [TaskIds -> Seq(Assignment)]
    BY <1>6, <2>1, <2>3 DEF AssignUser, TypeOK
  <2>5. task' \in [TaskIds -> [status : TaskStatus, claimedBy : Users \cup {Nobody}]]
    BY <1>6 DEF AssignUser, TypeOK, TaskStatus
  <2>6. QED
    BY <1>6, <2>4, <2>5 DEF AssignUser, Intervenes, TypeOK
<1>7. ASSUME NEW i \in Rows(t), NEW v \in Users, NEW r \in Roles,
             ReassignAssignment(u, t, i, v, r)
      PROVE  TypeOK'
  <2>1. asg[t] \in Seq(Assignment) /\ i \in 1 .. Len(asg[t])
    BY DEF TypeOK, Rows
  <2>2. [asg[t][i] EXCEPT !.user = v, !.role = r] \in Assignment
    <3>1. asg[t][i] \in Assignment
      BY <2>1
    <3>2. QED BY <3>1 DEF Assignment
  <2>3. [asg[t] EXCEPT ![i] = [asg[t][i] EXCEPT !.user = v, !.role = r]] \in Seq(Assignment)
    BY <2>1, <2>2
  <2>4. asg' = [asg EXCEPT ![t] = [asg[t] EXCEPT ![i] = [asg[t][i] EXCEPT !.user = v, !.role = r]]]
    BY <1>7, <2>1 DEF ReassignAssignment, TypeOK
  <2>5. asg' \in [TaskIds -> Seq(Assignment)]
    BY <2>3, <2>4 DEF TypeOK
  <2>6. ops' \in Nat
    BY <1>7 DEF ReassignAssignment, Intervenes, TypeOK
  <2>7. QED
    BY <1>7, <2>5, <2>6 DEF ReassignAssignment, TypeOK
<1>8. QED
  BY <1>1, <1>2, <1>3, <1>4, <1>5, <1>6, <1>7

\* A stop of the server keeps the types.
LEMMA CrashType ==
    ASSUME TypeOK, Crash
    PROVE  TypeOK'
<1>1. Idle \in Call
  BY IdleType
<1>2. tx' \in [Calls -> Call]
  BY <1>1 DEF Crash
<1>3. QED
  BY <1>2 DEF Crash, Goto, TypeOK, Phases, TaskIds

\* Every step keeps the types.
LEMMA TypeStep == TypeOK /\ [Next]_vars => TypeOK'
<1> SUFFICES ASSUME TypeOK, [Next]_vars PROVE TypeOK'
  OBVIOUS
<1>1. CASE UNCHANGED vars
  BY <1>1 DEF vars, TypeOK
<1>2. CASE Next
  BY <1>2, CreationType, ClaimType, BeginType, CompletingType,
     InterventionType, CrashType DEF Next
<1>3. QED BY <1>1, <1>2

\* Every variable keeps its type, for every set of users and calls and every type of
\* order.
THEOREM TypeCorrect == Spec => []TypeOK
<1>1. QED BY TypeInit, TypeStep, PTL DEF Spec

-----------------------------------------------------------------------------
(* The inductive invariant behind StepsInOrder. *)

\* Before create_order's first commit there is nothing anyone could act on.
Unborn ==
    order = "absent" =>
        /\ creating.at = "start"
        /\ \A s \in Steps : step[s] = "pending"
        /\ \A t \in TaskIds : Exists(t) = FALSE /\ task[t].claimedBy = Nobody /\ asg[t] = <<>>
        /\ \A c \in Calls : tx[c].pc = "idle"

\* The creation starts once.
CreatedOnce == creating.at = "start" => order = "absent"

\* A row is locked by one transaction at a time.
LocksExclusive == \A c, d \in Calls : c # d => tx[c].held \cap tx[d].held = {}

Winning == {"delivering", "chain", "root", "closing", "cascade", "commit"}

\* A call that has completed a step, and not yet committed, has the row of an active
\* step locked.
WinnersHoldActive ==
    \A c \in Calls : tx[c].won =>
        tx[c].pc \in Winning /\ StillActive(tx[c].step) /\ StepLock(tx[c].step) \in tx[c].held

\* What the steps and the calls in flight have to do with each other.
StepInv == StepsInOrder /\ LocksExclusive /\ WinnersHoldActive

IInv == TypeOK /\ Unborn /\ CreatedOnce /\ StepInv

\* The steps before k are done, k is active, the others wait.
Prefix(st, k) ==
    \A s \in Steps : st[s] = IF s < k THEN "done" ELSE IF s = k THEN "active" ELSE "pending"

\* Completing the active step of a prefix gives the next prefix.
LEMMA EngineAdvances ==
    ASSUME NEW st \in [Steps -> StepStatus], NEW k \in 1 .. Len(Workflow) + 1, Prefix(st, k),
           NEW s \in Steps, st[s] = "active"
    PROVE  /\ s = k
           /\ k + 1 \in 1 .. Len(Workflow) + 1
           /\ Prefix(EngineComplete(st, s), k + 1)
<1> DEFINE N    == Len(Workflow)
           done == [st EXCEPT ![s] = "done"]
<1>1. N \in Nat /\ Steps = 1 .. N /\ k \in Nat /\ k >= 1 /\ k <= N + 1
  BY WorkflowLength DEF Steps
<1>2. s = k
  BY <1>1 DEF Prefix
<1>3. \A p \in Steps : done[p] = IF p < k + 1 THEN "done" ELSE "pending"
  BY <1>1, <1>2 DEF Prefix
<1>4. Pending(done) = {p \in Steps : p > k}
  BY <1>1, <1>3 DEF Pending
<1>5. NextStep(done, s) = {p \in Steps : p = k + 1}
  <2>1. CASE k + 1 \in Steps
    <3>1. k + 1 \in Pending(done)
      <4> HIDE DEF done
      <4>1. k + 1 > k
        BY <1>1
      <4>2. QED BY <1>4, <2>1, <4>1
    <3>2. NextStep(done, s) = {k + 1}
      BY <1>2, <3>1 DEF NextStep
    <3>3. QED BY <2>1, <3>2
  <2>2. CASE k + 1 \notin Steps
    <3>1. Pending(done) = {}
      <4> HIDE DEF done
      <4>1. \A p \in Steps : ~(p > k)
        BY <1>1, <1>2, <2>2
      <4>2. QED BY <1>4, <4>1
    <3>2. QED BY <1>2, <2>2, <3>1 DEF NextStep
  <2>3. QED BY <2>1, <2>2
<1>6. EngineComplete(st, s) = [p \in Steps |-> IF p \in NextStep(done, s) THEN "active" ELSE done[p]]
  BY DEF EngineComplete
<1>7. \A p \in Steps : EngineComplete(st, s)[p] = IF p = k + 1 THEN "active" ELSE done[p]
  <2>1. \A p \in Steps : p \in NextStep(done, s) <=> p = k + 1
    BY <1>5
  <2>2. QED BY <1>6, <2>1
<1>8. Prefix(EngineComplete(st, s), k + 1)
  BY <1>1, <1>3, <1>7 DEF Prefix
<1>9. QED BY <1>1, <1>2, <1>8

\* Only one step of a prefix is active.
LEMMA OneActive ==
    ASSUME StepsInOrder, order # "absent", NEW r \in Steps, NEW s \in Steps,
           step[r] = "active", step[s] = "active"
    PROVE  r = s
BY WorkflowLength DEF StepsInOrder, Steps

\* A step is completed by one call at a time.
LEMMA WinnersAreOne ==
    ASSUME StepInv, order # "absent", NEW c \in Calls, NEW d \in Calls,
           tx[c].step \in Steps, tx[d].step \in Steps,
           StepLock(tx[c].step) \in tx[c].held, StillActive(tx[c].step), tx[d].won
    PROVE  c = d
<1>1. StillActive(tx[d].step) /\ StepLock(tx[d].step) \in tx[d].held
  BY DEF StepInv, WinnersHoldActive
<1>2. tx[c].step = tx[d].step
  BY <1>1, OneActive DEF StillActive, StepInv
<1> QED  BY <1>1, <1>2 DEF StepInv, LocksExclusive

-----------------------------------------------------------------------------
(* The invariant is inductive. *)

\* The inductive invariant holds when there is no order yet.
LEMMA InvInit == Init => IInv
<1> SUFFICES ASSUME Init PROVE IInv
  OBVIOUS
<1>1. \A c \in Calls : tx[c].pc = "idle" /\ tx[c].won = FALSE /\ tx[c].held = {}
  BY IdleType DEF Init
<1>2. QED
  BY <1>1, TypeInit
     DEF Init, IInv, StepInv, Unborn, CreatedOnce, StepsInOrder, WinnersHoldActive,
         LocksExclusive, Exists, TaskIds

\* Before the order exists it can only be created (or the server stops).
LEMMA OnlyCreation ==
    ASSUME TypeOK, Unborn, order = "absent", Next
    PROVE  CreateOrder \/ Crash
<1> USE DEF Unborn
<1>1. CASE Creation
  BY <1>1 DEF Creation, CreateRoot, AssignRequester, RootInProgress, RootReopen,
              CreateRoleTask, OpenRoleTask, RefreshRoleTask, OpenAgain, RecomputeWrite
<1>2. \A t \in TaskIds : task[t].status = "absent" /\ task[t].claimedBy = Nobody /\ Rows(t) = {}
  BY DEF Exists, Rows
<1>3. ASSUME NEW u \in Users, NEW t \in TaskIds PROVE ~ClaimTask(u, t)
  BY <1>2 DEF ClaimTask, Claimable
<1>4. ASSUME NEW u \in Users, NEW t \in TaskIds, NEW c \in Calls PROVE ~CompleteBegin(c, u, t)
  BY <1>2 DEF CompleteBegin, PickRow, RowOf
<1>5. ASSUME NEW c \in Calls PROVE ~Completing(c)
  <2>1. tx[c].pc = "idle"  OBVIOUS
  <2>2. ~Quietly(c)  BY <2>1, QuietMoves
  <2>3. ~(ChainCommit(c) \/ CompleteCommit(c))  BY <2>1, CommitMoves
  <2> QED  BY <2>2, <2>3 DEF Completing, Quietly
<1>6. ASSUME NEW c \in Calls, NEW s \in Steps PROVE ~StepBegin(c, s)
  BY DEF StepBegin
<1>7. ~Intervention
  <2>1. ASSUME NEW u \in Users, NEW t \in TaskIds
        PROVE  ~OverrideClaim(u, t) /\ ~CancelTask(u, t)
    BY <1>2 DEF OverrideClaim, CancelTask, Exists
  <2>2. ASSUME NEW u \in Users, NEW t \in TaskIds
        PROVE  /\ \A c \in Calls : ~ForceComplete(c, u, t)
               /\ \A v \in Users : ~ReassignTask(u, t, v)
               /\ \A v \in Users, r \in Roles : ~AssignUser(u, t, v, r)
    BY <1>2 DEF ForceComplete, ReassignTask, AssignUser, Exists
  <2>3. ASSUME NEW u \in Users, NEW t \in TaskIds, NEW i \in Rows(t)
        PROVE  \A v \in Users, r \in Roles : ~ReassignAssignment(u, t, i, v, r)
    BY <1>2 DEF ReassignAssignment, Rows
  <2>4. QED
    BY <2>1, <2>2, <2>3 DEF Intervention
<1>8. QED
  BY <1>1, <1>3, <1>4, <1>5, <1>6, <1>7 DEF Next

\* A record that wins nothing and holds nothing.
Fresh(r) == r.won = FALSE /\ r.held = {}

\* People's interventions touch neither the order nor its steps, and no winner.
LEMMA InterventionFrame ==
    ASSUME TypeOK, Intervention
    PROVE  /\ UNCHANGED <<order, step, creating>>
           /\ \A d \in Calls : tx'[d] = tx[d] \/ Fresh(tx'[d])
<1>1. PICK u \in Users, t \in TaskIds :
        \/ OverrideClaim(u, t)
        \/ CancelTask(u, t)
        \/ \E c \in Calls : ForceComplete(c, u, t)
        \/ \E v \in Users : ReassignTask(u, t, v)
        \/ \E v \in Users, r \in Roles : AssignUser(u, t, v, r)
        \/ \E i \in Rows(t), v \in Users, r \in Roles : ReassignAssignment(u, t, i, v, r)
  BY DEF Intervention
<1>2. CASE OverrideClaim(u, t) \/ CancelTask(u, t)
  BY <1>2 DEF OverrideClaim, CancelTask
<1>3. ASSUME NEW c \in Calls, ForceComplete(c, u, t)
      PROVE  /\ UNCHANGED <<order, step, creating>>
             /\ \A d \in Calls : tx'[d] = tx[d] \/ Fresh(tx'[d])
  <2>1. \A d \in Calls \ {c} : tx'[d] = tx[d]  BY <1>3, BeginMoves
  <2>2. tx'[c] = tx[c] \/ Fresh(tx'[c])  BY <1>3, BeginMoves DEF Fresh
  <2> QED BY <1>3, <2>1, <2>2 DEF ForceComplete
<1>4. ASSUME NEW v \in Users, ReassignTask(u, t, v)
      PROVE  UNCHANGED <<order, step, creating, tx>>
  BY <1>4 DEF ReassignTask
<1>5. ASSUME NEW v \in Users, NEW r \in Roles, AssignUser(u, t, v, r)
      PROVE  UNCHANGED <<order, step, creating, tx>>
  BY <1>5 DEF AssignUser
<1>6. ASSUME NEW i \in Rows(t), NEW v \in Users, NEW r \in Roles,
             ReassignAssignment(u, t, i, v, r)
      PROVE  UNCHANGED <<order, step, creating, tx>>
  BY <1>6 DEF ReassignAssignment
<1>7. QED
  BY <1>1, <1>2, <1>3, <1>4, <1>5, <1>6

\* The commits of a call, and its begin, take no locks.
LEMMA CallFrame ==
    ASSUME TypeOK, NEW c \in Calls
    PROVE  /\ (ChainCommit(c) \/ CompleteCommit(c)) =>
                 \A d \in Calls : tx'[d] = tx[d] \/ Fresh(tx'[d])
           /\ \A u \in Users, t \in TaskIds : CompleteBegin(c, u, t) =>
                 \A d \in Calls : tx'[d] = tx[d] \/ Fresh(tx'[d])
           /\ \A s \in Steps : StepBegin(c, s) =>
                 \A d \in Calls : tx'[d] = tx[d] \/ Fresh(tx'[d])
<1>1. ASSUME ChainCommit(c) \/ CompleteCommit(c)
      PROVE  \A d \in Calls : tx'[d] = tx[d] \/ Fresh(tx'[d])
  BY <1>1, CommitMoves DEF Fresh
<1>2. ASSUME NEW u \in Users, NEW t \in TaskIds, CompleteBegin(c, u, t)
      PROVE  \A d \in Calls : tx'[d] = tx[d] \/ Fresh(tx'[d])
  BY <1>2, BeginMoves DEF Fresh
<1>3. ASSUME NEW s \in Steps, StepBegin(c, s)
      PROVE  \A d \in Calls : tx'[d] = tx[d] \/ Fresh(tx'[d])
  BY <1>3, BeginMoves DEF Fresh
<1> QED  BY <1>1, <1>2, <1>3

\* An order never ceases to exist, and the creation does not start again.
LEMMA StaysCreated ==
    ASSUME TypeOK, CreatedOnce, order # "absent", [Next]_vars
    PROVE  order' # "absent" /\ CreatedOnce'
<1> creating.at # "start" /\ creating.at \in Phases
  BY DEF CreatedOnce, TypeOK
<1> USE DEF CreatedOnce
<1>1. CASE UNCHANGED vars
  BY <1>1 DEF vars
<1>2. CASE Creation
  BY <1>2 DEF Creation, CreateOrder, CreateRoot, AssignRequester, RootInProgress, RootReopen,
              CreateRoleTask, OpenRoleTask, RefreshRoleTask, OpenAgain, AfterRole,
              RecomputeWrite, Goto
<1>3. ASSUME NEW u \in Users, NEW t \in TaskIds, ClaimTask(u, t)
      PROVE  order' # "absent" /\ CreatedOnce'
  BY <1>3 DEF ClaimTask
<1>4. ASSUME NEW u \in Users, NEW t \in TaskIds, NEW c \in Calls, CompleteBegin(c, u, t)
      PROVE  order' # "absent" /\ CreatedOnce'
  BY <1>4 DEF CompleteBegin
<1>5. ASSUME NEW c \in Calls, Completing(c)
      PROVE  order' # "absent" /\ CreatedOnce'
  <2>1. CASE Quietly(c)  BY <2>1, QuietMoves
  <2>2. CASE ChainCommit(c) \/ CompleteCommit(c)
    BY <2>2 DEF ChainCommit, CompleteCommit, OrderAfter
  <2> QED  BY <1>5, <2>1, <2>2 DEF Completing, Quietly
<1>6. ASSUME NEW c \in Calls, NEW s \in Steps, StepBegin(c, s)
      PROVE  order' # "absent" /\ CreatedOnce'
  BY <1>6 DEF StepBegin
<1>7. CASE Intervention
  BY <1>7, InterventionFrame
<1>8. CASE Crash
  BY <1>8 DEF Crash, Goto
<1>9. QED
  BY <1>1, <1>2, <1>3, <1>4, <1>5, <1>6, <1>7, <1>8 DEF Next

\* Locks are given up, and one call takes such as are free.
LEMMA LocksStayExclusive ==
    ASSUME LocksExclusive, NEW c \in Calls,
           \A d \in Calls \ {c} : tx'[d].held \subseteq tx[d].held,
           \A l \in tx'[c].held : l \in tx[c].held \/ LockFree(l)
    PROVE  LocksExclusive'
BY DEF LocksExclusive, LockFree

\* A change of the calls that makes no new winner.
LEMMA NoNewWinner ==
    ASSUME StepInv, order # "absent", step' = step, LocksExclusive',
           \A d \in Calls : tx'[d].won =>
               /\ tx[d].won /\ tx'[d].step = tx[d].step
               /\ tx'[d].pc \in Winning /\ tx[d].held \subseteq tx'[d].held
    PROVE  StepInv'
<1>1. StepsInOrder'
  <2>1. StepsInOrder /\ step' = step  BY DEF StepInv
  <2>2. PICK k \in 1 .. Len(Workflow) + 1 : Prefix(step, k)
    BY <2>1 DEF StepsInOrder, Prefix
  <2> QED  BY <2>1, <2>2 DEF StepsInOrder, Prefix
<1>2. WinnersHoldActive'
  BY DEF StepInv, WinnersHoldActive, StillActive
<1> QED BY <1>1, <1>2 DEF StepInv

\* Calls begin and end without winning.
LEMMA NobodyWins ==
    ASSUME StepInv, order # "absent", step' = step,
           \A d \in Calls : tx'[d] = tx[d] \/ Fresh(tx'[d])
    PROVE  StepInv'
<1>1. LocksExclusive'
  BY DEF StepInv, LocksExclusive, Fresh
<1>2. \A d \in Calls : tx'[d].won =>
         /\ tx[d].won /\ tx'[d].step = tx[d].step
         /\ tx'[d].pc \in Winning /\ tx[d].held \subseteq tx'[d].held
  BY DEF StepInv, WinnersHoldActive, Fresh
<1> QED  BY <1>1, <1>2, NoNewWinner

\* A commit of what call c has written, which ends or resets its record.
LEMMA WinnerCommits ==
    ASSUME TypeOK, StepInv, order # "absent", NEW c \in Calls, step' = StepsAfter(c),
           Fresh(tx'[c]), \A d \in Calls \ {c} : tx'[d] = tx[d]
    PROVE  StepInv'
<1>0. \A d \in Calls : tx[d] \in Call /\ tx[d].step \in Steps \cup {0}
  BY DEF TypeOK, Call
<1>1. CASE ~tx[c].won
  <2>1. step' = step
    BY <1>1 DEF StepsAfter
  <2> QED BY <2>1, NobodyWins
<1>2. CASE tx[c].won
  <2>1. tx[c].step \in Steps /\ step[tx[c].step] = "active" /\ StepLock(tx[c].step) \in tx[c].held
    BY <1>0, <1>2 DEF StepInv, WinnersHoldActive, StillActive
  <2>2. PICK k \in 1 .. Len(Workflow) + 1 : Prefix(step, k)
    BY DEF StepInv, StepsInOrder, Prefix
  <2>3. k + 1 \in 1 .. Len(Workflow) + 1 /\ Prefix(step', k + 1)
    BY <1>2, <2>1, <2>2, EngineAdvances DEF StepsAfter, TypeOK
  <2>4. StepsInOrder'
    BY <2>3 DEF StepsInOrder, Prefix
  <2>5. \A d \in Calls : ~tx'[d].won
    <3> SUFFICES ASSUME NEW d \in Calls, tx'[d].won PROVE FALSE
      OBVIOUS
    <3>1. d # c /\ tx[d].won  BY DEF Fresh
    <3>2. tx[d].step \in Steps
      BY <1>0, <3>1 DEF StepInv, WinnersHoldActive, StillActive
    <3> QED  BY <1>2, <2>1, <3>1, <3>2, WinnersAreOne DEF StepInv, WinnersHoldActive
  <2>6. LocksExclusive'
    BY DEF StepInv, LocksExclusive, Fresh
  <2> QED BY <2>4, <2>5, <2>6 DEF StepInv, WinnersHoldActive
<1> QED BY <1>1, <1>2

\* A quiet step takes free locks only.
LEMMA QuietLocks ==
    ASSUME TypeOK, LocksExclusive, NEW c \in Calls, Quietly(c)
    PROVE  LocksExclusive' /\ (tx'[c] = Idle \/ tx[c].held \subseteq tx'[c].held)
<1>1. tx'[c] = Idle \/ Moves(c)
  BY QuietMoves
<1>2. CASE tx'[c] = Idle
  BY <1>2, QuietMoves, LocksStayExclusive, IdleType
<1>3. CASE Moves(c)
  <2>1. \/ tx'[c].held = tx[c].held
        \/ LocksTaken(c)
        \/ \E l \in Needs(c) : LockFree(l) /\ tx'[c] = [tx[c] EXCEPT !.held = @ \cup {l}]
    BY <1>3 DEF Moves
  <2>2. /\ \A l \in tx'[c].held : l \in tx[c].held \/ LockFree(l)
        /\ tx[c].held \subseteq tx'[c].held
    <3>1. CASE tx'[c].held = tx[c].held  BY <3>1
    <3>2. CASE LocksTaken(c)  BY <3>2 DEF LocksTaken, Ready
    <3>3. ASSUME NEW l \in Needs(c), LockFree(l), tx'[c] = [tx[c] EXCEPT !.held = @ \cup {l}]
          PROVE  /\ \A m \in tx'[c].held : m \in tx[c].held \/ LockFree(m)
                 /\ tx[c].held \subseteq tx'[c].held
      <4>1. tx[c] \in Call  BY DEF TypeOK
      <4>2. tx'[c].held = tx[c].held \cup {l}  BY <3>3, <4>1 DEF Call
      <4> QED  BY <3>3, <4>2
    <3> QED  BY <2>1, <3>1, <3>2, <3>3
  <2>3. \A d \in Calls \ {c} : tx'[d] = tx[d]
    BY QuietMoves
  <2> QED  BY <2>2, <2>3, LocksStayExclusive
<1> QED  BY <1>1, <1>2, <1>3

\* The engine's guarded update wins only over a step that no other winner has locked.
LEMMA EngineWins ==
    ASSUME TypeOK, StepInv, order # "absent", NEW c \in Calls, EngineUpdate(c), LocksTaken(c),
           tx[c].pc = "engine", tx'[c].pc \in Winning,
           tx'[c].step = tx[c].step, tx'[c].won = StillActive(tx[c].step),
           LocksExclusive', \A d \in Calls \ {c} : tx'[d] = tx[d], step' = step
    PROVE  StepInv'
<1> DEFINE s == tx[c].step
<1>0. \A d \in Calls : tx[d].step \in Steps \cup {0}
  BY DEF TypeOK, Call
<1>1. \A d \in Calls : tx[d].won => tx[d].pc \in Winning
  BY DEF StepInv, WinnersHoldActive
<1>2. CASE ~StillActive(s)
  <2>1. \A d \in Calls : tx'[d].won =>
           /\ tx[d].won /\ tx'[d].step = tx[d].step
           /\ tx'[d].pc \in Winning /\ tx[d].held \subseteq tx'[d].held
    BY <1>1, <1>2
  <2> QED  BY <2>1, NoNewWinner
<1>3. CASE StillActive(s)
  <2>1. StepLock(s) \in tx'[c].held
    <3>1. Writes(c) = {StepLock(s)}  BY <1>3, WritesAt
    <3> QED  BY <3>1 DEF LocksTaken, Needs
  <2>2. StepsInOrder'
    <3>1. PICK k \in 1 .. Len(Workflow) + 1 : Prefix(step, k)
      BY DEF StepInv, StepsInOrder, Prefix
    <3> QED  BY <3>1 DEF StepsInOrder, Prefix
  <2>3. \A d \in Calls : tx'[d].won =>
           /\ tx'[d].pc \in Winning /\ StillActive(tx'[d].step)
           /\ StepLock(tx'[d].step) \in tx'[d].held
    BY <1>3, <2>1 DEF StepInv, WinnersHoldActive
  <2>4. WinnersHoldActive'
    BY <2>3 DEF WinnersHoldActive, StillActive
  <2> QED  BY <2>2, <2>4 DEF StepInv
<1> QED  BY <1>2, <1>3

\* Whatever a call in flight does, the steps stay in order.
LEMMA QuietKeepsSteps ==
    ASSUME TypeOK, StepInv, order # "absent", NEW c \in Calls, Quietly(c)
    PROVE  StepInv'
<1>1. /\ step' = step /\ LocksExclusive' /\ \A d \in Calls \ {c} : tx'[d] = tx[d]
      /\ tx'[c] = Idle \/ (Moves(c) /\ tx[c].held \subseteq tx'[c].held)
  BY QuietMoves, QuietLocks DEF StepInv
<1>2. CASE tx'[c] = Idle
  BY <1>1, <1>2, NobodyWins, IdleType DEF Fresh
<1>3. ASSUME tx'[c].won => tx[c].won /\ tx'[c].step = tx[c].step /\ tx'[c].pc \in Winning,
             tx[c].held \subseteq tx'[c].held
      PROVE  StepInv'
  <2>1. \A d \in Calls : tx'[d].won =>
           /\ tx[d].won /\ tx'[d].step = tx[d].step
           /\ tx'[d].pc \in Winning /\ tx[d].held \subseteq tx'[d].held
    BY <1>1, <1>3 DEF StepInv, WinnersHoldActive
  <2> QED  BY <1>1, <2>1, NoNewWinner
<1>4. CASE EngineUpdate(c) /\ Moves(c)
  <2>1. tx[c].pc = "engine"
    BY <1>4 DEF EngineUpdate
  <2>2. CASE Acquire(c)
    <3>1. Cardinality(Needs(c)) > 1  BY <2>2 DEF Acquire
    <3>2. Writes(c) = {} \/ \E l : Writes(c) = {l}  BY <2>1, WritesAt
    <3>3. Needs(c) = {} \/ \E l : Needs(c) = {l}  BY <3>2 DEF Needs
    <3>4. CASE Needs(c) = {}  BY <3>1, <3>4, FS_EmptySet
    <3>5. ASSUME NEW l, Needs(c) = {l} PROVE FALSE
      <4>1. Cardinality(Needs(c)) = 1  BY <3>5, FS_Singleton
      <4> QED  BY <3>1, <4>1
    <3> QED  BY <3>3, <3>4, <3>5
  <2>3. CASE ~Acquire(c)
    <3>1. /\ LocksTaken(c) /\ tx'[c].won = StillActive(tx[c].step)
          /\ tx'[c].pc \in {"delivering", AfterEngine(c)} /\ tx'[c].step = tx[c].step
      BY <1>4, <2>1, <2>3 DEF Moves, RecordAt
    <3>2. tx'[c].pc \in Winning  BY <3>1 DEF AfterEngine, Winning
    <3> QED  BY <1>1, <1>4, <2>1, <3>1, <3>2, EngineWins
  <2> QED  BY <2>2, <2>3
<1>5. CASE Moves(c) /\ ~EngineUpdate(c) /\ ~Acquire(c)
  <2>1. /\ tx'[c].won = tx[c].won /\ tx'[c].step = tx[c].step
        /\ tx[c].pc \in Winning => tx'[c].pc \in Winning
    BY <1>5 DEF Moves, RecordAt, Winning, AfterEngine
  <2>2. tx[c].held \subseteq tx'[c].held  BY <1>1, <1>5, <1>2 DEF Moves, LocksTaken
  <2> QED  BY <1>3, <2>1, <2>2 DEF StepInv, WinnersHoldActive
<1>6. CASE Moves(c) /\ Acquire(c) /\ ~EngineUpdate(c)
  <2>1. tx[c] \in Call  BY DEF TypeOK
  <2>2. PICK L : tx' = [tx EXCEPT ![c].held = L]  BY <1>6 DEF Acquire
  <2>3. tx'[c].won = tx[c].won /\ tx'[c].step = tx[c].step /\ tx'[c].pc = tx[c].pc
    BY <2>1, <2>2 DEF Call, TypeOK
  <2>4. tx[c].held \subseteq tx'[c].held \/ tx'[c] = Idle  BY <1>1
  <2> QED  BY <1>2, <1>3, <2>3, <2>4 DEF StepInv, WinnersHoldActive
<1> QED  BY <1>1, <1>2, <1>4, <1>5, <1>6

\* The order of the workflow steps survives every step.
LEMMA StepInvStep ==
    ASSUME TypeOK, StepInv, order # "absent", creating.at # "start", [Next]_vars
    PROVE  StepInv'
<1>1. CASE UNCHANGED vars
  BY <1>1, NobodyWins DEF vars
<1>2. CASE Creation
  <2>1. UNCHANGED <<step, tx>>
    BY <1>2 DEF Creation, CreateOrder, CreateRoot, AssignRequester, RootInProgress, RootReopen,
          CreateRoleTask, OpenRoleTask, RefreshRoleTask, OpenAgain, RecomputeWrite
  <2> QED  BY <2>1, NobodyWins
<1>3. ASSUME NEW u \in Users, NEW t \in TaskIds, ClaimTask(u, t)
      PROVE  StepInv'
  BY <1>3, NobodyWins DEF ClaimTask
<1>4. ASSUME NEW c \in Calls, NEW u \in Users, NEW t \in TaskIds, CompleteBegin(c, u, t)
      PROVE  StepInv'
  <2>1. step' = step  BY <1>4 DEF CompleteBegin
  <2> QED  BY <1>4, <2>1, CallFrame, NobodyWins
<1>5. ASSUME NEW c \in Calls, NEW s \in Steps, StepBegin(c, s)
      PROVE  StepInv'
  <2>1. step' = step  BY <1>5 DEF StepBegin
  <2> QED  BY <1>5, <2>1, CallFrame, NobodyWins
<1>6. ASSUME NEW c \in Calls, Completing(c)
      PROVE  StepInv'
  <2>1. CASE Quietly(c)  BY <2>1, QuietKeepsSteps
  <2>2. CASE ChainCommit(c) \/ CompleteCommit(c)
    BY <2>2, CommitMoves, WinnerCommits DEF Fresh
  <2> QED  BY <1>6, <2>1, <2>2 DEF Completing, Quietly
<1>7. CASE Intervention
  BY <1>7, InterventionFrame, NobodyWins
<1>8. CASE Crash
  <2>1. \A d \in Calls : Fresh(tx'[d])
    BY <1>8, IdleType DEF Crash, Fresh
  <2> QED BY <1>8, <2>1, NobodyWins DEF Crash
<1> QED
  BY <1>1, <1>2, <1>3, <1>4, <1>5, <1>6, <1>7, <1>8 DEF Next

\* Every step keeps the inductive invariant.
LEMMA InvStep == IInv /\ [Next]_vars => IInv'
<1> SUFFICES ASSUME IInv, [Next]_vars PROVE IInv'
  OBVIOUS
<1>1. TypeOK /\ TypeOK' /\ StepInv
  BY TypeStep DEF IInv
<1>2. CASE order # "absent"
  <2>1. creating.at # "start"
    BY <1>2 DEF IInv, CreatedOnce
  <2>2. order' # "absent" /\ CreatedOnce'
    BY <1>1, <1>2, StaysCreated DEF IInv
  <2>3. StepInv'
    BY <1>1, <1>2, <2>1, StepInvStep
  <2>4. QED BY <1>1, <2>2, <2>3 DEF IInv, Unborn
<1>3. CASE order = "absent" /\ CreateOrder
  <2>1. \A s \in Steps : step'[s] = IF s = 1 THEN "active" ELSE "pending"
    BY <1>1, <1>3 DEF CreateOrder, IInv, Unborn, TypeOK
  <2>2. StepsInOrder'
    <3>1. 1 \in 1 .. Len(Workflow) + 1 /\ \A s \in Steps : s \in Nat /\ ~(s < 1)
      BY WorkflowLength DEF Steps
    <3>2. \A s \in Steps : step'[s] = IF s < 1 THEN "done" ELSE IF s = 1 THEN "active" ELSE "pending"
      BY <2>1, <3>1
    <3>3. QED BY <3>1, <3>2 DEF StepsInOrder
  <2>3. tx' = tx /\ \A c \in Calls : ~tx'[c].won
    BY <1>1, <1>3 DEF CreateOrder, IInv, Unborn, StepInv, WinnersHoldActive, Winning
  <2>4. order' # "absent" /\ CreatedOnce'
    BY <1>3 DEF CreateOrder, Goto, CreatedOnce
  <2>5. LocksExclusive' /\ WinnersHoldActive'
    BY <1>1, <2>3 DEF StepInv, LocksExclusive, WinnersHoldActive
  <2> QED BY <1>1, <2>2, <2>4, <2>5 DEF IInv, Unborn, StepInv
<1>4. CASE order = "absent" /\ Crash
  <2>1. \A c \in Calls : tx'[c].pc = "idle" /\ Fresh(tx'[c])
    BY <1>4, IdleType DEF Crash, Fresh
  <2>2. UNCHANGED <<order, step, task, asg, creating>>
    BY <1>4 DEF Crash, IInv, Unborn
  <2>3. Unborn' /\ CreatedOnce' /\ StepsInOrder'
    BY <1>1, <1>4, <2>1, <2>2 DEF IInv, Unborn, CreatedOnce, StepsInOrder, Exists
  <2>4. LocksExclusive' /\ WinnersHoldActive'
    BY <2>1 DEF Fresh, LocksExclusive, WinnersHoldActive
  <2> QED BY <1>1, <2>3, <2>4 DEF IInv, StepInv
<1>5. CASE order = "absent" /\ UNCHANGED vars
  BY <1>1, <1>5 DEF vars, IInv, Unborn, CreatedOnce, StepInv, StepsInOrder, WinnersHoldActive,
                    LocksExclusive, Exists, StillActive
<1>6. QED
  BY <1>1, <1>2, <1>3, <1>4, <1>5, OnlyCreation DEF IInv

\* The steps of an order are done in the order of its workflow, whoever completes
\* them, by whatever endpoint, and however many calls race: engine, assignments and
\* interventions (StepsInOrder).
THEOREM StepsAlwaysInOrder == Spec => []StepsInOrder
<1>1. IInv => StepsInOrder
  BY DEF IInv, StepInv
<1>2. QED BY <1>1, InvInit, InvStep, PTL DEF Spec
=============================================================================
