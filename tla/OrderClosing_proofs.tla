------------------------ MODULE OrderClosing_proofs ------------------------
(***************************************************************************)
(* What holds of OrderWorkflow while an order is worked on and closed: the *)
(* steps, the assignments, the claims and the closing.  Each theorem names  *)
(* the bounds of the model it needs; there is none unless it says so.       *)
(***************************************************************************)
EXTENDS OrderWorkflow_proofs

-----------------------------------------------------------------------------
(* One step at a time: StepsAdvance. *)

\* The steps stay, are begun by create_order, or advance by one.
LEMMA StepChange ==
    ASSUME IInv, [Next]_vars
    PROVE  \/ step' = step
           \/ order = "absent" /\ creating.at = "start" /\ step' = [step EXCEPT ![1] = "active"]
           \/ \E k \in 1 .. Len(Workflow) + 1 : Prefix(step, k) /\ Prefix(step', k + 1)
<1> USE DEF IInv
<1>1. CASE UNCHANGED vars
  BY <1>1 DEF vars
<1>2. CASE Creation
  <2>1. CASE CreateOrder
    BY <2>1 DEF CreateOrder, CreatedOnce
  <2>2. CASE ~CreateOrder
    BY <1>2, <2>2 DEF Creation, CreateRoot, AssignRequester, RootInProgress, RootReopen,
                      CreateRoleTask, OpenRoleTask, RefreshRoleTask, OpenAgain, RecomputeWrite
  <2> QED  BY <2>1, <2>2
<1>3. ASSUME NEW s \in Steps, step[s] = "active", step' = EngineComplete(step, s)
      PROVE  \E k \in 1 .. Len(Workflow) + 1 : Prefix(step, k) /\ Prefix(step', k + 1)
  <2>1. order # "absent"
    BY <1>3 DEF Unborn
  <2>2. PICK k \in 1 .. Len(Workflow) + 1 : Prefix(step, k)
    BY <2>1 DEF StepInv, StepsInOrder, Prefix
  <2>3. Prefix(step', k + 1)
    BY <1>3, <2>2, EngineAdvances DEF TypeOK
  <2> QED  BY <2>2, <2>3
<1>4. ASSUME NEW c \in Calls, step' = StepsAfter(c)
      PROVE  step' = step \/ \E k \in 1 .. Len(Workflow) + 1 : Prefix(step, k) /\ Prefix(step', k + 1)
  <2>1. CASE ~tx[c].won
    BY <1>4, <2>1 DEF StepsAfter
  <2>2. CASE tx[c].won
    <3>1. tx[c].step \in Steps /\ step[tx[c].step] = "active"
      BY <2>2 DEF StepInv, WinnersHoldActive, StillActive, TypeOK, Call
    <3> QED  BY <1>3, <1>4, <2>2, <3>1 DEF StepsAfter
  <2> QED  BY <2>1, <2>2
<1>5. ASSUME NEW c \in Calls, Completing(c)
      PROVE  step' = step \/ \E k \in 1 .. Len(Workflow) + 1 : Prefix(step, k) /\ Prefix(step', k + 1)
  <2>1. CASE Quietly(c)
    BY <2>1, QuietMoves
  <2>2. CASE ChainCommit(c) \/ CompleteCommit(c)
    BY <1>4, <2>2, CommitMoves
  <2> QED  BY <1>5, <2>1, <2>2 DEF Completing, Quietly
<1>6. ASSUME NEW c \in Calls, NEW s \in Steps, StepBegin(c, s)
      PROVE  step' = step
  BY <1>6 DEF StepBegin
<1>7. ASSUME NEW u \in Users, NEW t \in TaskIds, ClaimTask(u, t) PROVE step' = step
  BY <1>7 DEF ClaimTask
<1>8. ASSUME NEW c \in Calls, NEW u \in Users, NEW t \in TaskIds, CompleteBegin(c, u, t)
      PROVE  step' = step
  BY <1>8 DEF CompleteBegin
<1>9. CASE Intervention
  BY <1>9, InterventionFrame
<1>10. CASE Crash
  BY <1>10 DEF Crash
<1> HIDE DEF IInv
<1>11. QED
  BY <1>1, <1>2, <1>5, <1>6, <1>7, <1>8, <1>9, <1>10 DEF Next

\* So no step is skipped, and none comes back.
LEMMA StepsOneByOne == IInv /\ [Next]_vars => OneStepMore
<1> SUFFICES ASSUME IInv, [Next]_vars PROVE OneStepMore
  OBVIOUS
<1>1. CASE step' = step
  BY <1>1 DEF OneStepMore
<1>2. CASE order = "absent" /\ creating.at = "start" /\ step' = [step EXCEPT ![1] = "active"]
  <2>1. \A s \in Steps : step[s] = "pending" /\ step'[s] # "done"
    BY <1>2 DEF IInv, Unborn, TypeOK
  <2> QED  BY <2>1 DEF OneStepMore
<1>3. CASE \E k \in 1 .. Len(Workflow) + 1 : Prefix(step, k) /\ Prefix(step', k + 1)
  <2>1. PICK k \in 1 .. Len(Workflow) + 1 : Prefix(step, k) /\ Prefix(step', k + 1)
    BY <1>3
  <2>2. Steps \subseteq Nat /\ k \in Nat
    BY WorkflowLength DEF Steps
  <2>3. \A s \in Steps : (step[s] = "done" <=> s < k) /\ (step'[s] = "done" <=> s < k + 1)
    BY <2>1 DEF Prefix
  <2>4. \A s \in Steps : step[s] = "done" => step'[s] = "done"
    BY <2>2, <2>3
  <2>5. \A r, s \in Steps : step[r] # "done" /\ step'[r] = "done" /\ step[s] # "done"
                             /\ step'[s] = "done" => r = s
    BY <2>2, <2>3
  <2> QED  BY <2>4, <2>5 DEF OneStepMore
<1> QED  BY <1>1, <1>2, <1>3, StepChange

\* Whatever commits, at most one more step of the workflow is done, and no step that was
\* done is undone: the guarded update of complete_task lets a double click, or two people
\* at once, complete the step they saw and never the next one too (StepsAdvance).
THEOREM NoStepIsSkipped == Spec => StepsAdvance
<1> QED BY InvInit, InvStep, StepsOneByOne, PTL DEF Spec, StepsAdvance

-----------------------------------------------------------------------------
(* The rows of the assignments: WorkStaysDone. *)

\* Marking rows done changes their status and nothing else.
LEMMA MarkDoneRows ==
    ASSUME NEW rows \in Seq(Assignment), NEW I, NEW i \in DOMAIN rows
    PROVE  LET a == MarkDone(rows, I)[i] IN
           /\ a.user = rows[i].user /\ a.role = rows[i].role
           /\ a.status = IF i \in I THEN "done" ELSE rows[i].status
<1>1. rows[i] \in Assignment  OBVIOUS
<1>2. MarkDone(rows, I)[i] = IF i \in I THEN [rows[i] EXCEPT !.status = "done"] ELSE rows[i]
  BY DEF MarkDone
<1> QED  BY <1>1, <1>2 DEF Assignment

\* What of a row a call changes.
LEMMA AfterRows ==
    ASSUME TypeOK, NEW c \in Calls, NEW t \in TaskIds
    PROVE  /\ DOMAIN AsgAfter(c)[t] = DOMAIN asg[t]
           /\ \A i \in DOMAIN asg[t] :
                 LET a == AsgAfter(c)[t][i] IN
                 /\ a.user = asg[t][i].user /\ a.role = asg[t][i].role
                 /\ a.status = IF RowLock(t, i) \in tx[c].marks THEN "done" ELSE asg[t][i].status
<1> DEFINE I == {i \in Rows(t) : RowLock(t, i) \in tx[c].marks}
<1>1. asg[t] \in Seq(Assignment) /\ AsgAfter(c)[t] = MarkDone(asg[t], I)
  BY DEF TypeOK, AsgAfter
<1>2. \A i \in DOMAIN asg[t] : i \in I <=> RowLock(t, i) \in tx[c].marks
  BY DEF Rows
<1> HIDE DEF I
<1>3. \A i \in DOMAIN asg[t] :
         /\ MarkDone(asg[t], I)[i].user = asg[t][i].user /\ MarkDone(asg[t], I)[i].role = asg[t][i].role
         /\ MarkDone(asg[t], I)[i].status = IF i \in I THEN "done" ELSE asg[t][i].status
  BY <1>1, MarkDoneRows
<1> QED  BY <1>1, <1>2, <1>3, MarkDoneType

\* A row that is appended.
LEMMA AppendedRow ==
    ASSUME TypeOK, NEW t \in TaskIds, NEW a \in Assignment
    PROVE  LET n == [asg EXCEPT ![t] = Append(asg[t], a)] IN
           /\ \A r \in TaskIds : r # t => n[r] = asg[r]
           /\ Len(n[t]) = Len(asg[t]) + 1 /\ DOMAIN n[t] = DOMAIN asg[t] \cup {Len(asg[t]) + 1}
           /\ n[t][Len(asg[t]) + 1] = a /\ n[t] # <<>>
           /\ \A i \in DOMAIN asg[t] : n[t][i] = asg[t][i]
<1>1. asg[t] \in Seq(Assignment) /\ asg \in [TaskIds -> Seq(Assignment)]  BY DEF TypeOK
<1> DEFINE x == Append(asg[t], a)
<1>2. /\ Len(x) = Len(asg[t]) + 1 /\ DOMAIN x = DOMAIN asg[t] \cup {Len(asg[t]) + 1}
      /\ x[Len(asg[t]) + 1] = a /\ x # <<>>
      /\ \A i \in DOMAIN asg[t] : x[i] = asg[t][i]
  BY <1>1
<1> HIDE DEF x
<1>3. [asg EXCEPT ![t] = x][t] = x  BY <1>1
<1> QED  BY <1>1, <1>2, <1>3 DEF x

\* The rows new are those of asg, some of them done now.
RowsMarked(new) ==
    \A t \in TaskIds :
        /\ DOMAIN new[t] = DOMAIN asg[t]
        /\ \A i \in DOMAIN asg[t] :
              /\ new[t][i].user = asg[t][i].user /\ new[t][i].role = asg[t][i].role
              /\ new[t][i].status \in {asg[t][i].status, "done"}

\* A row is appended to those of task t.
RowAppended(t, a) == asg' = [asg EXCEPT ![t] = Append(@, a)]

\* A call in flight has marked rows, and made or removed none.
LEMMA RowsAfterMarked == ASSUME TypeOK, NEW c \in Calls PROVE RowsMarked(AsgAfter(c))
<1> SUFFICES ASSUME NEW t \in TaskIds
             PROVE  /\ DOMAIN AsgAfter(c)[t] = DOMAIN asg[t]
                    /\ \A i \in DOMAIN asg[t] :
                          /\ AsgAfter(c)[t][i].user = asg[t][i].user
                          /\ AsgAfter(c)[t][i].role = asg[t][i].role
                          /\ AsgAfter(c)[t][i].status \in {asg[t][i].status, "done"}
  BY DEF RowsMarked
<1> QED  BY AfterRows

\* The rows that the commit of a completion writes.
LEMMA CommittedRows ==
    ASSUME TypeOK, NEW c \in Calls, CompleteCommit(c), NEW t \in TaskIds
    PROVE  /\ DOMAIN asg'[t] = DOMAIN asg[t]
           /\ \A i \in DOMAIN asg[t] :
                 /\ asg'[t][i].user = asg[t][i].user /\ asg'[t][i].role = asg[t][i].role
                 /\ asg'[t][i].status = IF RowLock(t, i) \in tx[c].marks \cup tx[c].due
                                        THEN "done" ELSE asg[t][i].status
<1> DEFINE I == {i \in Rows(t) : RowLock(t, i) \in tx[c].due}
           a == AsgAfter(c)[t]
<1>1. a \in Seq(Assignment) /\ DOMAIN a = DOMAIN asg[t]
  BY AfterType
<1>2. asg'[t] = MarkDone(a, I)
  BY DEF CompleteCommit
<1>3. \A i \in DOMAIN asg[t] : i \in I <=> RowLock(t, i) \in tx[c].due
  BY DEF Rows
<1>4. \A i \in DOMAIN asg[t] :
         /\ a[i].user = asg[t][i].user /\ a[i].role = asg[t][i].role
         /\ a[i].status = IF RowLock(t, i) \in tx[c].marks THEN "done" ELSE asg[t][i].status
  BY AfterRows
<1> HIDE DEF I, a
<1>5. \A i \in DOMAIN a :
         /\ MarkDone(a, I)[i].user = a[i].user /\ MarkDone(a, I)[i].role = a[i].role
         /\ MarkDone(a, I)[i].status = IF i \in I THEN "done" ELSE a[i].status
  BY <1>1, MarkDoneRows
<1> QED  BY <1>1, <1>2, <1>3, <1>4, <1>5, MarkDoneType

\* What the completion of an assignment, or of a step alone, does to the rows.
LEMMA CompletionMarks ==
    ASSUME TypeOK, asg' = asg \/ \E c \in Calls : Completing(c)
    PROVE  RowsMarked(asg')
<1>1. asg' = asg => RowsMarked(asg')
  BY DEF RowsMarked
<1>2. ASSUME NEW c \in Calls, Completing(c) PROVE RowsMarked(asg')
  <2>1. CASE Quietly(c)
    BY <1>1, <2>1, QuietMoves
  <2>2. CASE ChainCommit(c)
    BY <2>2, RowsAfterMarked DEF ChainCommit
  <2>3. CASE CompleteCommit(c)
    BY <2>3, CommittedRows DEF RowsMarked
  <2> QED  BY <1>2, <2>1, <2>2, <2>3 DEF Completing, Quietly
<1> QED  BY <1>1, <1>2

\* The row i of task t is what it was, or has become done.
RowKept(t, i) ==
    /\ i \in DOMAIN asg'[t]
    /\ asg'[t][i].user = asg[t][i].user /\ asg'[t][i].role = asg[t][i].role
    /\ asg'[t][i].status \in {asg[t][i].status, "done"}

\* What becomes of the rows in one step: some are marked, one is appended, or an admin
\* gives one to another user or role.
LEMMA RowsChange ==
    ASSUME TypeOK, [Next]_vars
    PROVE  \/ RowsMarked(asg')
           \/ /\ AssignRequester
              /\ RowAppended("root", [user |-> Creator, role |-> "requester", status |-> "pending"])
           \/ \E u \in Users, t \in TaskIds :
                 /\ ClaimTask(u, t) /\ RowOf(t, u) = {}
                 /\ RowAppended(t, [user |-> u, role |-> RequiredRole(t), status |-> "in_progress"])
           \/ \E u, v \in Users, t \in TaskIds, r \in Roles :
                 AssignUser(u, t, v, r) /\ RowAppended(t, [user |-> v, role |-> r, status |-> "pending"])
           \/ \E u, v \in Users, t \in TaskIds, r \in Roles : \E i \in Rows(t) :
                 ReassignAssignment(u, t, i, v, r)
<1>0. asg' = asg => RowsMarked(asg')
  BY CompletionMarks
<1>1. CASE UNCHANGED vars
  BY <1>0, <1>1 DEF vars
<1>2. CASE Creation
  <2>1. CASE AssignRequester
    BY <1>0, <2>1 DEF AssignRequester, RowAppended
  <2>2. CASE ~AssignRequester
    BY <1>0, <1>2, <2>2 DEF Creation, CreateOrder, CreateRoot, RootInProgress, RootReopen,
                    CreateRoleTask, OpenRoleTask, RefreshRoleTask, OpenAgain, RecomputeWrite
  <2> QED  BY <2>1, <2>2
<1>3. ASSUME NEW u \in Users, NEW t \in TaskIds, ClaimTask(u, t)
      PROVE  \/ asg' = asg
             \/ /\ RowOf(t, u) = {}
                /\ RowAppended(t, [user |-> u, role |-> RequiredRole(t), status |-> "in_progress"])
  BY <1>3 DEF ClaimTask, WithClaimer, RowAppended
<1>4. ASSUME NEW c \in Calls, NEW u \in Users, NEW t \in TaskIds, CompleteBegin(c, u, t)
      PROVE  asg' = asg
  BY <1>4 DEF CompleteBegin
<1>7. ASSUME NEW c \in Calls, NEW s \in Steps, StepBegin(c, s)
      PROVE  asg' = asg
  BY <1>7 DEF StepBegin
<1>5. CASE Crash
  BY <1>0, <1>5 DEF Crash
<1>6. CASE Intervention
  <2>1. PICK u \in Users, t \in TaskIds :
          \/ OverrideClaim(u, t)
          \/ CancelTask(u, t)
          \/ \E c \in Calls : ForceComplete(c, u, t)
          \/ \E v \in Users : ReassignTask(u, t, v)
          \/ \E v \in Users, r \in Roles : AssignUser(u, t, v, r)
          \/ \E i \in Rows(t), v \in Users, r \in Roles : ReassignAssignment(u, t, i, v, r)
    BY <1>6 DEF Intervention
  <2>2. CASE OverrideClaim(u, t) \/ CancelTask(u, t)
    BY <1>0, <2>2 DEF OverrideClaim, CancelTask
  <2>3. ASSUME NEW c \in Calls, ForceComplete(c, u, t) PROVE asg' = asg
    BY <2>3 DEF ForceComplete
  <2>4. ASSUME NEW v \in Users, ReassignTask(u, t, v) PROVE asg' = asg
    BY <2>4 DEF ReassignTask
  <2>5. ASSUME NEW v \in Users, NEW r \in Roles, AssignUser(u, t, v, r)
        PROVE  RowAppended(t, [user |-> v, role |-> r, status |-> "pending"])
    BY <2>5 DEF AssignUser, RowAppended
  <2> QED  BY <1>0, <2>1, <2>2, <2>3, <2>4, <2>5
<1> QED
  BY <1>0, <1>1, <1>2, <1>3, <1>4, <1>5, <1>6, <1>7, CompletionMarks DEF Next

\* The rows that are appended.
LEMMA AppendedRows ==
    ASSUME TypeOK, NEW t \in TaskIds, NEW a \in Assignment, RowAppended(t, a)
    PROVE  /\ \A r \in TaskIds \ {t} : asg'[r] = asg[r]
           /\ DOMAIN asg'[t] = DOMAIN asg[t] \cup {Len(asg[t]) + 1}
           /\ Len(asg[t]) + 1 \notin DOMAIN asg[t]
           /\ asg'[t][Len(asg[t]) + 1] = a
           /\ \A i \in DOMAIN asg[t] : asg'[t][i] = asg[t][i]
           /\ \A r \in TaskIds : \A i \in DOMAIN asg[r] : RowKept(r, i)
<1> DEFINE n == [asg EXCEPT ![t] = Append(asg[t], a)]
<1>0. n = asg'  BY DEF RowAppended
<1>1. /\ \A r \in TaskIds : r # t => n[r] = asg[r]
      /\ DOMAIN n[t] = DOMAIN asg[t] \cup {Len(asg[t]) + 1}
      /\ n[t][Len(asg[t]) + 1] = a
      /\ \A i \in DOMAIN asg[t] : n[t][i] = asg[t][i]
  BY AppendedRow
<1>2. asg[t] \in Seq(Assignment)  BY DEF TypeOK
<1>3. Len(asg[t]) + 1 \notin DOMAIN asg[t]  BY <1>2
<1> HIDE DEF n
<1>4. \A r \in TaskIds : \A i \in DOMAIN asg[r] : RowKept(r, i)
  BY <1>0, <1>1 DEF RowKept
<1> QED  BY <1>0, <1>1, <1>3, <1>4

\* The rows that are appended have the type of an assignment.
LEMMA RowTypes ==
    /\ [user |-> Creator, role |-> "requester", status |-> "pending"] \in Assignment
    /\ \A u \in Users, t \in TaskIds :
          [user |-> u, role |-> RequiredRole(t), status |-> "in_progress"] \in Assignment
    /\ \A v \in Users, r \in Roles : [user |-> v, role |-> r, status |-> "pending"] \in Assignment
  BY UsersAssumption DEF Assignment, RequiredRole, Roles, TaskIds

\* A row that changes hands.
LEMMA ReassignedRow ==
    ASSUME TypeOK, NEW u \in Users, NEW v \in Users, NEW t \in TaskIds, NEW r \in Roles,
           NEW i \in Rows(t), ReassignAssignment(u, t, i, v, r)
    PROVE  /\ ops' = ops + 1
           /\ \A q \in TaskIds \ {t} : asg'[q] = asg[q]
           /\ DOMAIN asg'[t] = DOMAIN asg[t]
           /\ \A j \in DOMAIN asg[t] \ {i} : asg'[t][j] = asg[t][j]
           /\ asg'[t][i].user = v /\ asg'[t][i].role = r /\ asg'[t][i].status = asg[t][i].status
<1>1. asg[t] \in Seq(Assignment) /\ i \in DOMAIN asg[t] /\ asg[t][i] \in Assignment
      /\ asg \in [TaskIds -> Seq(Assignment)]
  BY DEF Rows, TypeOK
<1> DEFINE a == [asg[t][i] EXCEPT !.user = v, !.role = r]
           b == [asg[t] EXCEPT ![i] = a]
<1>2. a.user = v /\ a.role = r /\ a.status = asg[t][i].status  BY <1>1 DEF Assignment
<1>3. asg' = [asg EXCEPT ![t] = b]
  BY <1>1 DEF ReassignAssignment
<1>4. ops' = ops + 1
  BY DEF ReassignAssignment, Intervenes
<1> HIDE DEF a
<1>5. DOMAIN b = DOMAIN asg[t] /\ b[i] = a /\ \A j \in DOMAIN asg[t] \ {i} : b[j] = asg[t][j]
  BY <1>1
<1> HIDE DEF b
<1> QED  BY <1>1, <1>2, <1>3, <1>4, <1>5

\* One step keeps all rows, except that an admin may give one to another user or role.
LEMMA RowsKept ==
    ASSUME TypeOK, [Next]_vars
    PROVE  /\ \A t \in TaskIds : \A i \in DOMAIN asg[t] :
                 i \in DOMAIN asg'[t] /\ asg'[t][i].status \in {asg[t][i].status, "done"}
           /\ ops' = ops => \A t \in TaskIds : \A i \in DOMAIN asg[t] : RowKept(t, i)
<1>1. CASE RowsMarked(asg')
  BY <1>1 DEF RowsMarked, RowKept
<1>2. ASSUME NEW t \in TaskIds, NEW a \in Assignment, RowAppended(t, a)
      PROVE  \A r \in TaskIds : \A i \in DOMAIN asg[r] : RowKept(r, i)
  BY <1>2, AppendedRows
<1>3. ASSUME NEW u \in Users, NEW v \in Users, NEW t \in TaskIds, NEW r \in Roles,
             NEW i \in Rows(t), ReassignAssignment(u, t, i, v, r)
      PROVE  /\ ops' # ops
             /\ \A q \in TaskIds : \A j \in DOMAIN asg[q] :
                   j \in DOMAIN asg'[q] /\ asg'[q][j].status = asg[q][j].status
  <2>1. ops' # ops
    BY <1>3, ReassignedRow DEF TypeOK
  <2> QED  BY <1>3, <2>1, ReassignedRow
<1>4. "root" \in TaskIds  BY DEF TaskIds
<1>5. (\A t \in TaskIds : \A i \in DOMAIN asg[t] : RowKept(t, i)) =>
         \A t \in TaskIds : \A i \in DOMAIN asg[t] :
               i \in DOMAIN asg'[t] /\ asg'[t][i].status \in {asg[t][i].status, "done"}
  BY DEF RowKept
<1> QED
  BY <1>1, <1>2, <1>3, <1>4, <1>5, RowsChange, RowTypes

\* An assignment that is done stays done, whoever reassigns, cancels or completes what:
\* no endpoint of the automation service writes an older status over it (WorkStaysDone).
THEOREM AcknowledgedWorkIsKept == Spec => WorkStaysDone
<1>1. TypeOK /\ [Next]_vars => StaysDone
  BY RowsKept DEF StaysDone, Rows
<1> QED  BY <1>1, TypeInit, TypeStep, PTL DEF Spec, WorkStaysDone

-----------------------------------------------------------------------------
(* Who writes the order: ReopenedOnlyByCreation. *)

\* Who writes the order: its creation, and a call that closes it.
LEMMA OrderWriters ==
    ASSUME TypeOK, [Next]_vars
    PROVE  \/ order' = order
           \/ CreateOrder
           \/ RecomputeWrite
           \/ \E c \in Calls : CompleteCommit(c) /\ OrderLock \in tx[c].held /\ order' = "completed"
<1>1. CASE UNCHANGED vars
  BY <1>1 DEF vars
<1>2. CASE Creation
  BY <1>2 DEF Creation, CreateRoot, AssignRequester, RootInProgress, RootReopen,
              CreateRoleTask, OpenRoleTask, RefreshRoleTask, OpenAgain
<1>3. ASSUME NEW u \in Users, NEW t \in TaskIds, ClaimTask(u, t) PROVE order' = order
  BY <1>3 DEF ClaimTask
<1>4. ASSUME NEW c \in Calls, NEW u \in Users, NEW t \in TaskIds, CompleteBegin(c, u, t)
      PROVE  order' = order
  BY <1>4 DEF CompleteBegin
<1>5. ASSUME NEW c \in Calls, Completing(c)
      PROVE  order' = order \/ (CompleteCommit(c) /\ OrderLock \in tx[c].held /\ order' = "completed")
  <2>1. CASE Quietly(c)
    BY <2>1, QuietMoves
  <2>2. CASE ChainCommit(c)
    BY <2>2 DEF ChainCommit
  <2>3. CASE CompleteCommit(c)
    <3>1. order' = OrderAfter(c)  BY <2>3 DEF CompleteCommit
    <3> QED  BY <2>3, <3>1 DEF OrderAfter
  <2> QED  BY <1>5, <2>1, <2>2, <2>3 DEF Completing, Quietly
<1>6. ASSUME NEW c \in Calls, NEW s \in Steps, StepBegin(c, s) PROVE order' = order
  BY <1>6 DEF StepBegin
<1>7. CASE Intervention
  BY <1>7, InterventionFrame
<1>8. CASE Crash
  BY <1>8 DEF Crash
<1> QED
  BY <1>1, <1>2, <1>3, <1>4, <1>5, <1>6, <1>7, <1>8 DEF Next

\* A completed order stays completed, whatever people and admins do; only the write at
\* the end of its own create_order may take it back (ReopenedOnlyByCreation).
THEOREM CompletedIsKept == Spec => ReopenedOnlyByCreation
<1>1. IInv /\ [Next]_vars => StaysCompleted
  <2> SUFFICES ASSUME IInv, [Next]_vars, order = "completed"
               PROVE  order' = "completed" \/ creating.at = "tail"
    BY DEF StaysCompleted
  <2>1. CASE CreateOrder
    BY <2>1 DEF CreateOrder, IInv, CreatedOnce
  <2>2. CASE RecomputeWrite
    BY <2>2 DEF RecomputeWrite
  <2> QED  BY <2>1, <2>2, OrderWriters DEF IInv
<1> QED  BY <1>1, InvInit, InvStep, PTL DEF Spec, ReopenedOnlyByCreation

-----------------------------------------------------------------------------
(* The tasks and the calls in flight. *)

\* What a step does to the calls in flight: it may change one.
LEMMA CallsChange ==
    ASSUME TypeOK, [Next]_vars
    PROVE  \/ tx' = tx
           \/ Crash /\ tx' = [c \in Calls |-> Idle]
           \/ \E c \in Calls :
                 /\ \A d \in Calls \ {c} : tx'[d] = tx[d]
                 /\ \/ \E u \in Users, t \in TaskIds : CompleteBegin(c, u, t)
                    \/ \E s \in Steps : StepBegin(c, s)
                    \/ Completing(c)
                    \/ \E u \in Users : ForceComplete(c, u, "delivery")
<1>1. CASE UNCHANGED vars
  BY <1>1 DEF vars
<1>2. CASE Creation
  BY <1>2 DEF Creation, CreateOrder, CreateRoot, AssignRequester, RootInProgress, RootReopen,
              CreateRoleTask, OpenRoleTask, RefreshRoleTask, OpenAgain, RecomputeWrite
<1>3. ASSUME NEW u \in Users, NEW t \in TaskIds, ClaimTask(u, t) PROVE tx' = tx
  BY <1>3 DEF ClaimTask
<1>4. ASSUME NEW c \in Calls, NEW u \in Users, NEW t \in TaskIds, CompleteBegin(c, u, t)
      PROVE  \A d \in Calls \ {c} : tx'[d] = tx[d]
  BY <1>4, BeginMoves
<1>5. ASSUME NEW c \in Calls, Completing(c)
      PROVE  \A d \in Calls \ {c} : tx'[d] = tx[d]
  BY <1>5, QuietMoves, CommitMoves DEF Completing, Quietly
<1>6. ASSUME NEW c \in Calls, NEW s \in Steps, StepBegin(c, s)
      PROVE  \A d \in Calls \ {c} : tx'[d] = tx[d]
  BY <1>6, BeginMoves
<1>7. CASE Intervention
  <2>1. PICK u \in Users, t \in TaskIds :
          \/ OverrideClaim(u, t)
          \/ CancelTask(u, t)
          \/ \E c \in Calls : ForceComplete(c, u, t)
          \/ \E v \in Users : ReassignTask(u, t, v)
          \/ \E v \in Users, r \in Roles : AssignUser(u, t, v, r)
          \/ \E i \in Rows(t), v \in Users, r \in Roles : ReassignAssignment(u, t, i, v, r)
    BY <1>7 DEF Intervention
  <2>2. ASSUME NEW c \in Calls, ForceComplete(c, u, t)
        PROVE  tx' = tx \/ (t = "delivery" /\ \A d \in Calls \ {c} : tx'[d] = tx[d])
    BY <2>2, BeginMoves DEF ForceComplete
  <2>3. CASE ~\E c \in Calls : ForceComplete(c, u, t)
    BY <2>1, <2>3 DEF OverrideClaim, CancelTask, ReassignTask, AssignUser, ReassignAssignment
  <2>4. CASE \E c \in Calls : ForceComplete(c, u, t)
    BY <2>2, <2>4
  <2> QED  BY <2>3, <2>4
<1>8. CASE Crash
  BY <1>8 DEF Crash
<1> QED
  BY <1>1, <1>2, <1>3, <1>4, <1>5, <1>6, <1>7, <1>8 DEF Next

\* A call goes on after the chain with nothing in its hands.
ChainGoesOn(c) ==
    /\ ChainCommit(c) /\ tx[c].pc = "chain" /\ tx'[c].pc = "root" /\ tx'[c].marks = {}
    /\ tx'[c].won = FALSE /\ tx'[c].held = {}
    /\ tx'[c].user = tx[c].user /\ tx'[c].task = tx[c].task /\ tx'[c].row = tx[c].row
    /\ tx'[c].role = tx[c].role /\ tx'[c].step = tx[c].step
    /\ tx'[c].due = tx[c].due /\ tx'[c].left = tx[c].left /\ tx'[c].closed = tx[c].closed

\* The record of a call begins, moves on, or is empty again.
LEMMA CallEvolves ==
    ASSUME TypeOK, [Next]_vars, NEW c \in Calls
    PROVE  \/ tx'[c] = tx[c]
           \/ tx'[c] = Idle
           \/ \E u \in Users, t \in TaskIds : CompleteBegin(c, u, t)
           \/ \E s \in Steps : StepBegin(c, s)
           \/ \E u \in Users : ForceComplete(c, u, "delivery")
           \/ Quietly(c) /\ Moves(c)
           \/ ChainGoesOn(c)
<1>1. CASE Completing(c)
  <2>1. CASE Quietly(c)  BY <2>1, QuietMoves
  <2>2. CASE ChainCommit(c) \/ CompleteCommit(c)  BY <2>2, CommitMoves DEF ChainGoesOn
  <2> QED  BY <1>1, <2>1, <2>2 DEF Completing, Quietly
<1> QED  BY <1>1, CallsChange

RoleTasks == TaskIds \ {"root"}

\* Where a call without an assignment may be, and where one of an admin is.
Parents == {"parent", "parent_task", "parent_rows"}
Direct  == {"idle", "engine", "delivering", "commit"} \cup Parents

\* A call is for a task that is there, and it closes such.
CallFits(r) ==
    /\ r.row # 0 \/ r.pc \in Parents => Exists("root")
    /\ r.row = 0 => r.pc \in Direct
    /\ r.pc \in Parents => r.row = 0
    /\ r.pc = "cascade" => r.left # {}
    /\ \A t \in r.closed \cup r.left : Exists(t)

\* A task is there before its rows, its claim and the calls for it, the root task before
\* those of the roles.
TasksExist ==
    /\ \A t \in TaskIds : Rows(t) # {} => Exists(t)
    /\ \A t \in TaskIds : ~Exists(t) => task[t].claimedBy = Nobody
    /\ \A t \in RoleTasks : Exists(t) => Exists("root")
    /\ \A c \in Calls : CallFits(tx[c])

\* How far the creation is.
CreationInOrder ==
    /\ creating.at \notin {"start", "root", "failed"} => Exists("root")
    /\ creating.at \in {"start", "root", "root_requester", "root_progress", "root_reopen"} =>
           \A t \in RoleTasks : ~Exists(t)
    /\ creating.at \in {"role", "role_open", "role_refresh", "role_again"} =>
           /\ creating.role \in RoleTasks
           /\ creating.role = "foreman" => ~Exists("delivery")
    /\ creating.at = "role" => ~Exists(creating.role)

TasksOK == TasksExist /\ CreationInOrder

\* Outside the creation nothing brings a task into being.
LEMMA TasksStay ==
    ASSUME TypeOK, TasksOK, [Next]_vars, ~Creation
    PROVE  \A t \in TaskIds : /\ Exists(t)' <=> Exists(t)
                              /\ ~Exists(t) => task'[t].claimedBy = Nobody
<1>0. /\ task \in [TaskIds -> [status : TaskStatus, claimedBy : Users \cup {Nobody}]]
      /\ \A t \in TaskIds : ~Exists(t) => task[t].claimedBy = Nobody
  BY DEF TypeOK, TasksOK, TasksExist
<1>1. CASE task' = task
  BY <1>0, <1>1 DEF Exists
<1>2. ASSUME NEW T \in SUBSET TaskIds, T \subseteq {t \in TaskIds : Exists(t)}, task' = CloseTasks(T)
      PROVE  \A t \in TaskIds : /\ Exists(t)' <=> Exists(t)
                                /\ ~Exists(t) => task'[t].claimedBy = Nobody
  <2> SUFFICES ASSUME NEW t \in TaskIds
               PROVE  /\ Exists(t)' <=> Exists(t)
                      /\ ~Exists(t) => task'[t].claimedBy = Nobody
    OBVIOUS
  <2>1. task'[t] = IF t \in T THEN [task[t] EXCEPT !.status = "completed"] ELSE task[t]
    BY <1>2 DEF CloseTasks
  <2>2. CASE t \in T
    <3>1. Exists(t) /\ task'[t].status = "completed"
      BY <1>0, <1>2, <2>1, <2>2
    <3> QED  BY <3>1 DEF Exists
  <2>3. CASE t \notin T
    BY <1>0, <2>1, <2>3 DEF Exists
  <2> QED  BY <2>2, <2>3
<1>3. ASSUME NEW t \in TaskIds, Exists(t), NEW x \in [status : TaskStatus, claimedBy : Users \cup {Nobody}],
             x.status # "absent", task' = [task EXCEPT ![t] = x]
      PROVE  \A r \in TaskIds : /\ Exists(r)' <=> Exists(r)
                                /\ ~Exists(r) => task'[r].claimedBy = Nobody
  BY <1>0, <1>3 DEF Exists
<1>4. ASSUME NEW u \in Users, NEW t \in TaskIds, ClaimTask(u, t) \/ OverrideClaim(u, t)
      PROVE  \A r \in TaskIds : /\ Exists(r)' <=> Exists(r)
                                /\ ~Exists(r) => task'[r].claimedBy = Nobody
  <2>1. Exists(t)
    BY <1>0, <1>4, UsersAssumption DEF ClaimTask, OverrideClaim, Claimable, Exists
  <2>2. task' = [task EXCEPT ![t] = [status |-> "claimed", claimedBy |-> u]]
    BY <1>4 DEF ClaimTask, OverrideClaim
  <2> QED  BY <1>3, <2>1, <2>2 DEF TaskStatus
<1>5. ASSUME NEW t \in TaskIds, Exists(t), NEW s \in TaskStatus \ {"absent"},
             task' = [task EXCEPT ![t].status = s]
      PROVE  \A r \in TaskIds : /\ Exists(r)' <=> Exists(r)
                                /\ ~Exists(r) => task'[r].claimedBy = Nobody
  <2> DEFINE x == [task[t] EXCEPT !.status = s]
  <2>1. x \in [status : TaskStatus, claimedBy : Users \cup {Nobody}] /\ x.status # "absent"
    BY <1>0, <1>5
  <2>2. task' = [task EXCEPT ![t] = x]
    BY <1>0, <1>5
  <2> HIDE DEF x
  <2> QED  BY <1>3, <1>5, <2>1, <2>2
<1>6. ASSUME NEW c \in Calls, Completing(c)
      PROVE  \A r \in TaskIds : /\ Exists(r)' <=> Exists(r)
                                /\ ~Exists(r) => task'[r].claimedBy = Nobody
  <2>1. CASE Quietly(c)
    BY <1>1, <2>1, QuietMoves
  <2>2. CASE ChainCommit(c)
    BY <1>1, <2>2 DEF ChainCommit
  <2>3. CASE CompleteCommit(c)
    <3>1. tx[c].closed \in SUBSET TaskIds
      BY DEF TypeOK, Call
    <3>2. tx[c].closed \subseteq {t \in TaskIds : Exists(t)}
      BY <3>1 DEF TasksOK, TasksExist, CallFits
    <3> QED  BY <1>2, <2>3, <3>1, <3>2 DEF CompleteCommit
  <2> QED  BY <1>6, <2>1, <2>2, <2>3 DEF Completing, Quietly
<1>8. CASE Intervention
  <2>1. PICK u \in Users, t \in TaskIds :
          \/ OverrideClaim(u, t)
          \/ CancelTask(u, t)
          \/ \E c \in Calls : ForceComplete(c, u, t)
          \/ \E v \in Users : ReassignTask(u, t, v)
          \/ \E v \in Users, r \in Roles : AssignUser(u, t, v, r)
          \/ \E i \in Rows(t), v \in Users, r \in Roles : ReassignAssignment(u, t, i, v, r)
    BY <1>8 DEF Intervention
  <2>2. CASE OverrideClaim(u, t)
    BY <1>4, <2>2
  <2>3. CASE CancelTask(u, t)
    BY <1>5, <2>3 DEF CancelTask, TaskStatus
  <2>4. ASSUME NEW c \in Calls, ForceComplete(c, u, t)
        PROVE  Exists(t) /\ task' = [task EXCEPT ![t].status = "completed"]
    BY <2>4 DEF ForceComplete
  <2>5. CASE \E c \in Calls : ForceComplete(c, u, t)
    BY <1>5, <2>4, <2>5 DEF TaskStatus
  <2>6. ASSUME NEW v \in Users, ReassignTask(u, t, v)
        PROVE  \A r \in TaskIds : /\ Exists(r)' <=> Exists(r)
                                  /\ ~Exists(r) => task'[r].claimedBy = Nobody
    <3> DEFINE x == [task[t] EXCEPT !.claimedBy = v]
    <3>1. Exists(t)  BY <2>6 DEF ReassignTask
    <3>2. x \in [status : TaskStatus, claimedBy : Users \cup {Nobody}] /\ x.status # "absent"
      BY <1>0, <3>1 DEF Exists
    <3>3. task' = [task EXCEPT ![t] = x]
      BY <1>0, <2>6 DEF ReassignTask
    <3> HIDE DEF x
    <3> QED  BY <1>3, <3>1, <3>2, <3>3
  <2>7. ASSUME NEW v \in Users, NEW r \in Roles, AssignUser(u, t, v, r)
        PROVE  Exists(t) /\ (task' = task \/ task' = [task EXCEPT ![t].status = "in_progress"])
    BY <2>7 DEF AssignUser
  <2>8. CASE \E v \in Users, r \in Roles : AssignUser(u, t, v, r)
    BY <1>1, <1>5, <2>7, <2>8 DEF TaskStatus
  <2>9. ASSUME NEW v \in Users, NEW r \in Roles, NEW i \in Rows(t), ReassignAssignment(u, t, i, v, r)
        PROVE  task' = task
    BY <2>9 DEF ReassignAssignment
  <2> QED  BY <1>1, <2>1, <2>2, <2>3, <2>5, <2>6, <2>8, <2>9
<1>9. CASE \/ UNCHANGED vars \/ Crash \/ \E c \in Calls, s \in Steps : StepBegin(c, s)
           \/ \E c \in Calls, u \in Users, t \in TaskIds : CompleteBegin(c, u, t)
  BY <1>1, <1>9 DEF vars, Crash, StepBegin, CompleteBegin
<1> QED
  BY <1>4, <1>6, <1>8, <1>9 DEF Next

\* Before the order exists there are no tasks.\* Before the order exists there are no tasks.
LEMMA TasksInit == Init => TasksOK
<1> SUFFICES ASSUME Init PROVE TasksOK
  OBVIOUS
<1>1. \A t \in TaskIds : Rows(t) = {} /\ ~Exists(t) /\ task[t].claimedBy = Nobody
  BY DEF Init, Rows, Exists
<1>2. \A c \in Calls : CallFits(tx[c])
  BY IdleType DEF Init, CallFits, Direct, Parents
<1> QED
  BY <1>1, <1>2 DEF Init, TasksOK, TasksExist, CreationInOrder, RoleTasks

\* Which rows and calls there may be after a step.
\* Which rows and calls there may be after a step.
LEMMA RowsNeedTask ==
    ASSUME TypeOK, TasksOK, [Next]_vars
    PROVE  \A t \in TaskIds : Rows(t)' # {} => Exists(t)
<1>0. /\ "root" \in TaskIds
      /\ \A t \in TaskIds : Rows(t) # {} => Exists(t)
      /\ \A t \in TaskIds : ~Exists(t) => task[t].claimedBy = Nobody
  BY DEF TaskIds, TasksOK, TasksExist
<1>1. CASE RowsMarked(asg')
  BY <1>0, <1>1 DEF RowsMarked, Rows
<1>2. ASSUME NEW t \in TaskIds, Exists(t), NEW a \in Assignment, RowAppended(t, a)
      PROVE  \A r \in TaskIds : Rows(r)' # {} => Exists(r)
  BY <1>0, <1>2, AppendedRows DEF Rows
<1>3. AssignRequester => Exists("root")
  BY DEF AssignRequester, TasksOK, CreationInOrder
<1>4. \A u \in Users, t \in TaskIds : ClaimTask(u, t) => Exists(t)
  BY DEF ClaimTask, Claimable, Exists
<1>5. \A u, v \in Users, t \in TaskIds, r \in Roles : AssignUser(u, t, v, r) => Exists(t)
  BY DEF AssignUser
<1>6. ASSUME NEW u \in Users, NEW v \in Users, NEW t \in TaskIds, NEW r \in Roles,
             NEW i \in Rows(t), ReassignAssignment(u, t, i, v, r)
      PROVE  \A q \in TaskIds : Rows(q)' = Rows(q)
  BY <1>6, ReassignedRow DEF Rows
<1> QED
  BY <1>0, <1>1, <1>2, <1>3, <1>4, <1>5, <1>6, RowsChange, RowTypes

\* Each of the quiet steps keeps its call at a task that is there.
LEMMA FitMoves ==
    ASSUME TypeOK, NEW c \in Calls, CallFits(tx[c]), Moves(c)
    PROVE  CallFits(tx'[c])
<1> DEFINE r == tx[c]
           n == tx'[c]
<1>0. r.left \in SUBSET {"foreman", "delivery"}
  BY DEF TypeOK, Call
<1>1. CASE /\ n.row = r.row /\ n.pc # "cascade" /\ n.closed = r.closed /\ n.left = r.left
           /\ (r.pc \in Direct => n.pc \in Direct) /\ (n.pc \in Parents => r.pc \in Parents)
  BY <1>1 DEF CallFits
<1>2. CASE Acquire(c) /\ \E l \in Needs(c) : n = [r EXCEPT !.held = @ \cup {l}]
  <2>1. r \in Call  BY DEF TypeOK
  <2>2. /\ n.row = r.row /\ n.pc = r.pc /\ n.closed = r.closed /\ n.left = r.left
    BY <1>2, <2>1 DEF Call
  <2> QED  BY <2>2 DEF CallFits
<1>3. CASE r.pc = "closing" /\ RecordAt(c, IF Cascaded = {} THEN "commit" ELSE "cascade")
           /\ n.closed = {"root"} /\ n.left = Cascaded
  <2>1. r.row # 0 /\ n.row = r.row /\ Exists("root")
    BY <1>3 DEF RecordAt, CallFits, Direct, Parents
  <2>2. \A t \in Cascaded : Exists(t)
    BY DEF Cascaded, Exists
  <2>3. n.pc \in {"commit", "cascade"} /\ (n.pc = "cascade" => n.left # {})
    BY <1>3 DEF RecordAt
  <2> QED  BY <1>3, <2>1, <2>2, <2>3 DEF CallFits, Parents
<1>4. CASE /\ r.pc = "cascade" /\ n.closed = r.closed \cup {NextLeft(c)}
           /\ n.left = r.left \ {NextLeft(c)}
           /\ RecordAt(c, IF r.left \ {NextLeft(c)} = {} THEN "commit" ELSE "cascade")
  <2>1. r.row # 0 /\ n.row = r.row /\ Exists("root") /\ NextLeft(c) \in r.left
    BY <1>0, <1>4 DEF RecordAt, CallFits, Direct, Parents, NextLeft
  <2>2. n.pc \in {"commit", "cascade"} /\ (n.pc = "cascade" => n.left # {})
    BY <1>4 DEF RecordAt
  <2> QED  BY <1>4, <2>1, <2>2 DEF CallFits, Parents
<1>5. CASE r.pc = "parent_task" /\ RecordAt(c, "parent_rows") /\ n.closed = {"root"}
  <2>1. r.row = 0 /\ n.row = r.row /\ n.pc = "parent_rows" /\ Exists("root") /\ n.left = r.left
    BY <1>5 DEF RecordAt, CallFits, Parents
  <2> QED  BY <1>5, <2>1 DEF CallFits, Parents, Direct
<1>6. CASE r.pc \in {"engine", "delivering"} /\ n.pc \in {"delivering", AfterEngine(c)} /\ RecordAt(c, n.pc)
  <2>1. n.row = r.row /\ n.closed = r.closed /\ n.left = r.left /\ n.pc \in {"delivering", "commit", "chain", "root"}
        /\ (r.row = 0 => n.pc \in {"delivering", "commit"})
    BY <1>6 DEF RecordAt, AfterEngine
  <2> QED  BY <2>1 DEF CallFits, Parents, Direct
<1>7. CASE /\ r.pc \in {"read", "acking", "marking", "noting", "root"}
           /\ n.pc \in {"acking", "marking", "noting", "engine", "root", "closing", "commit"} /\ RecordAt(c, n.pc)
  <2>1. n.row = r.row /\ n.closed = r.closed /\ n.left = r.left /\ r.row # 0
    BY <1>7 DEF RecordAt, CallFits, Direct, Parents
  <2> QED  BY <1>7, <2>1 DEF CallFits, Parents
<1>8. CASE /\ r.pc \in {"parent", "parent_rows"} /\ n.pc \in {"parent_task", "commit"} /\ RecordAt(c, n.pc)
  <2>1. n.row = r.row /\ n.closed = r.closed /\ n.left = r.left /\ r.row = 0
    BY <1>8 DEF RecordAt, CallFits, Parents
  <2> QED  BY <1>8, <2>1 DEF CallFits, Parents, Direct
<1> HIDE DEF r, n
<1> QED  BY <1>2, <1>3, <1>4, <1>5, <1>6, <1>7, <1>8 DEF Moves, RecordAt, r, n

\* No call is for a task that is not there.
LEMMA CallsNeedTasks ==
    ASSUME TypeOK, TasksOK, [Next]_vars, NEW c \in Calls
    PROVE  CallFits(tx'[c])
<1>0. CallFits(tx[c]) /\ CallFits(Idle)
  BY IdleType DEF TasksOK, TasksExist, CallFits, Direct, Parents
<1>1. ASSUME NEW u \in Users, NEW t \in TaskIds, CompleteBegin(c, u, t)
      PROVE  CallFits(tx'[c])
  <2>1. /\ tx'[c].row # 0 /\ tx'[c].row \in Rows(t) /\ tx'[c].pc = "read"
        /\ tx'[c].closed = {} /\ tx'[c].left = {}
    BY <1>1, BeginMoves
  <2>2. Exists(t)  BY <2>1 DEF TasksOK, TasksExist
  <2>3. Exists("root")  BY <2>2 DEF TasksOK, TasksExist, RoleTasks
  <2> QED  BY <2>1, <2>3 DEF CallFits, Parents
<1>2. ASSUME NEW s \in Steps, StepBegin(c, s) PROVE CallFits(tx'[c])
  <2>1. tx'[c].row = 0 /\ tx'[c].pc = "engine" /\ tx'[c].closed = {} /\ tx'[c].left = {}
    BY <1>2, BeginMoves
  <2> QED  BY <2>1 DEF CallFits, Direct, Parents
<1>3. ASSUME NEW u \in Users, ForceComplete(c, u, "delivery") PROVE CallFits(tx'[c])
  <2>1. Exists("root")
    BY <1>3 DEF ForceComplete, TasksOK, TasksExist, RoleTasks, TaskIds
  <2>2. tx'[c] = tx[c] \/ (/\ tx'[c].row = 0 /\ tx'[c].pc = "parent"
                           /\ tx'[c].closed = {} /\ tx'[c].left = {})
    BY <1>3, BeginMoves DEF TaskIds
  <2> QED  BY <1>0, <2>1, <2>2 DEF CallFits, Direct, Parents
<1>4. CASE ChainGoesOn(c)
  <2>1. tx[c].row # 0 /\ tx'[c].row # 0 /\ tx'[c].pc = "root" /\ tx'[c].closed = tx[c].closed
        /\ tx'[c].left = tx[c].left
    BY <1>0, <1>4 DEF ChainGoesOn, CallFits, Direct, Parents
  <2> QED  BY <1>0, <2>1 DEF CallFits, Parents
<1> QED  BY <1>0, <1>1, <1>2, <1>3, <1>4, FitMoves, CallEvolves

\* It stays so when the tasks that are there stay.
LEMMA CallsStayFit ==
    ASSUME TypeOK', \A c \in Calls : CallFits(tx'[c]), \A t \in TaskIds : Exists(t) => Exists(t)'
    PROVE  \A c \in Calls : CallFits(tx[c])'
<1> SUFFICES ASSUME NEW c \in Calls PROVE CallFits(tx[c])'
  OBVIOUS
<1>1. /\ tx'[c].closed \in SUBSET TaskIds /\ tx'[c].left \in SUBSET TaskIds /\ "root" \in TaskIds
  BY DEF TypeOK, Call, TaskIds
<1> QED  BY <1>1 DEF CallFits

\* The creation's own places.
LEMMA CreationMoves ==
    ASSUME TypeOK, [Next]_vars, ~Creation
    PROVE  creating' = creating \/ (Crash /\ creating'.at = "failed")
<1>1. CASE Crash  BY <1>1 DEF Crash, Goto
<1>2. CASE Intervention  BY <1>2, InterventionFrame
<1>3. ASSUME NEW c \in Calls, Completing(c) PROVE creating' = creating
  BY <1>3, QuietMoves, CommitMoves DEF Completing, Quietly
<1>4. CASE \/ UNCHANGED vars
           \/ \E u \in Users, t \in TaskIds : ClaimTask(u, t)
           \/ \E c \in Calls, u \in Users, t \in TaskIds : CompleteBegin(c, u, t)
           \/ \E c \in Calls, s \in Steps : StepBegin(c, s)
  BY <1>4 DEF vars, ClaimTask, CompleteBegin, StepBegin
<1> QED  BY <1>1, <1>2, <1>3, <1>4 DEF Next

\* Every step keeps the order in which tasks, rows and calls come to be.
LEMMA TasksStep == TypeOK /\ TasksOK /\ [Next]_vars => TasksOK'
<1> SUFFICES ASSUME TypeOK, TasksOK, [Next]_vars PROVE TasksOK'
  OBVIOUS
<1>0. /\ task \in [TaskIds -> [status : TaskStatus, claimedBy : Users \cup {Nobody}]]
      /\ "root" \in TaskIds /\ FirstRole \in RoleTasks /\ RoleTasks \subseteq TaskIds
      /\ creating.role \in TaskIds
  BY DEF TypeOK, TaskIds, RoleTasks, FirstRole
<1>1. (\A t \in TaskIds : Rows(t)' # {} => Exists(t)) /\ \A c \in Calls : CallFits(tx'[c])
  BY RowsNeedTask, CallsNeedTasks
<1>a. TypeOK'
  BY TypeStep
<1>2. CASE ~Creation
  <2>1. \A t \in TaskIds : /\ Exists(t)' <=> Exists(t)
                           /\ ~Exists(t) => task'[t].claimedBy = Nobody
    BY <1>2, TasksStay
  <2>2. TasksExist'
    BY <1>0, <1>1, <1>a, <2>1, CallsStayFit DEF TasksOK, TasksExist
  <2>3. creating' = creating \/ creating'.at = "failed"
    BY <1>2, CreationMoves
  <2>4. CreationInOrder'
    <3>1. CASE creating'.at = "failed"
      BY <3>1 DEF CreationInOrder
    <3>2. CASE creating' = creating
      <4>1. PICK r \in TaskIds : r = creating.role
        BY <1>0
      <4>2. /\ Exists("root") <=> Exists("root")'
            /\ Exists("delivery") <=> Exists("delivery")'
            /\ Exists(r) <=> Exists(r)'
            /\ (\A t \in RoleTasks : ~Exists(t)) <=> \A t \in RoleTasks : ~Exists(t)'
        BY <1>0, <2>1 DEF TaskIds
      <4> QED
        BY <3>2, <4>1, <4>2 DEF TasksOK, CreationInOrder
    <3> QED  BY <2>3, <3>1, <3>2
  <2> QED  BY <2>2, <2>4 DEF TasksOK
<1>3. ASSUME task' = task, creating'.at \notin {"role_open", "role_refresh", "role_again"}, creating'.at = "role" => creating.at \in {"root_reopen"},
             creating'.at = "role" => creating'.role = FirstRole,
             creating'.at \notin {"start", "root", "failed"} => creating.at \notin {"start", "root", "failed"},
             creating'.at \in {"start", "root", "root_requester", "root_progress", "root_reopen"} =>
             creating.at \in {"start", "root", "root_requester", "root_progress", "root_reopen"}
      PROVE  TasksOK'
  <2>1. \A t : Exists(t)' <=> Exists(t)
    BY <1>3 DEF Exists
  <2>2. TasksExist'
    BY <1>0, <1>1, <1>3, <1>a, <2>1, CallsStayFit DEF TasksOK, TasksExist
  <2>3. CreationInOrder'
    BY <1>0, <1>3, <2>1 DEF TasksOK, CreationInOrder, RoleTasks, FirstRole, TaskIds
  <2> QED  BY <2>2, <2>3 DEF TasksOK
<1>4. ASSUME NEW t \in TaskIds, NEW x \in [status : TaskStatus, claimedBy : Users \cup {Nobody}],
             x.status # "absent", task' = [task EXCEPT ![t] = x]
      PROVE  Exists(t)' /\ \A r \in TaskIds \ {t} : Exists(r)' <=> Exists(r)
  BY <1>0, <1>4 DEF Exists
<1>5. CASE CreateOrder \/ AssignRequester \/ RecomputeWrite
  BY <1>3, <1>5 DEF CreateOrder, AssignRequester, RecomputeWrite, Goto
<1>6. CASE CreateRoot \/ RootInProgress \/ RootReopen
  <2> DEFINE x == IF RootInProgress THEN [task["root"] EXCEPT !.status = "in_progress"]
                  ELSE [status |-> "open", claimedBy |-> Nobody]
  <2>1. x \in [status : TaskStatus, claimedBy : Users \cup {Nobody}] /\ x.status # "absent"
    BY <1>0 DEF TaskStatus
  <2>2. task' = [task EXCEPT !["root"] = x]
    BY <1>0, <1>6 DEF CreateRoot, RootInProgress, RootReopen
  <2> HIDE DEF x
  <2>3. Exists("root")' /\ \A r \in TaskIds \ {"root"} : Exists(r)' <=> Exists(r)
    BY <1>0, <1>4, <2>1, <2>2
  <2>4. \A r \in TaskIds \ {"root"} : task'[r] = task[r]
    BY <1>0, <2>2
  <2>5. TasksExist'
    BY <1>0, <1>1, <1>a, <2>3, <2>4, CallsStayFit DEF TasksOK, TasksExist, RoleTasks
  <2>6. /\ creating.at \in {"root", "root_progress", "root_reopen"}
        /\ \/ creating'.at \in {"root_requester", "root_reopen"}
           \/ creating' = [at |-> "role", role |-> FirstRole]
    BY <1>6 DEF CreateRoot, RootInProgress, RootReopen, Goto
  <2>7. CreationInOrder'
    BY <1>0, <2>3, <2>6 DEF TasksOK, CreationInOrder, RoleTasks, FirstRole, TaskIds
  <2> QED  BY <2>5, <2>7 DEF TasksOK
<1>7. CASE CreateRoleTask \/ OpenRoleTask \/ OpenAgain
  <2> PICK r \in RoleTasks : r = creating.role
    BY <1>0, <1>7 DEF CreateRoleTask, OpenRoleTask, OpenAgain, TasksOK, CreationInOrder
  <2> DEFINE x == IF CreateRoleTask THEN [status |-> "pending", claimedBy |-> Nobody]
                  ELSE [task[r] EXCEPT !.status = "open"]
  <2>0. r \in RoleTasks /\ r \in TaskIds /\ Exists("root") /\ creating.at \in {"role", "role_open", "role_again"}
        /\ (r = "foreman" => ~Exists("delivery"))
    BY <1>0, <1>7 DEF CreateRoleTask, OpenRoleTask, OpenAgain, TasksOK, CreationInOrder
  <2>1. x \in [status : TaskStatus, claimedBy : Users \cup {Nobody}] /\ x.status # "absent"
    BY <1>0 DEF TaskStatus
  <2>2. task' = [task EXCEPT ![r] = x]
    BY <1>0, <1>7 DEF CreateRoleTask, OpenRoleTask, OpenAgain
  <2> HIDE DEF x
  <2>3. Exists(r)' /\ \A q \in TaskIds \ {r} : Exists(q)' <=> Exists(q)
    BY <2>0, <1>4, <2>1, <2>2
  <2>4. \A q \in TaskIds \ {r} : task'[q] = task[q]
    BY <1>0, <2>2
  <2>5. TasksExist'
    BY <1>0, <1>1, <1>a, <2>0, <2>3, <2>4, CallsStayFit DEF TasksOK, TasksExist, RoleTasks
  <2>6. \/ creating' = [at |-> "role_open", role |-> r]
        \/ creating' = [at |-> "role_refresh", role |-> r]
        \/ creating' = [at |-> "role", role |-> "delivery"] /\ r = "foreman"
        \/ creating'.at = "tail"
    BY <1>7 DEF CreateRoleTask, OpenRoleTask, OpenAgain, AfterRole, Goto
  <2>7. "delivery" # r => (Exists("delivery")' <=> Exists("delivery"))
    BY <2>3 DEF TaskIds
  <2>8. Exists("root")'
    BY <2>0, <2>3 DEF TaskIds, RoleTasks
  <2>9. CreationInOrder'
    BY <2>0, <2>6, <2>7, <2>8 DEF CreationInOrder, RoleTasks, TaskIds
  <2> QED  BY <2>5, <2>9 DEF TasksOK
<1>8. CASE RefreshRoleTask
  <2>1. \A t : Exists(t)' <=> Exists(t)
    BY <1>8 DEF RefreshRoleTask, Exists
  <2>2. task' = task
    BY <1>8 DEF RefreshRoleTask
  <2>3. TasksExist'
    BY <1>0, <1>1, <1>a, <2>1, <2>2, CallsStayFit DEF TasksOK, TasksExist
  <2> PICK r \in RoleTasks : r = creating.role
    BY <1>0, <1>8 DEF RefreshRoleTask, TasksOK, CreationInOrder
  <2>4. /\ creating.at = "role_refresh" /\ Exists("root") /\ (r = "foreman" => ~Exists("delivery"))
        /\ \/ creating' = [at |-> "role_again", role |-> r]
           \/ creating' = [at |-> "role", role |-> "delivery"] /\ r = "foreman"
           \/ creating'.at = "tail"
    BY <1>8 DEF RefreshRoleTask, AfterRole, Goto, TasksOK, CreationInOrder
  <2>5. CreationInOrder'
    BY <2>1, <2>4 DEF CreationInOrder, RoleTasks, TaskIds
  <2> QED  BY <2>3, <2>5 DEF TasksOK
<1> QED
  BY <1>2, <1>5, <1>6, <1>7, <1>8 DEF Creation

-----------------------------------------------------------------------------

-----------------------------------------------------------------------------
(* The last delivery closes a retail order: DeliveryClosesRetail. *)

\* While a call holds a step it has completed, no one else changes the steps.
LEMMA WinnerFreezesSteps ==
    ASSUME IInv, [Next]_vars, NEW c \in Calls, tx[c].won, tx'[c].won
    PROVE  step' = step
<1>0. /\ TypeOK /\ StepInv /\ StillActive(tx[c].step) /\ tx[c].step \in Steps
      /\ StepLock(tx[c].step) \in tx[c].held
      /\ order # "absent" /\ creating.at # "start"
  <2>1. TypeOK /\ StepInv /\ StillActive(tx[c].step) /\ tx[c].pc # "idle"
        /\ StepLock(tx[c].step) \in tx[c].held
    BY DEF IInv, StepInv, WinnersHoldActive, Winning
  <2>2. tx[c].step \in Steps
    BY <2>1 DEF StillActive, TypeOK, Call
  <2>3. order # "absent"
    BY <2>1 DEF IInv, Unborn
  <2> QED  BY <2>1, <2>2, <2>3 DEF IInv, CreatedOnce
<1>1. CASE UNCHANGED vars
  BY <1>1 DEF vars
<1>2. CASE Creation
  BY <1>0, <1>2 DEF Creation, CreateOrder, CreateRoot, AssignRequester, RootInProgress, RootReopen,
              CreateRoleTask, OpenRoleTask, RefreshRoleTask, OpenAgain, RecomputeWrite
<1>3. ASSUME NEW d \in Calls, ChainCommit(d) \/ CompleteCommit(d)
      PROVE  step' = step
  <2>1. step' = StepsAfter(d) /\ tx'[d].won = FALSE
    BY <1>0, <1>3, CommitMoves
  <2>2. ~tx[d].won
    <3> SUFFICES ASSUME tx[d].won PROVE FALSE
      OBVIOUS
    <3>1. tx[d].step \in Steps
      BY <1>0 DEF StepInv, WinnersHoldActive, StillActive, TypeOK, Call
    <3>2. c = d
      BY <1>0, <3>1, WinnersAreOne
    <3> QED  BY <2>1, <3>2
  <2> QED  BY <2>1, <2>2 DEF StepsAfter
<1>4. ASSUME NEW d \in Calls, Completing(d)
      PROVE  step' = step
  <2>1. CASE Quietly(d)
    BY <1>0, <2>1, QuietMoves
  <2> QED  BY <1>3, <1>4, <2>1 DEF Completing, Quietly
<1>5. ASSUME NEW d \in Calls, NEW s \in Steps, StepBegin(d, s) PROVE step' = step
  BY <1>5 DEF StepBegin
<1>6. ASSUME NEW u \in Users, NEW t \in TaskIds, ClaimTask(u, t) PROVE step' = step
  BY <1>6 DEF ClaimTask
<1>7. ASSUME NEW d \in Calls, NEW u \in Users, NEW t \in TaskIds, CompleteBegin(d, u, t)
      PROVE  step' = step
  BY <1>7 DEF CompleteBegin
<1>8. CASE Intervention
  BY <1>0, <1>8, InterventionFrame
<1>9. CASE Crash
  BY <1>9 DEF Crash
<1> QED
  BY <1>1, <1>2, <1>4, <1>5, <1>6, <1>7, <1>8, <1>9 DEF Next

\* A call whose record is what a begin makes of it.
LEMMA BegunCall ==
    ASSUME TypeOK, NEW c \in Calls,
           \/ \E u \in Users, t \in TaskIds : CompleteBegin(c, u, t)
           \/ \E s \in Steps : StepBegin(c, s)
           \/ \E u \in Users : ForceComplete(c, u, "delivery")
    PROVE  \/ tx'[c] = tx[c]
           \/ /\ tx'[c].pc \in {"read", "engine", "parent"} /\ ~tx'[c].won /\ tx[c].pc = "idle"
              /\ tx'[c].held = {} /\ tx'[c].marks = {} /\ tx'[c].due = {}
              /\ tx'[c].left = {} /\ tx'[c].closed = {}
<1> DEFINE P(pc) == /\ tx'[c].pc = pc /\ ~tx'[c].won /\ tx[c].pc = "idle"
                    /\ tx'[c].held = {} /\ tx'[c].marks = {} /\ tx'[c].due = {}
                    /\ tx'[c].left = {} /\ tx'[c].closed = {}
<1>1. ASSUME NEW u \in Users, NEW t \in TaskIds, CompleteBegin(c, u, t)
      PROVE  P("read")
  BY <1>1, BeginMoves
<1>2. ASSUME NEW s \in Steps, StepBegin(c, s)
      PROVE  P("engine")
  BY <1>2, BeginMoves
<1>3. ASSUME NEW u \in Users, ForceComplete(c, u, "delivery")
      PROVE  tx'[c] = tx[c] \/ P("parent")
  BY <1>3, BeginMoves DEF TaskIds
<1> QED  BY <1>1, <1>2, <1>3

\* A call that is about to write something takes the lock.
LEMMA TakesOrderLock ==
    ASSUME NEW c \in Calls, tx[c].pc = "closing", LocksTaken(c)
    PROVE  OrderLock \in tx'[c].held
BY WritesAt DEF LocksTaken, Needs

\* Acquiring a lock changes nothing else.
LEMMA AcquiredCall ==
    ASSUME TypeOK, NEW c \in Calls, \E l \in Needs(c) : tx'[c] = [tx[c] EXCEPT !.held = @ \cup {l}]
    PROVE  /\ tx'[c].pc = tx[c].pc /\ tx'[c].user = tx[c].user /\ tx'[c].task = tx[c].task
           /\ tx'[c].row = tx[c].row /\ tx'[c].role = tx[c].role /\ tx'[c].step = tx[c].step
           /\ tx'[c].due = tx[c].due /\ tx'[c].marks = tx[c].marks /\ tx'[c].won = tx[c].won
           /\ tx'[c].left = tx[c].left /\ tx'[c].closed = tx[c].closed
           /\ tx[c].held \subseteq tx'[c].held /\ tx'[c].held \subseteq tx[c].held \cup Writes(c)
<1>1. tx[c] \in Call  BY DEF TypeOK
<1>2. PICK l \in Needs(c) : tx'[c] = [tx[c] EXCEPT !.held = @ \cup {l}]
  OBVIOUS
<1>3. l \in Writes(c)  BY DEF Needs
<1> QED  BY <1>1, <1>2, <1>3 DEF Call

\* A call that has completed the last step of a retail order, when nobody is assigned to
\* the root task, has decided to close the order.
Decided == \A c \in Calls :
    /\ tx[c].pc \in {"closing", "cascade", "commit"} /\ tx[c].won /\ tx[c].row # 0
    /\ OrderType = "agent_retail" /\ Rows("root") = {}
    /\ AllDone(StepsAfter(c))
    => tx[c].pc = "closing" \/ OrderLock \in tx[c].held

\* The decision is taken from the steps and the rows, and neither changes under it.
LEMMA DecidedStep == IInv /\ TasksOK /\ Decided /\ [Next]_vars => Decided'
<1> SUFFICES ASSUME IInv, TasksOK, Decided, [Next]_vars,
                    NEW c \in Calls, tx'[c].pc \in {"closing", "cascade", "commit"},
                    tx'[c].won, tx'[c].row # 0,
                    OrderType = "agent_retail", Rows("root")' = {}, AllDone(StepsAfter(c))'
             PROVE  tx'[c].pc = "closing" \/ OrderLock \in tx'[c].held
  BY DEF Decided
<1>0. TypeOK /\ "root" \in TaskIds /\ CallFits(tx[c])
  BY DEF IInv, TaskIds, TasksOK, TasksExist
<1>1. Rows("root") = {}
  BY <1>0, RowsKept DEF Rows
<1>a. ASSUME tx[c].won, tx'[c].step = tx[c].step
      PROVE  StepsAfter(c)' = StepsAfter(c) /\ AllDone(StepsAfter(c))
  <2>1. step' = step
    BY <1>a, WinnerFreezesSteps
  <2>2. StepsAfter(c)' = StepsAfter(c)
    BY <1>a, <2>1 DEF StepsAfter, EngineComplete, NextStep, Pending
  <2> QED  BY <2>2 DEF AllDone
<1>2. CASE tx'[c] = tx[c]
  BY <1>1, <1>2, <1>a DEF Decided
<1>3. CASE Quietly(c) /\ Moves(c)
  <2>1. CASE tx[c].pc \in {"engine", "delivering"} /\ tx'[c].pc \in {"delivering", AfterEngine(c)}
             /\ RecordAt(c, tx'[c].pc)
    BY <2>1 DEF AfterEngine, RecordAt
  <2>2. CASE /\ tx[c].pc = "root" /\ tx'[c].held = tx[c].held
             /\ RecordAt(c, IF Exists("root") /\ RootCloses(AsgAfter(c).root, StepsAfter(c))
                            THEN "closing" ELSE "commit")
    <3>1. tx'[c].won = tx[c].won /\ tx'[c].step = tx[c].step /\ tx'[c].row = tx[c].row
      BY <2>2 DEF RecordAt
    <3>2. AllDone(StepsAfter(c)) /\ Exists("root")
      BY <1>0, <1>a, <3>1 DEF CallFits
    <3>3. DOMAIN AsgAfter(c)["root"] = {}
      BY <1>0, <1>1, RowsAfterMarked DEF RowsMarked, Rows
    <3>4. RootCloses(AsgAfter(c).root, StepsAfter(c))
      BY <3>2, <3>3 DEF RootCloses, AllDone
    <3> QED  BY <2>2, <3>2, <3>4 DEF RecordAt
  <2>3. CASE tx[c].pc = "closing" /\ LocksTaken(c)
    BY <2>3, TakesOrderLock
  <2>4. CASE tx[c].pc = "cascade" /\ LocksTaken(c) /\ tx'[c].won = tx[c].won
             /\ tx'[c].step = tx[c].step /\ tx'[c].row = tx[c].row
    <3>1. OrderLock \in tx[c].held
      BY <1>1, <1>a, <2>4 DEF Decided
    <3> QED  BY <2>4, <3>1 DEF LocksTaken
  <2>5. CASE tx[c].pc = "parent_rows" /\ tx'[c].row = tx[c].row
    BY <1>0, <2>5 DEF CallFits, Parents
  <2>6. CASE \E l \in Needs(c) : tx'[c] = [tx[c] EXCEPT !.held = @ \cup {l}]
    <3>1. /\ tx'[c].pc = tx[c].pc /\ tx'[c].won = tx[c].won /\ tx'[c].row = tx[c].row
          /\ tx'[c].step = tx[c].step /\ tx[c].held \subseteq tx'[c].held
      BY <1>0, <2>6, AcquiredCall
    <3> QED  BY <1>1, <1>a, <3>1 DEF Decided
  <2>7. CASE tx'[c].pc \in {"acking", "marking", "noting", "engine", "root", "parent_task", "parent_rows"}
    BY <2>7
  <2> QED  BY <1>3, <2>1, <2>2, <2>3, <2>4, <2>5, <2>6, <2>7 DEF Moves, RecordAt
<1> QED  BY <1>0, <1>2, <1>3, BegunCall, IdleType, CallEvolves DEF ChainGoesOn

\* The commit of the last step of a retail order whose root task nobody is assigned to
\* completes the order: complete_assignment takes the decision before its commit, and no
\* other call can change what it was taken from (DeliveryClosesRetail).
THEOREM LastDeliveryCloses == Spec => DeliveryClosesRetail
<1>1. Init => Decided
  BY DEF Init, Decided, Idle
<1>2. IInv /\ TasksOK /\ Decided /\ [Next]_vars => LastStepCloses
  <2> SUFFICES ASSUME IInv, TasksOK, Decided, [Next]_vars, NEW c \in Calls,
                      OrderType = "agent_retail", asg.root = <<>>,
                      tx[c].pc = "commit", tx[c].row # 0, tx'[c].pc = "idle",
                      ~AllDone(step), AllDone(step')
               PROVE  order' = "completed"
    BY DEF LastStepCloses, Shipped
  <2>1. TypeOK /\ ~Crash /\ step' # step
    BY DEF IInv, Crash
  <2>2. CompleteCommit(c)
    <3>1. Completing(c)
      <4>1. PICK d \in Calls :
                 /\ \A e \in Calls \ {d} : tx'[e] = tx[e]
                 /\ \/ \E u \in Users, t \in TaskIds : CompleteBegin(d, u, t)
                    \/ \E s \in Steps : StepBegin(d, s)
                    \/ Completing(d)
                    \/ \E u \in Users : ForceComplete(d, u, "delivery")
        BY <2>1, CallsChange
      <4>2. d = c
        BY <4>1
      <4>3. CASE ~Completing(c)
        <5>1. tx[c].pc = "idle" \/ tx'[c] = tx[c]
          BY <2>1, <4>1, <4>2, <4>3, BegunCall
        <5> QED  BY <5>1
      <4> QED  BY <4>3
    <3>2. ~Quietly(c)
      BY <2>1, QuietMoves
    <3> QED  BY <3>1, <3>2 DEF Completing, Quietly, ChainCommit
  <2>3. step' = StepsAfter(c) /\ order' = OrderAfter(c)
    BY <2>2 DEF CompleteCommit
  <2>4. tx[c].won /\ Rows("root") = {}
    BY <2>1, <2>3 DEF StepsAfter, Rows
  <2>5. OrderLock \in tx[c].held
    BY <2>3, <2>4 DEF Decided
  <2> QED  BY <2>3, <2>5 DEF OrderAfter
<1>3. IInv /\ [Next]_vars => TypeOK /\ IInv'
  BY InvStep DEF IInv
<1> QED
  BY <1>1, <1>2, <1>3, InvInit, TasksInit, TasksStep, DecidedStep, PTL DEF Spec, DeliveryClosesRetail

-----------------------------------------------------------------------------
(* One winner of a claim: OneClaimWinner. *)

\* Without interventions.
LEMMA NoInterventions ==
    ASSUME MaxOps = 0, TypeOK, [Next]_vars
    PROVE  /\ ~Intervention /\ ops' = ops
           /\ \A c \in Calls, u \in Users, t \in TaskIds : CompleteBegin(c, u, t) => u \notin Admins
<1>0. ops \in Nat /\ ~(ops < MaxOps)
  BY DEF TypeOK
<1>1. ~Intervention
  <2>1. ~Intervenes
    BY <1>0 DEF Intervenes
  <2>2. \A u \in Users, t \in TaskIds :
           /\ ~OverrideClaim(u, t) /\ ~CancelTask(u, t)
           /\ \A c \in Calls : ~ForceComplete(c, u, t)
           /\ \A v \in Users : ~ReassignTask(u, t, v)
           /\ \A v \in Users, r \in Roles : ~AssignUser(u, t, v, r)
           /\ \A i \in Rows(t), v \in Users, r \in Roles : ~ReassignAssignment(u, t, i, v, r)
    BY <1>0, <2>1 DEF OverrideClaim, CancelTask, ForceComplete, ReassignTask, AssignUser,
                      ReassignAssignment
  <2> QED  BY <2>2 DEF Intervention
<1>2. \A c \in Calls, u \in Users, t \in TaskIds :
         CompleteBegin(c, u, t) => u \notin Admins /\ ops' = ops
  BY <1>0 DEF CompleteBegin
<1>3. ops' = ops
  <2>1. CASE UNCHANGED vars  BY <2>1 DEF vars
  <2>2. CASE Creation
    BY <2>2 DEF Creation, CreateOrder, CreateRoot, AssignRequester, RootInProgress, RootReopen,
                CreateRoleTask, OpenRoleTask, RefreshRoleTask, OpenAgain, RecomputeWrite
  <2>3. ASSUME NEW c \in Calls, Completing(c) PROVE ops' = ops
    BY <2>3, QuietMoves, CommitMoves DEF Completing, Quietly
  <2>4. CASE Crash \/ (\E c \in Calls, s \in Steps : StepBegin(c, s)) \/ \E u \in Users, t \in TaskIds : ClaimTask(u, t)
    BY <2>4 DEF Crash, StepBegin, ClaimTask
  <2> QED  BY <1>1, <1>2, <2>1, <2>2, <2>3, <2>4 DEF Next
<1> QED  BY <1>1, <1>2, <1>3

\* Without interventions the claim of a role task is written when it is created, and by its claimer.
LEMMA ClaimsChange ==
    ASSUME MaxOps = 0, TypeOK, [Next]_vars, NEW t \in RoleTasks
    PROVE  \/ task'[t] = task[t]
           \/ \E u \in Users : ClaimTask(u, t)
           \/ CreateRoleTask /\ t = creating.role /\ task'[t] = [status |-> "pending", claimedBy |-> Nobody]
           \/ (OpenRoleTask \/ OpenAgain) /\ t = creating.role /\ task'[t] = [task[t] EXCEPT !.status = "open"]
           \/ \E c \in Calls : /\ CompleteCommit(c) /\ t \in tx[c].closed
                               /\ task'[t] = [task[t] EXCEPT !.status = "completed"]
<1>0. /\ task \in [TaskIds -> [status : TaskStatus, claimedBy : Users \cup {Nobody}]]
      /\ t \in TaskIds /\ t # "root"
  BY DEF TypeOK, RoleTasks
<1>1. CASE UNCHANGED vars  BY <1>1 DEF vars
<1>2. CASE Creation
  <2>1. CASE CreateRoot \/ RootInProgress \/ RootReopen
    BY <1>0, <2>1 DEF CreateRoot, RootInProgress, RootReopen
  <2>2. CASE CreateRoleTask
    BY <1>0, <2>2 DEF CreateRoleTask
  <2>3. CASE OpenRoleTask \/ OpenAgain
    <3>1. creating.role \in TaskIds  BY DEF TypeOK
    <3>2. task' = [task EXCEPT ![creating.role] = [task[creating.role] EXCEPT !.status = "open"]]
      BY <1>0, <2>3, <3>1 DEF OpenRoleTask, OpenAgain
    <3> QED  BY <1>0, <2>3, <3>2
  <2>4. CASE CreateOrder \/ AssignRequester \/ RefreshRoleTask \/ RecomputeWrite
    BY <2>4 DEF CreateOrder, AssignRequester, RefreshRoleTask, RecomputeWrite
  <2> QED  BY <1>2, <2>1, <2>2, <2>3, <2>4 DEF Creation
<1>3. ASSUME NEW u \in Users, NEW r \in TaskIds, ClaimTask(u, r)
      PROVE  task'[t] = task[t] \/ ClaimTask(u, t)
  BY <1>0, <1>3 DEF ClaimTask
<1>4. ASSUME NEW T, task' = CloseTasks(T)
      PROVE  task'[t] = IF t \in T THEN [task[t] EXCEPT !.status = "completed"] ELSE task[t]
  BY <1>0, <1>4 DEF CloseTasks
<1>5. ASSUME NEW c \in Calls, Completing(c)
      PROVE  \/ task'[t] = task[t]
             \/ /\ CompleteCommit(c) /\ t \in tx[c].closed
                /\ task'[t] = [task[t] EXCEPT !.status = "completed"]
  <2>1. CASE Quietly(c)
    BY <2>1, QuietMoves
  <2>2. CASE ChainCommit(c)
    BY <2>2 DEF ChainCommit
  <2>3. CASE CompleteCommit(c)
    BY <1>4, <2>3 DEF CompleteCommit
  <2> QED  BY <1>5, <2>1, <2>2, <2>3 DEF Completing, Quietly
<1>6. CASE \/ Crash \/ \E c \in Calls, s \in Steps : StepBegin(c, s)
           \/ \E c \in Calls, u \in Users, r \in TaskIds : CompleteBegin(c, u, r)
  BY <1>6 DEF Crash, StepBegin, CompleteBegin
<1> QED
  BY <1>1, <1>2, <1>3, <1>5, <1>6, NoInterventions DEF Next

\* A role task has the row of its claimer, and no other.
OneRow ==
    \A t \in RoleTasks : /\ task[t].claimedBy = Nobody => Rows(t) = {}
                         /\ Rows(t) \subseteq {1}

\* A claim is given once, and its row is the only one.
LEMMA OneRowStep == MaxOps = 0 /\ TypeOK /\ TasksOK /\ OneRow /\ [Next]_vars => OneRow'
<1> SUFFICES ASSUME MaxOps = 0, TypeOK, TasksOK, OneRow, [Next]_vars, NEW t \in RoleTasks
             PROVE  /\ task'[t].claimedBy = Nobody => Rows(t)' = {}
                    /\ Rows(t)' \subseteq {1}
  BY DEF OneRow
<1>0. /\ t \in TaskIds /\ t # "root" /\ "root" \in TaskIds
      /\ task[t].claimedBy = Nobody => Rows(t) = {}
      /\ Rows(t) \subseteq {1}
      /\ task[t] \in [status : TaskStatus, claimedBy : Users \cup {Nobody}]
      /\ asg[t] \in Seq(Assignment)
  BY DEF RoleTasks, OneRow, TypeOK, TaskIds
<1>1. CASE \E u \in Users : ClaimTask(u, t)
  <2>1. PICK u \in Users : ClaimTask(u, t)  BY <1>1
  <2>2. task[t].claimedBy = Nobody /\ task'[t].claimedBy = u /\ u # Nobody
    BY <1>0, <2>1, UsersAssumption DEF ClaimTask, Claimable, TypeOK
  <2>3. Rows(t) = {} /\ Len(asg[t]) = 0
    <3>1. Rows(t) = {}  BY <1>0, <2>2
    <3>2. Len(asg[t]) \in Nat /\ DOMAIN asg[t] = 1 .. Len(asg[t])  BY <1>0
    <3>3. 1 .. Len(asg[t]) = {}  BY <3>1, <3>2, Zenon DEF Rows
    <3> QED  BY <3>1, <3>2, <3>3
  <2>4. \/ asg' = asg
        \/ RowAppended(t, [user |-> u, role |-> RequiredRole(t), status |-> "in_progress"])
    BY <2>1 DEF ClaimTask, WithClaimer, RowAppended
  <2>5. Rows(t)' \subseteq {1}
    <3>1. CASE asg' = asg  BY <1>0, <3>1 DEF Rows
    <3>2. CASE RowAppended(t, [user |-> u, role |-> RequiredRole(t), status |-> "in_progress"])
      <4>1. DOMAIN asg'[t] = DOMAIN asg[t] \cup {Len(asg[t]) + 1}
        BY <1>0, <3>2, AppendedRows, RowTypes
      <4> QED  BY <2>3, <4>1 DEF Rows
    <3> QED  BY <2>4, <3>1, <3>2
  <2> QED  BY <2>2, <2>5
<1>2. CASE ~\E u \in Users : ClaimTask(u, t)
  <2>1. Rows(t)' = Rows(t)
    <3>1. CASE RowsMarked(asg')  BY <1>0, <3>1 DEF RowsMarked, Rows
    <3>2. ASSUME NEW r \in TaskIds, r # t, NEW a \in Assignment, RowAppended(r, a)
          PROVE  Rows(t)' = Rows(t)
      BY <1>0, <3>2, AppendedRows DEF Rows
    <3>3. \A u, v \in Users, r \in TaskIds, l \in Roles :
             ~AssignUser(u, r, v, l) /\ \A i \in Rows(r) : ~ReassignAssignment(u, r, i, v, l)
      BY NoInterventions DEF Intervention
    <3> QED  BY <1>0, <1>2, <3>1, <3>2, <3>3, RowsChange, RowTypes
  <2>2. task'[t].claimedBy = Nobody => Rows(t) = {}
    <3>1. CASE task'[t].claimedBy = task[t].claimedBy  BY <1>0, <3>1
    <3>2. CASE CreateRoleTask /\ t = creating.role
      <4>1. ~Exists(t)  BY <3>2 DEF CreateRoleTask, TasksOK, CreationInOrder
      <4> QED  BY <1>0, <4>1 DEF TasksOK, TasksExist
    <3>3. \A s : [task[t] EXCEPT !.status = s].claimedBy = task[t].claimedBy
      BY <1>0
    <3>4. \/ task'[t].claimedBy = task[t].claimedBy
          \/ CreateRoleTask /\ t = creating.role
      BY <1>2, <3>3, ClaimsChange
    <3> QED  BY <3>1, <3>2, <3>4
  <2> QED  BY <1>0, <2>1, <2>2
<1> QED  BY <1>1, <1>2

\* Without manual assignments at most one user ever has an assignment of the role a task
\* requires: the guarded update of claim_task has one winner, even though create_task
\* writes open over a claim (OneClaimWinner).
THEOREM OneWinsTheClaim == ASSUME MaxOps = 0 PROVE Spec => []OneClaimWinner
<1>1. Init => OneRow
  BY DEF Init, OneRow, Rows, RoleTasks
<1>2. OneRow => OneClaimWinner
  <2> SUFFICES ASSUME OneRow, NEW t \in RoleTasks
               PROVE  Cardinality({i \in Rows(t) : asg[t][i].role = t}) <= 1
    BY DEF OneClaimWinner, RoleTasks
  <2> DEFINE S == {i \in Rows(t) : asg[t][i].role = t}
  <2>1. S = {} \/ S = {1}
    BY DEF OneRow
  <2> HIDE DEF S
  <2>2. Cardinality({}) = 0 /\ Cardinality({1}) = 1
    BY FS_EmptySet, FS_Singleton
  <2>3. Cardinality(S) <= 1
    BY <2>1, <2>2
  <2> QED  BY <2>3 DEF S
<1>3. TypeOK /\ TasksOK /\ OneRow /\ [Next]_vars => OneRow'
  BY OneRowStep
<1> QED
  BY <1>1, <1>2, <1>3, TypeInit, TypeStep, TasksInit, TasksStep, PTL DEF Spec

-----------------------------------------------------------------------------
(* No work is left behind: WorkFollowsOrder. *)

\* Nobody acts before the creation has returned.
CreationAlone ==
    creating.at \notin {"done", "failed"} =>
        order # "completed" /\ \A c \in Calls : tx[c].pc = "idle"

\* The states of the role tasks of an order whose creation returned.
OpenOrClosed ==
    creating.at # "failed" => \A t \in RoleTasks :
        /\ \/ task[t].status \in {"absent", "open", "claimed", "completed"}
           \/ creating.at = "role_open" /\ t = creating.role /\ task[t].status = "pending"
        /\ order # "completed" => task[t].status # "completed"

\* Only a call that closes the order holds its row, and only such a call has closed a
\* role task.
CloserFits(r) ==
    /\ OrderLock \in r.held => r.pc \in {"closing", "cascade", "commit"}
    /\ r.pc = "cascade" => OrderLock \in r.held
    /\ r.closed \cap RoleTasks # {} => OrderLock \in r.held
    /\ r.pc = "commit" /\ OrderLock \in r.held => r.left = {}

\* The call has locked the task, and the rows of it that are not done.
Closes(r, t) ==
    /\ t \in r.closed /\ TaskLock(t) \in r.held
    /\ \A i \in Rows(t) : asg[t][i].status = "done" \/ RowLock(t, i) \in r.marks \cup r.due

Settled(r, t) == t \in r.left \/ Closes(r, t) \/ task[t].status \in {"absent", "completed"}

\* A call that closes the order leaves out no role task.
ClosersOK ==
    /\ \A c \in Calls : CloserFits(tx[c])
    /\ creating.at = "done" => \A c \in Calls, t \in RoleTasks :
           OrderLock \in tx[c].held /\ tx[c].pc \in {"cascade", "commit"} => Settled(tx[c], t)

WorkOK == ClaimIsAssigned /\ NoWorkAfterClose /\ CreationAlone /\ OpenOrClosed /\ ClosersOK

\* At first there is no work.
LEMMA WorkInit == Init => WorkOK
<1> SUFFICES ASSUME Init PROVE WorkOK
  OBVIOUS
<1>1. \A t \in TaskIds : task[t].status = "absent"
  BY DEF Init
<1>2. \A c \in Calls : tx[c].pc = "idle" /\ tx[c].held = {} /\ tx[c].closed = {}
  BY IdleType DEF Init
<1>3. ClosersOK
  BY <1>2 DEF ClosersOK, CloserFits
<1> QED
  BY <1>1, <1>2, <1>3 DEF Init, WorkOK, ClaimIsAssigned, NoWorkAfterClose, CreationAlone, OpenOrClosed, RoleTasks

\* A step of the creation, or what may happen when it is over.
LEMMA CreationFirst ==
    ASSUME ~ActDuringCreation, TypeOK, CreationAlone, [Next]_vars
    PROVE  UNCHANGED vars \/ Creation \/ Crash \/ creating.at \in {"done", "failed"}
<1>1. CASE creating.at \in {"done", "failed"}
  BY <1>1
<1>2. CASE creating.at \notin {"done", "failed"}
  <2>1. ~Open /\ \A c \in Calls : tx[c].pc = "idle"
    BY <1>2 DEF Open, CreationAlone
  <2>2. \A c \in Calls : ~Completing(c)
    BY <2>1, QuietMoves, CommitMoves DEF Completing, Quietly
  <2>3. \A u \in Users, t \in TaskIds : ~ClaimTask(u, t) /\ \A c \in Calls : ~CompleteBegin(c, u, t)
    BY <2>1 DEF ClaimTask, CompleteBegin
  <2>4. \A c \in Calls, s \in Steps : ~StepBegin(c, s)
    BY <2>1 DEF StepBegin
  <2>5. ~Intervention
    <3>1. \A u \in Users, t \in TaskIds :
             /\ ~OverrideClaim(u, t) /\ ~CancelTask(u, t)
             /\ \A c \in Calls : ~ForceComplete(c, u, t)
             /\ \A v \in Users : ~ReassignTask(u, t, v)
             /\ \A v \in Users, r \in Roles : ~AssignUser(u, t, v, r)
             /\ \A i \in Rows(t), v \in Users, r \in Roles : ~ReassignAssignment(u, t, i, v, r)
      BY <2>1 DEF OverrideClaim, CancelTask, ForceComplete, ReassignTask, AssignUser,
                  ReassignAssignment, Intervenes
    <3> QED  BY <3>1 DEF Intervention
  <2> QED  BY <2>2, <2>3, <2>4, <2>5 DEF Next
<1> QED  BY <1>1, <1>2

\* Every step keeps the creation alone.
LEMMA CreationAloneStep ==
    ASSUME ~ActDuringCreation, TypeOK, CreationAlone, [Next]_vars
    PROVE  CreationAlone'
<1> SUFFICES ASSUME creating'.at \notin {"done", "failed"} PROVE CreationAlone'
  BY DEF CreationAlone
<1>1. CASE UNCHANGED vars
  BY <1>1 DEF vars, CreationAlone
<1>2. CASE Crash
  <2>1. creating' = creating /\ creating.at \notin {"done", "failed"}
    BY <1>2 DEF Crash, Goto
  <2>2. \A c \in Calls : tx'[c].pc = "idle"
    BY <1>2 DEF Crash, Idle
  <2> QED  BY <1>2, <2>1, <2>2 DEF Crash, CreationAlone
<1>3. CASE Creation
  <2>0. /\ tx' = tx
        /\ creating.at \notin {"done", "failed"}
    BY <1>3 DEF Creation, CreateOrder, CreateRoot, AssignRequester, RootInProgress, RootReopen,
                CreateRoleTask, OpenRoleTask, RefreshRoleTask, OpenAgain, RecomputeWrite
  <2>1. order' # "completed"
    BY <1>3, <2>0 DEF Creation, CreateOrder, CreateRoot, AssignRequester, RootInProgress, RootReopen,
                CreateRoleTask, OpenRoleTask, RefreshRoleTask, OpenAgain, RecomputeWrite, CreationAlone
  <2> QED  BY <2>0, <2>1 DEF CreationAlone
<1>4. CASE ~Creation /\ ~Crash /\ ~UNCHANGED vars
  BY <1>4, CreationFirst, CreationMoves
<1> QED  BY <1>1, <1>2, <1>3, <1>4

\* Every step keeps the states of the role tasks.
LEMMA OpenOrClosedStep ==
    ASSUME MaxOps = 0, ~ActDuringCreation, TypeOK, TasksOK, CreationAlone, OpenOrClosed, ClosersOK, [Next]_vars
    PROVE  OpenOrClosed'
<1> SUFFICES ASSUME creating'.at # "failed", NEW t \in RoleTasks
             PROVE  /\ \/ task'[t].status \in {"absent", "open", "claimed", "completed"}
                       \/ creating'.at = "role_open" /\ t = creating'.role /\ task'[t].status = "pending"
                    /\ order' # "completed" => task'[t].status # "completed"
  BY DEF OpenOrClosed
<1>0. /\ creating.at # "failed"
      /\ task[t] \in [status : TaskStatus, claimedBy : Users \cup {Nobody}]
      /\ \A s : [task[t] EXCEPT !.status = s].status = s
  <2>1. Creation => creating.at # "failed"
    BY DEF Creation, CreateOrder, CreateRoot, AssignRequester, RootInProgress, RootReopen,
           CreateRoleTask, OpenRoleTask, RefreshRoleTask, OpenAgain, RecomputeWrite
  <2>2. creating.at # "failed"
    BY <2>1, CreationMoves
  <2>3. task[t] \in [status : TaskStatus, claimedBy : Users \cup {Nobody}]
    BY DEF TypeOK, RoleTasks
  <2> QED  BY <2>2, <2>3
<1>1. /\ \/ task[t].status \in {"absent", "open", "claimed", "completed"}
         \/ creating.at = "role_open" /\ t = creating.role /\ task[t].status = "pending"
      /\ order # "completed" => task[t].status # "completed"
  BY <1>0 DEF OpenOrClosed
<1>2. order = "completed" /\ order' # "completed" => FALSE
  <2>1. CreateOrder => order # "completed"
    BY DEF CreateOrder, CreationAlone
  <2>2. RecomputeWrite => order # "completed"
    BY DEF RecomputeWrite, CreationAlone
  <2> QED  BY <2>1, <2>2, OrderWriters
<1>3. CASE \E u \in Users : ClaimTask(u, t)
  <2>1. task'[t].status = "claimed"
    BY <1>3 DEF ClaimTask, TypeOK, RoleTasks
  <2> QED  BY <2>1
<1>4. CASE CreateRoleTask /\ t = creating.role /\ task'[t] = [status |-> "pending", claimedBy |-> Nobody]
  BY <1>4 DEF CreateRoleTask, Goto
<1>5. CASE (OpenRoleTask \/ OpenAgain) /\ t = creating.role /\ task'[t] = [task[t] EXCEPT !.status = "open"]
  BY <1>0, <1>5
<1>6. ASSUME NEW c \in Calls, CompleteCommit(c), t \in tx[c].closed,
             task'[t] = [task[t] EXCEPT !.status = "completed"]
      PROVE  order' = "completed" /\ task'[t].status = "completed"
  <2>1. task'[t].status = "completed"  BY <1>0, <1>6
  <2>2. order' = OrderAfter(c)  BY <1>6 DEF CompleteCommit
  <2>3. OrderLock \in tx[c].held
    BY <1>6 DEF ClosersOK, CloserFits
  <2> QED  BY <2>1, <2>2, <2>3 DEF OrderAfter
<1>7. CASE task'[t] = task[t]
  <2>1. CASE task[t].status \in {"absent", "open", "claimed", "completed"}
    BY <1>1, <1>2, <1>7, <2>1
  <2>2. CASE creating.at = "role_open" /\ t = creating.role /\ task[t].status = "pending"
    <3>1. CASE Creation
      <4>1. OpenRoleTask
        BY <2>2, <3>1 DEF Creation, CreateOrder, CreateRoot, AssignRequester, RootInProgress, RootReopen,
              CreateRoleTask, RefreshRoleTask, OpenAgain, RecomputeWrite
      <4>2. task' = [task EXCEPT ![t] = [task[t] EXCEPT !.status = "open"]]
        BY <2>2, <4>1 DEF OpenRoleTask, TypeOK, RoleTasks
      <4>3. task'[t] = [task[t] EXCEPT !.status = "open"]
        BY <4>2 DEF TypeOK, RoleTasks
      <4> QED  BY <1>0, <4>3
    <3>2. CASE ~Creation
      <4>1. creating' = creating  BY <3>2, CreationMoves
      <4> QED  BY <1>7, <2>2, <4>1
    <3> QED  BY <3>1, <3>2
  <2> QED  BY <1>1, <2>1, <2>2
<1> QED  BY <1>3, <1>4, <1>5, <1>6, <1>7, ClaimsChange

\* Without interventions the status of a task becomes claimed by a claim only.
LEMMA ClaimedTasks ==
    ASSUME MaxOps = 0, TypeOK, [Next]_vars, NEW t \in TaskIds, task'[t].status = "claimed"
    PROVE  task'[t] = task[t] \/ \E u \in Users : ClaimTask(u, t) /\ task'[t].claimedBy = u
<1>0. /\ task \in [TaskIds -> [status : TaskStatus, claimedBy : Users \cup {Nobody}]]
      /\ \A u \in Users : ClaimTask(u, t) => task'[t].claimedBy = u
      /\ "root" \in TaskIds
  BY DEF TypeOK, ClaimTask, TaskIds
<1>1. CASE t \in RoleTasks
  <2>1. CASE CreateRoleTask /\ t = creating.role /\ task'[t] = [status |-> "pending", claimedBy |-> Nobody]
    BY <2>1
  <2>2. CASE (OpenRoleTask \/ OpenAgain) /\ t = creating.role /\ task'[t] = [task[t] EXCEPT !.status = "open"]
    BY <1>0, <2>2
  <2>3. CASE task'[t] = [task[t] EXCEPT !.status = "completed"]
    BY <1>0, <2>3
  <2> QED  BY <1>0, <1>1, <2>1, <2>2, <2>3, ClaimsChange
<1>2. CASE t = "root"
  <2>1. CASE Creation
    <3>1. CASE CreateRoot \/ RootReopen
      BY <1>0, <1>2, <3>1 DEF CreateRoot, RootReopen
    <3>2. CASE RootInProgress
      BY <1>0, <1>2, <3>2 DEF RootInProgress
    <3>3. CASE CreateRoleTask \/ OpenRoleTask \/ OpenAgain
      <4>1. creating.role \in TaskIds  BY DEF TypeOK
      <4>2. CASE creating.role # "root"
        BY <1>0, <1>2, <3>3, <4>1, <4>2 DEF CreateRoleTask, OpenRoleTask, OpenAgain
      <4>3. CASE creating.role = "root"
        BY <1>0, <1>2, <3>3, <4>1, <4>3 DEF CreateRoleTask, OpenRoleTask, OpenAgain
      <4> QED  BY <4>2, <4>3
    <3>4. CASE CreateOrder \/ AssignRequester \/ RefreshRoleTask \/ RecomputeWrite
      BY <3>4 DEF CreateOrder, AssignRequester, RefreshRoleTask, RecomputeWrite
    <3> QED  BY <2>1, <3>1, <3>2, <3>3, <3>4 DEF Creation
  <2>2. ASSUME NEW u \in Users, NEW r \in TaskIds, ClaimTask(u, r)
        PROVE  task'[t] = task[t] \/ ClaimTask(u, t)
    BY <1>0, <2>2 DEF ClaimTask
  <2>3. ASSUME NEW T, task' = CloseTasks(T) PROVE task'[t] = task[t]
    <3>1. task'[t] = IF t \in T THEN [task[t] EXCEPT !.status = "completed"] ELSE task[t]
      BY <1>0, <1>2, <2>3 DEF CloseTasks
    <3>2. [task[t] EXCEPT !.status = "completed"].status = "completed"
      BY <1>0
    <3> QED  BY <3>1, <3>2
  <2>4. ASSUME NEW c \in Calls, Completing(c)
        PROVE  task'[t] = task[t]
    <3>1. CASE Quietly(c)  BY <3>1, QuietMoves
    <3>2. CASE ChainCommit(c)  BY <3>2 DEF ChainCommit
    <3>3. CASE CompleteCommit(c)  BY <2>3, <3>3 DEF CompleteCommit
    <3> QED  BY <2>4, <3>1, <3>2, <3>3 DEF Completing, Quietly
  <2>5. CASE \/ UNCHANGED vars \/ Crash \/ \E c \in Calls, s \in Steps : StepBegin(c, s)
             \/ \E c \in Calls, u \in Users, r \in TaskIds : CompleteBegin(c, u, r)
    BY <2>5 DEF vars, Crash, StepBegin, CompleteBegin
  <2> QED
    BY <1>0, <2>1, <2>2, <2>4, <2>5, NoInterventions DEF Next
<1> QED  BY <1>1, <1>2 DEF RoleTasks

\* A claim is written together with the row of its claimer, which stays.
LEMMA ClaimIsAssignedStep ==
    ASSUME MaxOps = 0, TypeOK, ClaimIsAssigned, [Next]_vars
    PROVE  ClaimIsAssigned'
<1> SUFFICES ASSUME NEW t \in TaskIds, task'[t].status = "claimed"
             PROVE  \E i \in DOMAIN asg'[t] : asg'[t][i].user = task'[t].claimedBy
  BY DEF ClaimIsAssigned, RowOf, Rows
<1>0. \A i \in DOMAIN asg[t] : i \in DOMAIN asg'[t] /\ asg'[t][i].user = asg[t][i].user
  BY RowsKept, NoInterventions DEF RowKept
<1>1. CASE task'[t] = task[t]
  <2>1. PICK i \in DOMAIN asg[t] : asg[t][i].user = task[t].claimedBy
    BY <1>1 DEF ClaimIsAssigned, RowOf, Rows
  <2> QED  BY <1>0, <1>1, <2>1
<1>2. ASSUME NEW u \in Users, ClaimTask(u, t), task'[t].claimedBy = u
      PROVE  \E i \in DOMAIN asg'[t] : asg'[t][i].user = task'[t].claimedBy
  <2>1. CASE RowOf(t, u) # {}
    <3>1. PICK i \in DOMAIN asg[t] : asg[t][i].user = u
      BY <2>1 DEF RowOf, Rows
    <3> QED  BY <1>0, <1>2, <3>1
  <2>2. CASE RowOf(t, u) = {}
    <3> DEFINE a == [user |-> u, role |-> RequiredRole(t), status |-> "in_progress"]
    <3>1. a \in Assignment /\ RowAppended(t, a) /\ a.user = u
      BY <1>2, <2>2, RowTypes DEF ClaimTask, WithClaimer, RowAppended
    <3> HIDE DEF a
    <3> QED  BY <1>2, <3>1, AppendedRows
  <2> QED  BY <2>1, <2>2
<1> QED  BY <1>1, <1>2, ClaimedTasks

\* The lock of the order is taken at one statement, and kept to the end.
LEMMA ClosersFit ==
    ASSUME TypeOK, [Next]_vars, NEW c \in Calls, CloserFits(tx[c])
    PROVE  CloserFits(tx'[c])
<1> DEFINE r == tx[c]
           n == tx'[c]
<1>0. /\ r \in Call
      /\ OrderLock \in Writes(c) => r.pc = "closing"
      /\ NextLeft(c) \in TaskIds
  BY WritesType DEF TypeOK, NextLeft, TaskIds
<1>1. CASE n = r
  BY <1>1
<1>2. CASE n = Idle
  BY <1>2, IdleType DEF CloserFits
<1>3. CASE /\ n.pc \in {"read", "engine", "parent"}
           /\ n.held = {} /\ n.closed = {}
  BY <1>3 DEF CloserFits
<1>4. CASE ChainGoesOn(c)
  BY <1>4 DEF ChainGoesOn, CloserFits
<1>5. CASE Quietly(c) /\ Moves(c)
  <2>1. CASE CloseOrder(c) /\ r.pc = "closing" /\ RecordAt(c, IF Cascaded = {} THEN "commit" ELSE "cascade")
             /\ LocksTaken(c) /\ n.closed = {"root"} /\ n.left = Cascaded
    BY <2>1, TakesOrderLock DEF CloserFits, RecordAt, RoleTasks
  <2>2. CASE /\ r.pc = "cascade"
             /\ RecordAt(c, IF r.left \ {NextLeft(c)} = {} THEN "commit" ELSE "cascade")
             /\ LocksTaken(c)
             /\ n.left = r.left \ {NextLeft(c)}
    BY <2>2 DEF CloserFits, RecordAt, LocksTaken
  <2>3. CASE \E l \in Needs(c) : n = [r EXCEPT !.held = @ \cup {l}]
    <3>1. /\ n.pc = r.pc /\ n.left = r.left /\ n.closed = r.closed
          /\ r.held \subseteq n.held /\ n.held \subseteq r.held \cup Writes(c)
      BY <2>3, AcquiredCall
    <3> QED  BY <1>0, <3>1 DEF CloserFits
  <2>4. CASE /\ r.pc \notin {"closing", "cascade", "commit"} /\ n.pc \notin {"cascade"}
             /\ n.closed = r.closed \/ n.closed = {"root"}
             /\ n.held = r.held \/ LocksTaken(c)
    <3>1. OrderLock \notin r.held /\ r.closed \cap RoleTasks = {}
      BY <2>4 DEF CloserFits
    <3>2. OrderLock \notin n.held
      BY <1>0, <2>4, <3>1 DEF LocksTaken, Needs
    <3>3. n.closed \cap RoleTasks = {}
      BY <2>4, <3>1 DEF RoleTasks
    <3> QED  BY <2>4, <3>2, <3>3 DEF CloserFits
  <2>5. \/ CloseOrder(c) /\ r.pc = "closing" /\ RecordAt(c, IF Cascaded = {} THEN "commit" ELSE "cascade")
             /\ LocksTaken(c) /\ n.closed = {"root"} /\ n.left = Cascaded
        \/ /\ r.pc = "cascade"
           /\ RecordAt(c, IF r.left \ {NextLeft(c)} = {} THEN "commit" ELSE "cascade")
           /\ LocksTaken(c)
           /\ n.left = r.left \ {NextLeft(c)}
        \/ \E l \in Needs(c) : n = [r EXCEPT !.held = @ \cup {l}]
        \/ /\ r.pc \notin {"closing", "cascade", "commit"} /\ n.pc \notin {"cascade"}
           /\ n.closed = r.closed \/ n.closed = {"root"}
           /\ n.held = r.held \/ LocksTaken(c)
    BY <1>5 DEF Moves, RecordAt, AfterEngine
  <2> QED  BY <2>1, <2>2, <2>3, <2>4, <2>5
<1> QED  BY <1>1, <1>2, <1>3, <1>4, <1>5, BegunCall, CallEvolves

\* Without interventions a role task that a call has locked keeps its rows, and so does
\* one that is completed.
LEMMA LockedRoleStays ==
    ASSUME MaxOps = 0, TypeOK, TasksOK, [Next]_vars, ~Creation, NEW t \in RoleTasks,
           task[t].status \in {"absent", "completed"} \/ \E c \in Calls : TaskLock(t) \in tx[c].held
    PROVE  /\ DOMAIN asg'[t] = DOMAIN asg[t]
           /\ \A i \in DOMAIN asg[t] : asg'[t][i].status \in {asg[t][i].status, "done"}
           /\ task'[t] = task[t] \/ task'[t].status = "completed"
<1>0. t \in TaskIds /\ t # "root" /\ "root" \in TaskIds
      /\ task[t] \in [status : TaskStatus, claimedBy : Users \cup {Nobody}]
      /\ asg \in [TaskIds -> Seq(Assignment)]
  BY DEF RoleTasks, TaskIds, TypeOK
<1>1. \A u \in Users : ~ClaimTask(u, t)
  BY DEF ClaimTask, Claimable, LockFree
<1>2. DOMAIN asg'[t] = DOMAIN asg[t]
  <2>1. CASE RowsMarked(asg')  BY <1>0, <2>1 DEF RowsMarked
  <2>2. ASSUME NEW r \in TaskIds, r # t, NEW a \in Assignment, RowAppended(r, a)
        PROVE  DOMAIN asg'[t] = DOMAIN asg[t]
    BY <1>0, <2>2, AppendedRows
  <2>3. \A u, v \in Users, r \in TaskIds, l \in Roles :
           ~AssignUser(u, r, v, l) /\ \A i \in Rows(r) : ~ReassignAssignment(u, r, i, v, l)
    BY NoInterventions DEF Intervention
  <2>4. ~AssignRequester
    BY DEF Creation
  <2> QED  BY <1>0, <1>1, <2>1, <2>2, <2>3, <2>4, RowsChange, RowTypes
<1>3. \A i \in DOMAIN asg[t] : asg'[t][i].status \in {asg[t][i].status, "done"}
  BY <1>0, RowsKept
<1>4. [task[t] EXCEPT !.status = "completed"].status = "completed"
  BY <1>0
<1> QED  BY <1>1, <1>2, <1>3, <1>4, ClaimsChange DEF Creation

\* A role task settled by a call stays so while the call's record only grows.
LEMMA SettledStays ==
    ASSUME MaxOps = 0, TypeOK, TasksOK, [Next]_vars, ~Creation, NEW t \in RoleTasks, NEW c \in Calls,
           Settled(tx[c], t), t \in tx[c].left => t \in tx'[c].left,
           tx[c].closed \subseteq tx'[c].closed, tx[c].held \subseteq tx'[c].held,
           tx[c].marks \cup tx[c].due \subseteq tx'[c].marks \cup tx'[c].due
    PROVE  \/ t \in tx'[c].left
           \/ /\ t \in tx'[c].closed /\ TaskLock(t) \in tx'[c].held
              /\ \A i \in DOMAIN asg'[t] :
                    asg'[t][i].status = "done" \/ RowLock(t, i) \in tx'[c].marks \cup tx'[c].due
           \/ task'[t].status \in {"absent", "completed"}
<1>1. CASE t \in tx[c].left
  BY <1>1
<1>2. CASE Closes(tx[c], t)
  <2>1. /\ DOMAIN asg'[t] = DOMAIN asg[t]
        /\ \A i \in DOMAIN asg[t] : asg'[t][i].status \in {asg[t][i].status, "done"}
    BY <1>2, LockedRoleStays DEF Closes
  <2> QED  BY <1>2, <2>1 DEF Closes, Rows
<1>3. CASE task[t].status \in {"absent", "completed"}
  BY <1>3, LockedRoleStays
<1> QED  BY <1>1, <1>2, <1>3 DEF Settled

\* Every step keeps the calls that close the order complete.
LEMMA ClosersStep ==
    ASSUME MaxOps = 0, ~ActDuringCreation, TypeOK, TasksOK, CreationAlone, OpenOrClosed, ClosersOK, [Next]_vars
    PROVE  ClosersOK'
<1>1. \A c \in Calls : CloserFits(tx'[c])
  BY ClosersFit DEF ClosersOK
<1>2. ASSUME creating'.at = "done", NEW c \in Calls, NEW t \in RoleTasks,
             OrderLock \in tx'[c].held, tx'[c].pc \in {"cascade", "commit"}
      PROVE  \/ t \in tx'[c].left
             \/ /\ t \in tx'[c].closed /\ TaskLock(t) \in tx'[c].held
                /\ \A i \in DOMAIN asg'[t] :
                      asg'[t][i].status = "done" \/ RowLock(t, i) \in tx'[c].marks \cup tx'[c].due
             \/ task'[t].status \in {"absent", "completed"}
  <2> DEFINE r == tx[c]
             n == tx'[c]
  <2>0. /\ r \in Call /\ t \in TaskIds /\ t # "root"
        /\ OrderLock \in Writes(c) => r.pc = "closing"
        /\ r.left \in SUBSET {"foreman", "delivery"}
    BY WritesType DEF TypeOK, Call, RoleTasks
  <2>1. ~Creation
    <3>1. CASE Creation
      <4>1. tx' = tx /\ creating.at \notin {"done", "failed"}
        BY <3>1 DEF Creation, CreateOrder, CreateRoot, AssignRequester, RootInProgress, RootReopen,
                CreateRoleTask, OpenRoleTask, RefreshRoleTask, OpenAgain, RecomputeWrite
      <4> QED  BY <1>2, <4>1 DEF CreationAlone
    <3> QED  BY <3>1
  <2>2. creating.at = "done"
    BY <1>2, <2>1, CreationMoves
  <2>3. OrderLock \in r.held /\ r.pc \in {"cascade", "commit"} => Settled(r, t)
    BY <2>2 DEF ClosersOK
  <2>4. CASE n = r
    BY <1>2, <2>1, <2>3, <2>4, SettledStays
  <2>5. CASE n = Idle
    BY <1>2, <2>5, IdleType
  <2>6. CASE n.pc \in {"read", "engine", "parent"} \/ ChainGoesOn(c)
    BY <1>2, <2>6 DEF ChainGoesOn
  <2>7. CASE Quietly(c) /\ Moves(c)
    <3>1. CASE r.pc = "closing" /\ n.left = Cascaded
      <4>1. /\ task' = task
            /\ task[t].status \in {"absent", "open", "claimed", "completed"}
        BY <2>2, <2>7, QuietMoves DEF OpenOrClosed
      <4> QED  BY <2>0, <3>1, <4>1 DEF Cascaded
    <3>2. CASE /\ r.pc = "cascade" /\ LocksTaken(c) /\ n.closed = r.closed \cup {NextLeft(c)}
               /\ n.left = r.left \ {NextLeft(c)} /\ n.marks = r.marks \cup r.due
               /\ n.due = RowLocks(NextLeft(c), Undone(c, NextLeft(c)))
      <4>1. OrderLock \in r.held
        BY <3>2 DEF ClosersOK, CloserFits
      <4>2. CASE t = NextLeft(c)
        <5>1. TaskLock(t) \in n.held
          BY <3>2, <4>2, WritesAt DEF LocksTaken, Needs
        <5>2. asg' = asg
          BY <2>7, QuietMoves
        <5>3. ASSUME NEW i \in DOMAIN asg[t]
              PROVE  asg[t][i].status = "done" \/ RowLock(t, i) \in n.marks \cup n.due
          <6>1. CASE RowLock(t, i) \in r.marks
            BY <3>2, <6>1
          <6>2. CASE RowLock(t, i) \notin r.marks
            <7>1. AsgAfter(c)[t][i].status = asg[t][i].status
              BY <2>0, <6>2, AfterRows
            <7> QED  BY <3>2, <4>2, <7>1 DEF Undone, Rows, RowLocks
          <6> QED  BY <6>1, <6>2
        <5> QED  BY <3>2, <4>2, <5>1, <5>2, <5>3
      <4>3. CASE t # NextLeft(c)
        <5>1. t \in r.left => t \in n.left
          BY <3>2, <4>3
        <5>2. r.closed \subseteq n.closed /\ r.held \subseteq n.held
              /\ r.marks \cup r.due \subseteq n.marks \cup n.due
          BY <3>2 DEF LocksTaken
        <5> QED  BY <2>1, <2>3, <3>2, <4>1, <5>1, <5>2, SettledStays
      <4> QED  BY <4>2, <4>3
    <3>3. CASE \E l \in Needs(c) : n = [r EXCEPT !.held = @ \cup {l}]
      <4>1. /\ n.pc = r.pc /\ n.left = r.left /\ n.closed = r.closed /\ n.due = r.due /\ n.marks = r.marks
            /\ r.held \subseteq n.held /\ n.held \subseteq r.held \cup Writes(c)
        BY <3>3, AcquiredCall
      <4>2. OrderLock \in r.held
        BY <1>2, <2>0, <4>1
      <4> QED  BY <1>2, <2>1, <2>3, <4>1, <4>2, SettledStays
    <3>4. CASE /\ r.pc \notin {"closing", "cascade", "commit"}
               /\ n.held = r.held \/ LocksTaken(c)
      <4>1. OrderLock \notin n.held
        BY <2>0, <3>4 DEF ClosersOK, CloserFits, LocksTaken, Needs
      <4> QED  BY <1>2, <4>1
    <3>5. \/ r.pc = "closing" /\ n.left = Cascaded
          \/ /\ r.pc = "cascade" /\ LocksTaken(c) /\ n.closed = r.closed \cup {NextLeft(c)}
             /\ n.left = r.left \ {NextLeft(c)} /\ n.marks = r.marks \cup r.due
             /\ n.due = RowLocks(NextLeft(c), Undone(c, NextLeft(c)))
          \/ \E l \in Needs(c) : n = [r EXCEPT !.held = @ \cup {l}]
          \/ /\ r.pc \notin {"closing", "cascade", "commit"}
             /\ n.held = r.held \/ LocksTaken(c)
      BY <2>7 DEF Moves
    <3> QED  BY <3>1, <3>2, <3>3, <3>4, <3>5
  <2> QED  BY <2>4, <2>5, <2>6, <2>7, BegunCall, CallEvolves
<1> QED  BY <1>1, <1>2 DEF ClosersOK, CloserFits, Settled, Closes, Rows

\* Closing the order closes all role tasks there are, and no one can take them again.
LEMMA NoWorkAfterCloseStep ==
    ASSUME MaxOps = 0, ~ActDuringCreation, TypeOK, TasksOK, CreationAlone, OpenOrClosed, ClosersOK,
           NoWorkAfterClose, [Next]_vars
    PROVE  NoWorkAfterClose'
<1> SUFFICES ASSUME order' = "completed", creating'.at = "done", NEW t \in RoleTasks
             PROVE  /\ task'[t].status \in {"absent", "completed", "cancelled"}
                    /\ \A i \in DOMAIN asg'[t] : asg'[t][i].status = "done"
  BY DEF NoWorkAfterClose, RoleTasks, Rows
<1>0. /\ t \in TaskIds /\ t # "root"
      /\ task[t] \in [status : TaskStatus, claimedBy : Users \cup {Nobody}]
      /\ \A s : [task[t] EXCEPT !.status = s].status = s
  <2>1. task[t] \in [status : TaskStatus, claimedBy : Users \cup {Nobody}]
    BY DEF TypeOK, RoleTasks
  <2> QED  BY <2>1 DEF RoleTasks
<1>1. ~Creation
  <2>1. ~Creation \/ creating'.at # "done" \/ RecomputeWrite
    BY DEF Creation, CreateOrder, CreateRoot, AssignRequester, RootInProgress, RootReopen,
           CreateRoleTask, OpenRoleTask, RefreshRoleTask, OpenAgain, AfterRole, Goto
  <2>2. ~RecomputeWrite
    BY DEF RecomputeWrite
  <2> QED  BY <2>1, <2>2
<1>2. creating.at = "done"
  BY <1>1, CreationMoves
<1>3. CASE order = "completed"
  <2>1. /\ task[t].status \in {"absent", "completed"}
        /\ \A i \in DOMAIN asg[t] : asg[t][i].status = "done"
    BY <1>2, <1>3 DEF NoWorkAfterClose, OpenOrClosed, RoleTasks, Rows
  <2> QED  BY <1>1, <2>1, LockedRoleStays
<1>4. CASE order # "completed"
  <2>1. PICK c \in Calls : CompleteCommit(c) /\ OrderLock \in tx[c].held
    BY <1>1, <1>4, OrderWriters DEF Creation
  <2>2. tx[c].left = {} /\ Settled(tx[c], t)
    BY <1>2, <2>1 DEF ClosersOK, CloserFits, CompleteCommit
  <2>3. /\ task' = CloseTasks(tx[c].closed)
        /\ DOMAIN asg'[t] = DOMAIN asg[t]
        /\ \A i \in DOMAIN asg[t] :
              asg'[t][i].status = IF RowLock(t, i) \in tx[c].marks \cup tx[c].due
                                  THEN "done" ELSE asg[t][i].status
    <3>1. task' = CloseTasks(tx[c].closed)  BY <2>1 DEF CompleteCommit
    <3> QED  BY <1>0, <2>1, <3>1, CommittedRows
  <2>4. CASE Closes(tx[c], t)
    <3>1. task'[t] = [task[t] EXCEPT !.status = "completed"]
      BY <1>0, <2>3, <2>4 DEF CloseTasks, Closes
    <3> QED  BY <1>0, <2>3, <2>4, <3>1 DEF Closes, Rows
  <2>5. CASE task[t].status = "absent"
    <3>1. task'[t].status \in {"absent", "completed"}
      BY <1>1, <2>5, LockedRoleStays
    <3>2. DOMAIN asg[t] = {}
      BY <1>0, <2>5 DEF TasksOK, TasksExist, Exists, Rows
    <3> QED  BY <2>3, <3>1, <3>2
  <2>6. task[t].status # "completed"
    BY <1>2, <1>4 DEF OpenOrClosed
  <2> QED  BY <2>2, <2>4, <2>5, <2>6 DEF Settled
<1> QED  BY <1>3, <1>4

\* Without interventions, and when nobody acts before create_order has returned, a
\* claimed task has its claimer's assignment, and a completed order leaves no role task
\* open and no assignment of one undone (WorkFollowsOrder).
THEOREM ClosedOrdersLeaveNoWork ==
    ASSUME MaxOps = 0, ~ActDuringCreation
    PROVE  Spec => []WorkFollowsOrder
<1>1. TypeOK /\ TasksOK /\ WorkOK /\ [Next]_vars => WorkOK'
  BY CreationAloneStep, OpenOrClosedStep, ClosersStep, ClaimIsAssignedStep, NoWorkAfterCloseStep DEF WorkOK
<1>2. WorkOK => WorkFollowsOrder
  BY DEF WorkOK, WorkFollowsOrder
<1> QED
  BY <1>1, <1>2, WorkInit, TypeInit, TypeStep, TasksInit, TasksStep, PTL DEF Spec

-----------------------------------------------------------------------------
(* Completed means shipped: CompletedMeansShipped. *)

\* A retail order has two steps, the second of which is the delivery.
LEMMA RetailWorkflow ==
    ASSUME OrderType = "agent_retail"
    PROVE  Len(Workflow) = 2 /\ KeyOf(2) = "deliver_items"
<1>1. Workflow = << Step("accept_delivery", "delivery"), Step("deliver_items", "delivery") >>
  BY DEF Workflow, WORKFLOWS
<1>2. Len(Workflow) = 2 /\ Workflow[2] = Step("deliver_items", "delivery")
  BY <1>1
<1>3. KeyOf(2) = "deliver_items"
  BY <1>2 DEF KeyOf, Step
<1> QED  BY <1>2, <1>3

\* The fifth and last step of a restock is the requester's confirmation.
LEMMA RestockWorkflow ==
    ASSUME HasRequester
    PROVE  /\ Len(Workflow) = 5
           /\ \A s \in Steps : KeyOf(s) = "confirm_received" <=> s = 5
           /\ \A s \in Steps : Workflow[s].role # NoRole
           /\ KeyOf(0) = "none"
<1> DEFINE Last == Step("confirm_received", "requester")
           W    == WarehouseSteps
<1>1. Workflow = Append(W, Last)
  BY DEF Workflow, WORKFLOWS, HasRequester
<1>2. /\ Len(W) = 4
      /\ W[1] = Step("assemble_items", "foreman") /\ W[2] = Step("foreman_handover", "foreman")
      /\ W[3] = Step("delivery_received", "delivery") /\ W[4] = Step("deliver_items", "delivery")
  BY DEF WarehouseSteps
<1>3. PICK S : W \in Seq(S) /\ Last \in S
  <2>1. W \in Seq({W[i] : i \in 1 .. 4} \cup {Last})
    BY DEF WarehouseSteps
  <2> QED  BY <2>1
<1> HIDE DEF W, Last
<1>4. /\ Len(Append(W, Last)) = 5
      /\ \A i \in 1 .. 4 : Append(W, Last)[i] = W[i]
      /\ Append(W, Last)[5] = Last
  <2>1. Len(W) = 4  BY <1>2
  <2>2. /\ Len(Append(W, Last)) = Len(W) + 1
        /\ \A i \in 1 .. Len(W) : Append(W, Last)[i] = W[i]
        /\ Append(W, Last)[Len(W) + 1] = Last
    BY <1>3
  <2> QED  BY <2>1, <2>2
<1>5. /\ Len(Workflow) = 5 /\ Workflow[1] = W[1] /\ Workflow[2] = W[2]
      /\ Workflow[3] = W[3] /\ Workflow[4] = W[4] /\ Workflow[5] = Last
  BY <1>1, <1>4
<1>6. Steps = {1, 2, 3, 4, 5}
  BY <1>5 DEF Steps
<1>7. \A s \in Steps : KeyOf(s) = Workflow[s].key
  BY <1>6 DEF KeyOf
<1>8. /\ Workflow[1].key = "assemble_items" /\ Workflow[2].key = "foreman_handover"
      /\ Workflow[3].key = "delivery_received" /\ Workflow[4].key = "deliver_items"
      /\ Workflow[5].key = "confirm_received"
      /\ Workflow[1].role = "foreman" /\ Workflow[2].role = "foreman"
      /\ Workflow[3].role = "delivery" /\ Workflow[4].role = "delivery"
      /\ Workflow[5].role = "requester"
  BY <1>2, <1>5 DEF Step, Last
<1>9. \A s \in Steps : KeyOf(s) = "confirm_received" <=> s = 5
  BY <1>6, <1>7, <1>8
<1>10. \A s \in Steps : Workflow[s].role # NoRole
  BY <1>6, <1>8 DEF NoRole
<1> QED  BY <1>5, <1>9, <1>10 DEF KeyOf

\* Of an order all is done when its last step is.
LEMMA LastStepDone ==
    ASSUME NEW st, NEW k \in 1 .. Len(Workflow) + 1, Prefix(st, k), st[Len(Workflow)] = "done"
    PROVE  AllDone(st)
<1>1. Len(Workflow) \in Nat /\ Len(Workflow) \in Steps /\ Steps = 1 .. Len(Workflow)
  BY WorkflowLength DEF Steps
<1>2. Len(Workflow) < k
  BY <1>1 DEF Prefix
<1> QED  BY <1>1, <1>2 DEF Prefix, AllDone

\* What a call has written to the steps is a prefix of the workflow, too.
LEMMA AfterPrefix ==
    ASSUME IInv, order # "absent", NEW c \in Calls
    PROVE  /\ \E k \in 1 .. Len(Workflow) + 1 : Prefix(StepsAfter(c), k)
           /\ \A s \in Steps : step[s] = "done" => StepsAfter(c)[s] = "done"
           /\ tx[c].won => StepsAfter(c)[tx[c].step] = "done"
<1>1. PICK k \in 1 .. Len(Workflow) + 1 : Prefix(step, k)
  BY DEF IInv, StepInv, StepsInOrder, Prefix
<1>2. CASE ~tx[c].won
  BY <1>1, <1>2 DEF StepsAfter
<1>3. CASE tx[c].won
  <2>1. tx[c].step \in Steps /\ step[tx[c].step] = "active"
    BY <1>3 DEF IInv, StepInv, WinnersHoldActive, StillActive, TypeOK, Call
  <2>0. step \in [Steps -> StepStatus] /\ StepsAfter(c) = EngineComplete(step, tx[c].step)
    BY <1>3 DEF StepsAfter, IInv, TypeOK
  <2>2. k + 1 \in 1 .. Len(Workflow) + 1 /\ Prefix(StepsAfter(c), k + 1) /\ tx[c].step = k
    BY <1>1, <2>0, <2>1, EngineAdvances
  <2>3. Steps \subseteq Nat /\ k \in Nat
    BY WorkflowLength DEF Steps
  <2>4. \A s \in Steps : step[s] = "done" => StepsAfter(c)[s] = "done"
    <3>1. \A s \in Steps : (step[s] = "done" <=> s < k) /\ (StepsAfter(c)[s] = "done" <=> s < k + 1)
      BY <1>1, <2>2 DEF Prefix
    <3> QED  BY <2>3, <3>1
  <2>5. StepsAfter(c)[tx[c].step] = "done"
    BY <2>1, <2>2, <2>3 DEF Prefix
  <2> QED  BY <2>2, <2>4, <2>5
<1> QED  BY <1>2, <1>3

\* What a call has written to the steps stays done while the call goes on.
LEMMA AfterStays ==
    ASSUME IInv, [Next]_vars, NEW c \in Calls,
           tx'[c].won = tx[c].won, tx'[c].step = tx[c].step
    PROVE  \A s \in Steps : StepsAfter(c)[s] = "done" => StepsAfter(c)'[s] = "done"
<1>1. CASE tx[c].won
  <2>1. step' = step
    BY <1>1, WinnerFreezesSteps
  <2>2. StepsAfter(c)' = StepsAfter(c)
    BY <2>1 DEF StepsAfter, EngineComplete, NextStep, Pending
  <2> QED  BY <2>2
<1>2. CASE ~tx[c].won
  <2>1. StepsAfter(c) = step /\ StepsAfter(c)' = step'
    BY <1>2 DEF StepsAfter
  <2> QED  BY <2>1, StepsOneByOne DEF OneStepMore
<1> QED  BY <1>1, <1>2

\* The order is closed, and the decision to close it taken, only when all steps are done.
ShippedOK ==
    /\ order = "completed" => AllDone(step)
    /\ \A c \in Calls :
          /\ CloserFits(tx[c])
          /\ tx[c].pc \in {"closing", "cascade"} \/ OrderLock \in tx[c].held => AllDone(StepsAfter(c))

\* No order, no decision.
LEMMA ShippedInit == Init => ShippedOK
<1> SUFFICES ASSUME Init PROVE ShippedOK
  OBVIOUS
<1>1. \A c \in Calls : tx[c] = Idle  BY DEF Init
<1> QED  BY <1>1, IdleType DEF Init, ShippedOK, CloserFits

\* It stays so if the decisions that are taken are right.
LEMMA ShippedStep ==
    ASSUME IInv, ShippedOK, [Next]_vars,
           \A c \in Calls : /\ tx[c].pc = "root" /\ Exists("root")
                            /\ RootCloses(AsgAfter(c).root, StepsAfter(c))
                            => AllDone(StepsAfter(c))
    PROVE  ShippedOK'
<1>0. TypeOK /\ (AllDone(step) => AllDone(step'))
  BY StepsOneByOne DEF IInv, OneStepMore, AllDone
<1>1. order' = "completed" => AllDone(step')
  <2>1. CASE order' = order
    BY <1>0, <2>1 DEF ShippedOK
  <2>2. CASE CreateOrder \/ RecomputeWrite
    BY <2>2 DEF CreateOrder, RecomputeWrite
  <2>3. ASSUME NEW c \in Calls, CompleteCommit(c), OrderLock \in tx[c].held
        PROVE  AllDone(step')
    BY <2>3 DEF CompleteCommit, ShippedOK
  <2> QED  BY <1>0, <2>1, <2>2, <2>3, OrderWriters
<1>2. \A c \in Calls : CloserFits(tx'[c])
  BY <1>0, ClosersFit DEF ShippedOK
<1>3. ASSUME NEW c \in Calls, tx'[c].pc \in {"closing", "cascade"} \/ OrderLock \in tx'[c].held
      PROVE  AllDone(StepsAfter(c))'
  <2> DEFINE r == tx[c]
             n == tx'[c]
  <2>1. ASSUME n.won = r.won, n.step = r.step, AllDone(StepsAfter(c))
        PROVE  AllDone(StepsAfter(c))'
    <3>1. \A s \in Steps : StepsAfter(c)[s] = "done" => StepsAfter(c)'[s] = "done"
      BY <2>1, AfterStays
    <3> QED  BY <2>1, <3>1 DEF AllDone
  <2>2. CASE n = r
    BY <1>3, <2>1, <2>2 DEF ShippedOK
  <2>3. CASE n = Idle \/ n.pc \in {"read", "engine", "parent"} \/ ChainGoesOn(c)
    BY <1>2, <1>3, <2>3, IdleType DEF CloserFits, ChainGoesOn
  <2>4. CASE Quietly(c) /\ Moves(c)
    <3>0. OrderLock \in Writes(c) => r.pc = "closing"
      BY <1>0, WritesType
    <3>1. CASE /\ r.pc = "root" /\ n.held = r.held
               /\ RecordAt(c, IF Exists("root") /\ RootCloses(AsgAfter(c).root, StepsAfter(c))
                              THEN "closing" ELSE "commit")
      <4>1. OrderLock \notin n.held  BY <3>1 DEF ShippedOK, CloserFits
      <4> QED  BY <1>3, <2>1, <3>1, <4>1 DEF RecordAt
    <3>2. CASE r.pc \in {"closing", "cascade"} /\ n.won = r.won /\ n.step = r.step
      BY <2>1, <3>2 DEF ShippedOK
    <3>3. CASE \E l \in Needs(c) : n = [r EXCEPT !.held = @ \cup {l}]
      <4>1. n.pc = r.pc /\ n.won = r.won /\ n.step = r.step /\ n.held \subseteq r.held \cup Writes(c)
        BY <1>0, <3>3, AcquiredCall
      <4> QED  BY <1>3, <2>1, <3>0, <4>1 DEF ShippedOK
    <3>4. CASE /\ r.pc \notin {"closing", "cascade", "commit"} /\ n.pc \notin {"closing", "cascade"}
               /\ n.held = r.held \/ LocksTaken(c)
      <4>1. OrderLock \notin n.held
        BY <3>0, <3>4 DEF ShippedOK, CloserFits, LocksTaken, Needs
      <4> QED  BY <1>3, <3>4, <4>1
    <3>5. \/ /\ r.pc = "root" /\ n.held = r.held
             /\ RecordAt(c, IF Exists("root") /\ RootCloses(AsgAfter(c).root, StepsAfter(c))
                            THEN "closing" ELSE "commit")
          \/ r.pc \in {"closing", "cascade"} /\ n.won = r.won /\ n.step = r.step
          \/ \E l \in Needs(c) : n = [r EXCEPT !.held = @ \cup {l}]
          \/ /\ r.pc \notin {"closing", "cascade", "commit"} /\ n.pc \notin {"closing", "cascade"}
             /\ n.held = r.held \/ LocksTaken(c)
      BY <2>4 DEF Moves, RecordAt, AfterEngine
    <3> QED  BY <3>1, <3>2, <3>3, <3>4, <3>5
  <2> QED  BY <1>0, <2>2, <2>3, <2>4, BegunCall, CallEvolves
<1> QED  BY <1>1, <1>2, <1>3 DEF ShippedOK, CloserFits

\* The decision to close a retail order is taken when it is delivered.
LEMMA RetailDecision ==
    ASSUME OrderType = "agent_retail", IInv, NEW c \in Calls, tx[c].pc = "root",
           RootCloses(AsgAfter(c).root, StepsAfter(c))
    PROVE  AllDone(StepsAfter(c))
<1>1. order # "absent"
  BY DEF IInv, Unborn
<1>2. PICK k \in 1 .. Len(Workflow) + 1 : Prefix(StepsAfter(c), k)
  BY <1>1, AfterPrefix
<1>3. Len(Workflow) = 2 /\ 2 \in Steps /\ KeyOf(2) = "deliver_items"
  BY RetailWorkflow DEF Steps
<1>4. StepsAfter(c)[2] = "done"
  BY <1>3 DEF RootCloses
<1> QED  BY <1>2, <1>3, <1>4, LastStepDone

Confirmed(st) == \A s \in Steps : KeyOf(s) = "confirm_received" => st[s] = "done"

\* The rows of the root task: the requester's, done when the receipt is confirmed, and
\* those of people who claimed it, which are not done.
RootRows ==
    \A i \in Rows("root") :
        /\ asg["root"][i].role \in {NoRole, "requester"}
        /\ asg["root"][i].status = "done" => asg["root"][i].role = "requester" /\ Confirmed(step)

\* The requester has a row before anyone can do anything for the order.
RootStaffed ==
    /\ \A t \in RoleTasks : Exists(t) => Rows("root") # {}
    /\ creating.at \notin {"start", "root", "root_requester", "failed"} => Rows("root") # {}
    /\ \A c \in Calls : tx[c].row # 0 => Rows("root") # {}

\* The calls are those of people for their own rows, or calls of the engine alone.
OwnCall(c) ==
    /\ tx[c].pc \notin Parents
    /\ tx[c].step # 0 => step[tx[c].step] # "pending"
    /\ tx[c].row # 0 =>
          /\ tx[c].user \notin Admins
          /\ tx[c].task = "root" =>
                /\ tx[c].row \in Rows("root") /\ tx[c].role = asg["root"][tx[c].row].role
                /\ tx[c].role = "requester" <=> KeyOf(tx[c].step) = "confirm_received"
                /\ tx[c].pc = "marking" => tx[c].role = "requester"

\* On the root task a call marks at most the requester's row, with the confirmation.
ConfirmMarks(c) ==
    \A i : /\ RowLock("root", i) \notin tx[c].due
           /\ RowLock("root", i) \in tx[c].marks =>
                 /\ tx[c].row # 0 /\ tx[c].task = "root" /\ i = tx[c].row /\ tx[c].role = "requester"
                 /\ tx[c].pc \notin {"read", "acking", "marking", "noting"}
                 /\ tx[c].pc # "engine" => Confirmed(StepsAfter(c))

RequesterOK ==
    /\ RootRows /\ RootStaffed
    /\ \A c \in Calls : tx[c].pc # "idle" => OwnCall(c)
    /\ \A c \in Calls : ConfirmMarks(c)

\* At first there is no requester.
LEMMA RequesterInit == Init => RequesterOK
<1> SUFFICES ASSUME Init PROVE RequesterOK
  OBVIOUS
<1>1. (\A t \in TaskIds : ~Exists(t) /\ Rows(t) = {}) /\ \A c \in Calls : tx[c] = Idle
  BY DEF Init, Exists, Rows
<1>2. "root" \in TaskIds /\ RoleTasks \subseteq TaskIds
  BY DEF TaskIds, RoleTasks
<1> QED
  BY <1>1, <1>2, IdleType DEF Init, RequesterOK, RootRows, RootStaffed, ConfirmMarks

\* What may make a row of the root task done.
LEMMA RootRowDone ==
    ASSUME MaxOps = 0, TypeOK, [Next]_vars, NEW i \in DOMAIN asg["root"],
           asg'["root"][i].status # asg["root"][i].status
    PROVE  \E c \in Calls : /\ ChainCommit(c) \/ CompleteCommit(c)
                            /\ RowLock("root", i) \in tx[c].marks \cup tx[c].due
<1>0. "root" \in TaskIds /\ asg' # asg
  BY DEF TaskIds
<1>1. ASSUME NEW r \in TaskIds, NEW a \in Assignment, RowAppended(r, a)
      PROVE  FALSE
  <2>1. asg'["root"][i] = asg["root"][i]
    <3>1. CASE r = "root"  BY <1>1, <3>1, AppendedRows
    <3>2. CASE r # "root"  BY <1>0, <1>1, <3>2, AppendedRows
    <3> QED  BY <3>1, <3>2
  <2> QED  BY <2>1
<1>2. ~Creation
  <2>1. ~AssignRequester
    <3>1. AssignRequester => RowAppended("root", [user |-> Creator, role |-> "requester", status |-> "pending"])
      BY <1>0 DEF AssignRequester, RowAppended
    <3> QED  BY <1>0, <1>1, <3>1, RowTypes
  <2> QED
    BY <1>0, <2>1 DEF Creation, CreateOrder, CreateRoot, RootInProgress, RootReopen,
           CreateRoleTask, OpenRoleTask, RefreshRoleTask, OpenAgain, RecomputeWrite
<1>3. ASSUME NEW u \in Users, NEW t \in TaskIds, ClaimTask(u, t) PROVE FALSE
  <2>1. RowAppended(t, [user |-> u, role |-> RequiredRole(t), status |-> "in_progress"])
    BY <1>0, <1>3 DEF ClaimTask, WithClaimer, RowAppended
  <2> QED  BY <1>0, <1>1, <2>1, RowTypes
<1>4. ASSUME NEW c \in Calls, Completing(c)
      PROVE  /\ ChainCommit(c) \/ CompleteCommit(c)
             /\ RowLock("root", i) \in tx[c].marks \cup tx[c].due
  <2>1. ~Quietly(c)
    BY <1>0, QuietMoves
  <2>2. CASE ChainCommit(c)
    <3>1. asg' = AsgAfter(c)  BY <2>2 DEF ChainCommit
    <3> QED  BY <1>0, <2>2, <3>1, AfterRows
  <2>3. CASE CompleteCommit(c)
    BY <1>0, <2>3, CommittedRows
  <2> QED  BY <1>4, <2>1, <2>2, <2>3 DEF Completing, Quietly
<1>5. CASE \/ UNCHANGED vars \/ Crash \/ \E c \in Calls, s \in Steps : StepBegin(c, s)
           \/ \E c \in Calls, u \in Users, r \in TaskIds : CompleteBegin(c, u, r)
  BY <1>0, <1>5 DEF vars, Crash, StepBegin, CompleteBegin
<1> QED  BY <1>2, <1>3, <1>4, <1>5, NoInterventions DEF Next

\* Steps once confirmed, or only begun, stay so.
LEMMA StepsStay ==
    ASSUME IInv, [Next]_vars
    PROVE  /\ Confirmed(step) => Confirmed(step')
           /\ \A s \in Steps : order # "absent" /\ step[s] # "pending" => step'[s] # "pending"
<1>1. Confirmed(step) => Confirmed(step')
  BY StepsOneByOne DEF Confirmed, OneStepMore
<1>2. ASSUME NEW s \in Steps, order # "absent", step[s] # "pending" PROVE step'[s] # "pending"
  <2>1. CASE step' = step  BY <1>2, <2>1
  <2>2. CASE step' # step
    <3>1. PICK k \in 1 .. Len(Workflow) + 1 : Prefix(step, k) /\ Prefix(step', k + 1)
      BY <1>2, <2>2, StepChange
    <3>2. s \in Nat /\ k \in Nat
      BY WorkflowLength DEF Steps
    <3>3. ~(s > k)
      BY <1>2, <3>1, <3>2 DEF Prefix
    <3> QED  BY <3>1, <3>2, <3>3 DEF Prefix
  <2> QED  BY <2>1, <2>2
<1> QED  BY <1>1, <1>2

\* Every step keeps the rows of the root task as RootRows says.
LEMMA RootRowsStep ==
    ASSUME MaxOps = 0, IInv, RequesterOK, [Next]_vars
    PROVE  RootRows'
<1>0. TypeOK /\ "root" \in TaskIds /\ ops' = ops /\ asg["root"] \in Seq(Assignment)
  BY NoInterventions DEF IInv, TaskIds, TypeOK
<1>1. \A i \in DOMAIN asg["root"] : RowKept("root", i)
  BY <1>0, RowsKept
<1>2. ASSUME NEW i \in DOMAIN asg["root"]
      PROVE  /\ asg'["root"][i].role \in {NoRole, "requester"}
             /\ asg'["root"][i].status = "done" => asg'["root"][i].role = "requester" /\ Confirmed(step')
  <2>1. asg["root"][i].role \in {NoRole, "requester"} /\ asg'["root"][i].role = asg["root"][i].role
    BY <1>1 DEF RequesterOK, RootRows, Rows, RowKept
  <2>2. CASE asg'["root"][i].status = asg["root"][i].status
    BY <2>1, <2>2, StepsStay DEF RequesterOK, RootRows, Rows
  <2>3. ASSUME NEW c \in Calls, ChainCommit(c) \/ CompleteCommit(c),
               RowLock("root", i) \in tx[c].marks \cup tx[c].due
        PROVE  asg["root"][i].role = "requester" /\ Confirmed(step')
    <3>1. tx[c].pc \in {"chain", "commit"} /\ step' = StepsAfter(c)
      BY <2>3 DEF ChainCommit, CompleteCommit
    <3>2. OwnCall(c) /\ ConfirmMarks(c)
      BY <3>1 DEF RequesterOK
    <3>3. /\ tx[c].row # 0 /\ tx[c].task = "root" /\ i = tx[c].row /\ tx[c].role = "requester"
          /\ Confirmed(StepsAfter(c))
      BY <2>3, <3>1, <3>2 DEF ConfirmMarks
    <3>4. tx[c].role = asg["root"][tx[c].row].role
      BY <3>2, <3>3 DEF OwnCall
    <3> QED  BY <3>1, <3>3, <3>4
  <2> QED  BY <1>0, <2>1, <2>2, <2>3, RootRowDone
<1>3. ASSUME NEW a \in Assignment, RowAppended("root", a), a.role \in {NoRole, "requester"}, a.status # "done"
      PROVE  RootRows'
  <2>1. DOMAIN asg'["root"] = DOMAIN asg["root"] \cup {Len(asg["root"]) + 1}
        /\ asg'["root"][Len(asg["root"]) + 1] = a
    BY <1>0, <1>3, AppendedRows
  <2> QED  BY <1>2, <1>3, <2>1 DEF RootRows, Rows
<1>4. CASE DOMAIN asg'["root"] = DOMAIN asg["root"]
  BY <1>2, <1>4 DEF RootRows, Rows
<1>5. CASE RowsMarked(asg')
  BY <1>0, <1>4, <1>5 DEF RowsMarked
<1>6. CASE RowAppended("root", [user |-> Creator, role |-> "requester", status |-> "pending"])
  BY <1>3, <1>6, RowTypes
<1>7. ASSUME NEW u \in Users, NEW t \in TaskIds,
             RowAppended(t, [user |-> u, role |-> RequiredRole(t), status |-> "in_progress"])
      PROVE  RootRows'
  <2>1. CASE t = "root"
    BY <1>3, <1>7, <2>1, RowTypes DEF RequiredRole
  <2>2. CASE t # "root"
    BY <1>0, <1>4, <1>7, <2>2, AppendedRows, RowTypes
  <2> QED  BY <2>1, <2>2
<1>8. \A u, v \in Users, r \in TaskIds, l \in Roles :
         ~AssignUser(u, r, v, l) /\ \A i \in Rows(r) : ~ReassignAssignment(u, r, i, v, l)
  BY <1>0, NoInterventions DEF Intervention
<1> QED  BY <1>0, <1>5, <1>6, <1>7, <1>8, RowsChange

\* A call has a row only by its begin.
LEMMA RowOfCall ==
    ASSUME TypeOK, [Next]_vars, NEW c \in Calls, tx'[c].row # 0
    PROVE  tx[c].row # 0 \/ \E t \in TaskIds : Rows(t) # {}
<1>1. CASE \E u \in Users, t \in TaskIds : CompleteBegin(c, u, t)
  BY <1>1, BeginMoves
<1>2. CASE \E s \in Steps : StepBegin(c, s)
  BY <1>2, BeginMoves
<1>3. CASE \E u \in Users : ForceComplete(c, u, "delivery")
  BY <1>3, BeginMoves DEF TaskIds
<1>4. CASE Quietly(c) /\ Moves(c)
  <2>1. CASE \E l \in Needs(c) : tx'[c] = [tx[c] EXCEPT !.held = @ \cup {l}]
    BY <2>1, AcquiredCall
  <2> QED  BY <1>4, <2>1 DEF Moves, RecordAt
<1> QED  BY <1>1, <1>2, <1>3, <1>4, IdleType, CallEvolves DEF ChainGoesOn

\* The requester's row comes first, and stays.
LEMMA RootStaffedStep ==
    ASSUME MaxOps = 0, HasRequester, IInv, TasksOK, RequesterOK, [Next]_vars
    PROVE  RootStaffed'
<1>0. TypeOK /\ "root" \in TaskIds /\ asg["root"] \in Seq(Assignment)
      /\ \A t \in TaskIds : Rows(t) # {} => Exists(t)
  BY DEF IInv, TypeOK, TaskIds, TasksOK, TasksExist
<1>1. Rows("root") # {} => Rows("root")' # {}
  BY <1>0, RowsKept DEF Rows
<1>2. CASE Rows("root") # {}
  BY <1>1, <1>2 DEF RootStaffed
<1>3. CASE Rows("root") = {}
  <2>1. /\ \A t \in RoleTasks : ~Exists(t)
        /\ creating.at \in {"start", "root", "root_requester", "failed"}
        /\ \A c \in Calls : tx[c].row = 0
    BY <1>3 DEF RequesterOK, RootStaffed
  <2>2. ASSUME \A t \in RoleTasks : ~Exists(t)',
               creating'.at \in {"start", "root", "root_requester", "failed"},
               \A c \in Calls : tx'[c].row = 0
        PROVE  RootStaffed'
    BY <2>2 DEF RootStaffed
  <2>6. \A c \in Calls : tx'[c].row = 0
    <3>1. \A t \in TaskIds : Rows(t) = {}
      BY <1>0, <1>3, <2>1 DEF RoleTasks
    <3> QED  BY <1>0, <2>1, <3>1, RowOfCall
  <2>7. CASE ~Creation
    <3>1. \A t \in RoleTasks : ~Exists(t)'
      BY <1>0, <2>1, <2>7, TasksStay DEF RoleTasks
    <3>2. creating'.at \in {"start", "root", "root_requester", "failed"}
      BY <1>0, <2>1, <2>7, CreationMoves
    <3> QED  BY <2>2, <2>6, <3>1, <3>2
  <2>8. CASE CreateOrder
    <3>1. task' = task /\ creating'.at = "root"  BY <2>8 DEF CreateOrder, Goto
    <3> QED  BY <2>1, <2>2, <2>6, <3>1 DEF Exists
  <2>9. CASE CreateRoot
    <3>1. creating'.at = "root_requester" /\ \A t \in RoleTasks : task'[t] = task[t]
      BY <1>0, <2>9 DEF CreateRoot, Goto, RoleTasks, TypeOK
    <3> QED  BY <2>1, <2>2, <2>6, <3>1 DEF Exists
  <2>10. CASE AssignRequester
    <3>1. RowOf("root", Creator) = {}
      BY <1>3 DEF RowOf
    <3>2. RowAppended("root", [user |-> Creator, role |-> "requester", status |-> "pending"])
      BY <2>10, <3>1 DEF AssignRequester, RowAppended
    <3>3. Rows("root")' # {}
      BY <1>0, <3>2, AppendedRows, RowTypes DEF Rows
    <3> QED  BY <3>3 DEF RootStaffed
  <2> QED
    BY <2>1, <2>7, <2>8, <2>9, <2>10 DEF Creation, RootInProgress, RootReopen, CreateRoleTask,
       OpenRoleTask, RefreshRoleTask, OpenAgain, RecomputeWrite
<1> QED  BY <1>2, <1>3

\* A call that goes on, or does nothing, stays the call of its user for a row.
LEMMA OwnCallStays ==
    ASSUME MaxOps = 0, IInv, RequesterOK, [Next]_vars, NEW c \in Calls, tx[c].pc # "idle",
           tx'[c].pc \notin Parents,
           tx'[c].user = tx[c].user, tx'[c].task = tx[c].task, tx'[c].row = tx[c].row,
           tx'[c].role = tx[c].role, tx'[c].step = tx[c].step,
           tx[c].row # 0 /\ tx[c].task = "root" /\ tx'[c].pc = "marking" =>
               tx[c].pc = "marking" \/ tx[c].role = "requester"
    PROVE  OwnCall(c)'
<1>0. OwnCall(c) /\ TypeOK /\ order # "absent" /\ "root" \in TaskIds
  BY DEF RequesterOK, IInv, Unborn, TaskIds
<1>1. tx[c].step # 0 => step'[tx[c].step] # "pending"
  <2>1. tx[c].step \in Steps \cup {0}  BY <1>0 DEF TypeOK, Call
  <2> QED  BY <1>0, <2>1, StepsStay DEF OwnCall
<1>2. ASSUME tx[c].task = "root", tx[c].row # 0
      PROVE  /\ tx[c].row \in Rows("root")' /\ tx[c].role = asg'["root"][tx[c].row].role
             /\ tx[c].role = "requester" <=> KeyOf(tx[c].step) = "confirm_received"
             /\ tx'[c].pc = "marking" => tx[c].role = "requester"
  <2>1. /\ tx[c].row \in DOMAIN asg["root"] /\ tx[c].role = asg["root"][tx[c].row].role
        /\ tx[c].role = "requester" <=> KeyOf(tx[c].step) = "confirm_received"
        /\ tx[c].pc = "marking" => tx[c].role = "requester"
    BY <1>0, <1>2 DEF OwnCall, Rows
  <2>2. RowKept("root", tx[c].row)
    BY <1>0, <2>1, RowsKept, NoInterventions
  <2> QED  BY <1>2, <2>1, <2>2 DEF RowKept, Rows
<1>3. tx[c].row # 0 => tx[c].user \notin Admins
  BY <1>0 DEF OwnCall
<1>4. KeyOf(tx[c].step)' = KeyOf(tx'[c].step)
  BY DEF KeyOf
<1> QED  BY <1>1, <1>2, <1>3, <1>4 DEF OwnCall, Parents

\* A call begins for a row of its user, and with an active step of the row's role.
LEMMA OwnCallBegins ==
    ASSUME MaxOps = 0, HasRequester, IInv, RequesterOK, [Next]_vars,
           NEW c \in Calls, NEW u \in Users, NEW t \in TaskIds, CompleteBegin(c, u, t)
    PROVE  OwnCall(c)'
<1>0. TypeOK /\ u \notin Admins /\ step' = step /\ asg' = asg
  BY NoInterventions DEF IInv, CompleteBegin
<1> DEFINE i == tx'[c].row
           s == tx'[c].step
<1>1. /\ tx'[c].pc = "read" /\ tx'[c].user = u /\ tx'[c].task = t
      /\ i \in Rows(t) /\ tx'[c].role = asg[t][i].role /\ s \in PickStep(u, asg[t][i].role)
  <2>1. /\ tx'[c].pc = "read" /\ tx'[c].user = u /\ tx'[c].task = t
        /\ tx'[c].row \in Rows(t) /\ tx'[c].role = asg[t][tx'[c].row].role
        /\ tx'[c].step \in PickStep(u, tx'[c].role)
    BY <1>0, BeginMoves
  <2> QED  BY <2>1
<1> HIDE DEF i, s
<1>4. \/ s = 0 /\ asg[t][i].role = NoRole
      \/ s \in StepsFor(asg[t][i].role) /\ step[s] = "active"
  BY <1>0, <1>1 DEF PickStep
<1>5. s # 0 => step[s] # "pending"
  BY <1>4
<1>6. ASSUME t = "root"
      PROVE  asg["root"][i].role = "requester" <=> KeyOf(s) = "confirm_received"
  <2>1. asg["root"][i].role \in {NoRole, "requester"}
    BY <1>1, <1>6 DEF RequesterOK, RootRows
  <2>2. CASE s = 0 /\ asg["root"][i].role = NoRole
    BY <2>2 DEF KeyOf, NoRole
  <2>3. CASE s \in StepsFor(asg["root"][i].role)
    <3>1. asg["root"][i].role = "requester"
      BY <2>1, <2>3 DEF StepsFor, Roles, NoRole
    <3>2. s \in Steps /\ Workflow[s].key = "confirm_received"
      BY <2>3, <3>1 DEF StepsFor, Roles, RoleToSteps
    <3>3. s # 0
      BY <3>2, WorkflowLength DEF Steps
    <3> QED  BY <3>1, <3>2, <3>3 DEF KeyOf
  <2> QED  BY <1>4, <1>6, <2>2, <2>3
<1>7. KeyOf(tx[c].step)' = KeyOf(s)
  BY DEF KeyOf, s
<1>8. Rows("root")' = Rows("root")
  BY <1>0 DEF Rows
<1> QED  BY <1>0, <1>1, <1>5, <1>6, <1>7, <1>8 DEF OwnCall, Parents, i, s

\* Before a call marks its own row on the root task it has seen that it is the requester's.
LEMMA MarkingOwn ==
    ASSUME HasRequester, RequesterOK, NEW c \in Calls, tx[c].pc # "idle", OwnCall(c),
           tx[c].row # 0, tx[c].task = "root", MarksOwn(c)
    PROVE  tx[c].role = "requester"
<1>1. /\ tx[c].user \notin Admins
      /\ tx[c].role = "requester" <=> KeyOf(tx[c].step) = "confirm_received"
      /\ tx[c].role \in {NoRole, "requester"}
  BY DEF OwnCall, RequesterOK, RootRows
<1>2. (\E s \in Steps : Workflow[s].role = tx[c].role) => tx[c].role # NoRole
  BY RestockWorkflow
<1> QED  BY <1>1, <1>2 DEF MarksOwn

\* Every step keeps the calls those of their users.
LEMMA OwnCallStep ==
    ASSUME MaxOps = 0, HasRequester, IInv, RequesterOK, [Next]_vars, NEW c \in Calls, tx'[c].pc # "idle"
    PROVE  OwnCall(c)'
<1>a. TypeOK  BY DEF IInv
<1>1. CASE tx'[c] = tx[c]
  BY <1>1, OwnCallStays DEF RequesterOK, OwnCall
<1>2. CASE \E u \in Users, t \in TaskIds : CompleteBegin(c, u, t)
  BY <1>2, OwnCallBegins
<1>3. ASSUME NEW s \in Steps, StepBegin(c, s) PROVE OwnCall(c)'
  <2>1. tx'[c].pc = "engine" /\ tx'[c].step = s /\ tx'[c].row = 0 /\ step' = step
    BY <1>a, <1>3, BeginMoves
  <2>2. step[s] = "active"
    BY <1>3 DEF StepBegin, StillActive
  <2> QED  BY <2>1, <2>2 DEF OwnCall, Parents
<1>4. \A u \in Users : ~ForceComplete(c, u, "delivery")
  BY <1>a, NoInterventions DEF Intervention, TaskIds
<1>5. CASE ChainGoesOn(c)
  <2>1. tx'[c].pc \notin Parents /\ tx'[c].pc # "marking" /\ tx[c].pc # "idle"
    BY <1>5 DEF ChainGoesOn, Parents
  <2>2. /\ tx'[c].user = tx[c].user /\ tx'[c].task = tx[c].task /\ tx'[c].row = tx[c].row
        /\ tx'[c].role = tx[c].role /\ tx'[c].step = tx[c].step
    BY <1>5 DEF ChainGoesOn
  <2> QED  BY <2>1, <2>2, OwnCallStays
<1>6. CASE Quietly(c) /\ Moves(c)
  <2>0. OwnCall(c) /\ tx[c].pc # "idle" /\ tx[c].pc \notin Parents
    BY <1>a, <1>6, QuietMoves DEF RequesterOK, OwnCall
  <2>1. CASE \E l \in Needs(c) : tx'[c] = [tx[c] EXCEPT !.held = @ \cup {l}]
    <3>1. /\ tx'[c].pc = tx[c].pc /\ tx'[c].user = tx[c].user /\ tx'[c].task = tx[c].task
          /\ tx'[c].row = tx[c].row /\ tx'[c].role = tx[c].role /\ tx'[c].step = tx[c].step
      BY <1>a, <2>1, AcquiredCall
    <3> QED  BY <2>0, <3>1, OwnCallStays
  <2>2. CASE tx[c].pc = "acking" /\ RecordAt(c, IF MarksOwn(c) THEN "marking" ELSE "noting")
    <3>1. tx[c].row # 0 /\ tx[c].task = "root" /\ tx'[c].pc = "marking" => tx[c].role = "requester"
      BY <2>0, <2>2, MarkingOwn DEF RecordAt
    <3> QED  BY <2>0, <2>2, <3>1, OwnCallStays DEF RecordAt, Parents
  <2>3. CASE /\ tx'[c].pc \notin Parents /\ tx'[c].pc # "marking"
             /\ \E at : RecordAt(c, at)
    BY <2>0, <2>3, OwnCallStays DEF RecordAt
  <2>4. \/ \E l \in Needs(c) : tx'[c] = [tx[c] EXCEPT !.held = @ \cup {l}]
        \/ tx[c].pc = "acking" /\ RecordAt(c, IF MarksOwn(c) THEN "marking" ELSE "noting")
        \/ /\ tx'[c].pc \notin Parents /\ tx'[c].pc # "marking"
           /\ \E at : RecordAt(c, at)
    BY <1>6, <2>0 DEF Moves, RecordAt, AfterEngine, Parents
  <2> QED  BY <2>1, <2>2, <2>3, <2>4
<1> QED  BY <1>a, <1>1, <1>2, <1>3, <1>4, <1>5, <1>6, IdleType, CallEvolves

\* The step a call has tried to complete is done afterwards, whoever has completed it.
LEMMA ConfirmedByEngine ==
    ASSUME HasRequester, IInv, [Next]_vars, NEW c \in Calls, tx[c].pc # "idle", OwnCall(c),
           KeyOf(tx[c].step) = "confirm_received", tx'[c].step = tx[c].step,
           tx'[c].won = StillActive(tx[c].step), step' = step
    PROVE  Confirmed(StepsAfter(c)')
<1>0. TypeOK /\ order # "absent" /\ tx[c] \in Call
  BY DEF IInv, TypeOK, Unborn
<1>5. tx[c].step \in Steps /\ tx[c].step # 0 /\ tx[c].step = 5
  BY <1>0, RestockWorkflow DEF Call
<1>6. StepsAfter(c)'[5] = "done"
  <2>1. CASE StillActive(tx[c].step)
    <3>1. StepsAfter(c)' = EngineComplete(step, tx[c].step)'
      BY <2>1 DEF StepsAfter
    <3>2. EngineComplete(step, tx[c].step)' = EngineComplete(step, 5)
      BY <1>0, <1>5 DEF EngineComplete, NextStep, Pending
    <3>3. PICK k \in 1 .. Len(Workflow) + 1 : Prefix(step, k)
      BY <1>0 DEF IInv, StepInv, StepsInOrder, Prefix
    <3>4. 5 \in Steps /\ step[5] = "active" /\ step \in [Steps -> StepStatus]
      BY <1>0, <1>5, <2>1 DEF StillActive, TypeOK
    <3>5. k = 5 /\ Prefix(EngineComplete(step, 5), k + 1)
      BY <3>3, <3>4, EngineAdvances
    <3>6. EngineComplete(step, 5)[5] = "done"
      BY <3>4, <3>5 DEF Prefix
    <3> QED  BY <3>1, <3>2, <3>6
  <2>2. CASE ~StillActive(tx[c].step)
    <3>1. StepsAfter(c)' = step'
      BY <2>2 DEF StepsAfter
    <3>2. step[5] # "pending" /\ step[5] # "active" /\ step[5] \in StepStatus
      BY <1>0, <1>5, <2>2 DEF OwnCall, StillActive, TypeOK
    <3> QED  BY <1>0, <3>1, <3>2 DEF StepStatus
  <2> QED  BY <2>1, <2>2
<1> QED  BY <1>6, RestockWorkflow DEF Confirmed

\* A mark that is confirmed stays so while the call goes on.
LEMMA ConfirmMarksStay ==
    ASSUME IInv, [Next]_vars, NEW c \in Calls, ConfirmMarks(c),
           tx'[c].pc \notin {"read", "acking", "marking", "noting"} \/ tx'[c].pc = tx[c].pc,
           tx'[c].pc = "engine" \/ tx[c].pc # "engine",
           tx'[c].task = tx[c].task, tx'[c].row = tx[c].row, tx'[c].role = tx[c].role,
           tx'[c].step = tx[c].step, tx'[c].won = tx[c].won,
           \A i : /\ RowLock("root", i) \notin tx'[c].due
                  /\ RowLock("root", i) \in tx'[c].marks => RowLock("root", i) \in tx[c].marks
    PROVE  ConfirmMarks(c)'
<1>1. Confirmed(StepsAfter(c)) => Confirmed(StepsAfter(c)')
  BY AfterStays DEF Confirmed
<1>2. Confirmed(StepsAfter(c))' <=> Confirmed(StepsAfter(c)')
  BY DEF Confirmed, KeyOf
<1>3. \A i : RowLock("root", i)' = RowLock("root", i)
  BY DEF RowLock
<1> QED  BY <1>1, <1>2, <1>3 DEF ConfirmMarks

\* A call that has marked nothing of the root task.
LEMMA NoRootMarks ==
    ASSUME NEW c \in Calls,
           \A i : RowLock("root", i) \notin tx'[c].due /\ RowLock("root", i) \notin tx'[c].marks
    PROVE  ConfirmMarks(c)'
BY DEF ConfirmMarks, RowLock

\* Every step keeps the marks of the calls on the root task.
LEMMA ConfirmMarksStep ==
    ASSUME MaxOps = 0, HasRequester, IInv, TasksOK, RequesterOK, [Next]_vars, NEW c \in Calls
    PROVE  ConfirmMarks(c)'
<1> DEFINE r == tx[c]
           n == tx'[c]
<1>0. /\ TypeOK /\ ConfirmMarks(c) /\ r \in Call /\ "root" \in TaskIds
      /\ r.pc # "idle" => OwnCall(c)
  BY DEF IInv, TypeOK, RequesterOK, TaskIds
<1>1. CASE n = r
  BY <1>0, <1>1, ConfirmMarksStay DEF ConfirmMarks
<1>2. CASE n.due = {} /\ n.marks = {}
  BY <1>2, NoRootMarks
<1>3. CASE ChainGoesOn(c)
  <2>1. \A i : RowLock("root", i) \notin r.due  BY <1>0 DEF ConfirmMarks
  <2> QED  BY <1>3, <2>1, NoRootMarks DEF ChainGoesOn
<1>4. CASE Quietly(c) /\ Moves(c)
  <2>0. /\ OwnCall(c) /\ r.pc # "idle" /\ r.pc \notin Parents
        /\ UNCHANGED <<step, asg>>
        /\ \A i : RowLock("root", i) \notin r.due
        /\ \A t, i, I : t # "root" => RowLock("root", i) \notin RowLocks(t, I)
    <3>1. UNCHANGED <<step, asg>> /\ r.pc # "idle"
      BY <1>0, <1>4, QuietMoves
    <3>2. \A t, i, I : t # "root" => RowLock("root", i) \notin RowLocks(t, I)
      BY LockKinds DEF RowLocks
    <3> QED  BY <1>0, <3>1, <3>2 DEF OwnCall, ConfirmMarks
  <2>1. CASE /\ r.pc = "read" /\ RecordAt(c, "acking")
             /\ \/ n.due = {}
                \/ n.due = RowLocks(r.task, AckRows(c) \cap Undone(c, r.task))
    <3>1. \A i : RowLock("root", i) \notin n.due
      <4>1. CASE r.task = "root"
        <5>1. \A j \in Rows("root") : asg["root"][j].role \in {NoRole, "requester"}
          BY DEF RequesterOK, RootRows
        <5>2. Acknowledges(r.step) # NoRole => Acknowledges(r.step) \notin {NoRole, "requester"}
          BY DEF Acknowledges, NoRole
        <5>3. AckRows(c) = {}
          BY <4>1, <5>1, <5>2 DEF AckRows
        <5> QED  BY <2>1, <5>3 DEF RowLocks
      <4>2. CASE r.task # "root"
        BY <2>0, <2>1, <4>2
      <4> QED  BY <4>1, <4>2
    <3>2. n.marks = r.marks /\ n.pc = "acking"
      BY <2>1 DEF RecordAt
    <3>3. \A i : RowLock("root", i) \notin r.marks
      BY <1>0, <2>1 DEF ConfirmMarks
    <3> QED  BY <3>1, <3>2, <3>3, NoRootMarks
  <2>2. CASE r.pc = "acking" /\ n.marks = r.due /\ n.due = {}
    BY <2>0, <2>2, NoRootMarks
  <2>3. CASE /\ r.pc \in {"marking", "noting"} /\ RecordAt(c, IF r.step = 0 THEN "root" ELSE "engine")
             /\ n.marks = IF r.pc = "marking" THEN r.marks \cup Writes(c) ELSE r.marks
    <3>1. \A i : RowLock("root", i) \notin r.marks
      BY <1>0, <2>3 DEF ConfirmMarks
    <3>2. ASSUME NEW i, RowLock("root", i) \in n.marks
          PROVE  /\ r.row # 0 /\ r.task = "root" /\ i = r.row /\ r.role = "requester" /\ n.pc = "engine"
      <4>1. r.pc = "marking" /\ RowLock("root", i) \in {RowLock(r.task, r.row)}
        BY <2>3, <3>1, <3>2, WritesAt
      <4>2. r.task = "root" /\ i = r.row
        BY <4>1, LockKinds
      <4>3. r.row # 0
        BY <4>1 DEF TasksOK, TasksExist, CallFits, Direct, Parents
      <4>4. r.role = "requester" /\ KeyOf(r.step) = "confirm_received"
        BY <2>0, <4>1, <4>2, <4>3 DEF OwnCall
      <4>5. r.step # 0
        BY <4>4, RestockWorkflow
      <4> QED  BY <2>3, <4>2, <4>3, <4>4, <4>5 DEF RecordAt
    <3>3. \A i : RowLock("root", i) \notin n.due
      BY <2>0, <2>3 DEF RecordAt
    <3>4. n.row = r.row /\ n.task = r.task /\ n.role = r.role
      BY <2>3 DEF RecordAt
    <3> QED  BY <3>2, <3>3, <3>4 DEF ConfirmMarks, RowLock
  <2>4. CASE r.pc = "engine" /\ RecordAt(c, n.pc) /\ n.pc \in {"delivering", AfterEngine(c)}
             /\ n.won = StillActive(r.step)
    <3>1. /\ n.row = r.row /\ n.task = r.task /\ n.role = r.role /\ n.step = r.step
          /\ n.marks = r.marks /\ n.due = r.due
          /\ n.pc \notin {"read", "acking", "marking", "noting", "engine"}
      BY <2>4 DEF RecordAt, AfterEngine
    <3>2. ASSUME NEW i, RowLock("root", i) \in r.marks
          PROVE  /\ r.row # 0 /\ r.task = "root" /\ i = r.row /\ r.role = "requester"
                 /\ Confirmed(StepsAfter(c)')
      <4>1. r.row # 0 /\ r.task = "root" /\ i = r.row /\ r.role = "requester"
        BY <1>0, <3>2 DEF ConfirmMarks
      <4>2. KeyOf(r.step) = "confirm_received"
        BY <2>0, <4>1 DEF OwnCall
      <4> QED  BY <2>0, <2>4, <3>1, <4>1, <4>2, ConfirmedByEngine
    <3>3. Confirmed(StepsAfter(c))' <=> Confirmed(StepsAfter(c)')
      BY DEF Confirmed, KeyOf
    <3> QED  BY <2>0, <3>1, <3>2, <3>3 DEF ConfirmMarks, RowLock
  <2>5. CASE /\ r.pc \in {"delivering", "root", "closing", "cascade"}
             /\ n.pc \in {"chain", "root", "closing", "cascade", "commit"}
             /\ RecordAt(c, n.pc)
             /\ \/ n.marks = r.marks
                \/ n.marks = r.marks \cup r.due
                \/ n.marks = r.marks \cup Writes(c) /\ r.pc = "delivering"
             /\ n.due = r.due \/ n.due = RowLocks(NextLeft(c), Undone(c, NextLeft(c)))
    <3>1. \A i : RowLock("root", i) \in n.marks => RowLock("root", i) \in r.marks
      <4>1. r.pc = "delivering" => Writes(c) = {}
        <5>1. \A i \in Rows("root") : asg["root"][i].role # "delivery"
          BY DEF RequesterOK, RootRows, NoRole
        <5>2. {i \in Undone(c, "root") : asg["root"][i].role = "delivery"} = {}
          BY <5>1 DEF Undone
        <5> QED  BY <5>2, WritesAt DEF RowLocks
      <4> QED  BY <2>0, <2>5, <4>1
    <3>2. \A i : RowLock("root", i) \notin n.due
      BY <2>0, <2>5 DEF NextLeft
    <3>3. /\ n.row = r.row /\ n.task = r.task /\ n.role = r.role /\ n.step = r.step /\ n.won = r.won
      BY <2>5 DEF RecordAt
    <3> QED  BY <1>0, <2>5, <3>1, <3>2, <3>3, ConfirmMarksStay
  <2>6. CASE \E l \in Needs(c) : n = [r EXCEPT !.held = @ \cup {l}]
    <3>1. /\ n.pc = r.pc /\ n.task = r.task /\ n.row = r.row /\ n.role = r.role
          /\ n.step = r.step /\ n.due = r.due /\ n.marks = r.marks /\ n.won = r.won
      BY <1>0, <2>6, AcquiredCall
    <3> QED  BY <1>0, <2>0, <3>1, ConfirmMarksStay
  <2>7. \/ /\ r.pc = "read" /\ RecordAt(c, "acking")
           /\ \/ n.due = {}
              \/ n.due = RowLocks(r.task, AckRows(c) \cap Undone(c, r.task))
        \/ r.pc = "acking" /\ n.marks = r.due /\ n.due = {}
        \/ /\ r.pc \in {"marking", "noting"} /\ RecordAt(c, IF r.step = 0 THEN "root" ELSE "engine")
           /\ n.marks = IF r.pc = "marking" THEN r.marks \cup Writes(c) ELSE r.marks
        \/ r.pc = "engine" /\ RecordAt(c, n.pc) /\ n.pc \in {"delivering", AfterEngine(c)}
             /\ n.won = StillActive(r.step)
        \/ /\ r.pc \in {"delivering", "root", "closing", "cascade"}
           /\ n.pc \in {"chain", "root", "closing", "cascade", "commit"}
           /\ RecordAt(c, n.pc)
           /\ \/ n.marks = r.marks
              \/ n.marks = r.marks \cup r.due
              \/ n.marks = r.marks \cup Writes(c) /\ r.pc = "delivering"
           /\ n.due = r.due \/ n.due = RowLocks(NextLeft(c), Undone(c, NextLeft(c)))
        \/ \E l \in Needs(c) : n = [r EXCEPT !.held = @ \cup {l}]
    <3>1. CASE /\ r.pc = "delivering" /\ RecordAt(c, AfterEngine(c))
               /\ n.marks = r.marks \cup Writes(c)
      BY <3>1 DEF RecordAt, AfterEngine
    <3>2. CASE /\ r.pc = "root"
               /\ RecordAt(c, IF Exists("root") /\ RootCloses(AsgAfter(c).root, StepsAfter(c))
                              THEN "closing" ELSE "commit")
      <4>1. n.pc \in {"closing", "commit"} /\ RecordAt(c, n.pc) /\ n.marks = r.marks /\ n.due = r.due
        BY <3>2 DEF RecordAt
      <4> QED  BY <3>2, <4>1
    <3>3. CASE r.pc = "closing" /\ RecordAt(c, IF Cascaded = {} THEN "commit" ELSE "cascade")
      <4>1. n.pc \in {"cascade", "commit"} /\ RecordAt(c, n.pc) /\ n.marks = r.marks /\ n.due = r.due
        BY <3>3 DEF RecordAt
      <4> QED  BY <3>3, <4>1
    <3>4. CASE /\ r.pc = "cascade"
               /\ RecordAt(c, IF r.left \ {NextLeft(c)} = {} THEN "commit" ELSE "cascade")
               /\ n.marks = r.marks \cup r.due
               /\ n.due = RowLocks(NextLeft(c), Undone(c, NextLeft(c)))
      BY <3>4 DEF RecordAt
    <3>5. \/ /\ r.pc = "delivering" /\ RecordAt(c, AfterEngine(c))
             /\ n.marks = r.marks \cup Writes(c)
          \/ /\ r.pc = "root"
             /\ RecordAt(c, IF Exists("root") /\ RootCloses(AsgAfter(c).root, StepsAfter(c))
                            THEN "closing" ELSE "commit")
          \/ r.pc = "closing" /\ RecordAt(c, IF Cascaded = {} THEN "commit" ELSE "cascade")
          \/ /\ r.pc = "cascade"
             /\ RecordAt(c, IF r.left \ {NextLeft(c)} = {} THEN "commit" ELSE "cascade")
             /\ n.marks = r.marks \cup r.due
             /\ n.due = RowLocks(NextLeft(c), Undone(c, NextLeft(c)))
          \/ /\ r.pc = "read" /\ RecordAt(c, "acking")
             /\ \/ n.due = {}
                \/ n.due = RowLocks(r.task, AckRows(c) \cap Undone(c, r.task))
          \/ r.pc = "acking" /\ n.marks = r.due /\ n.due = {}
          \/ /\ r.pc \in {"marking", "noting"} /\ RecordAt(c, IF r.step = 0 THEN "root" ELSE "engine")
             /\ n.marks = IF r.pc = "marking" THEN r.marks \cup Writes(c) ELSE r.marks
          \/ r.pc = "engine" /\ RecordAt(c, n.pc) /\ n.pc \in {"delivering", AfterEngine(c)}
               /\ n.won = StillActive(r.step)
          \/ \E l \in Needs(c) : n = [r EXCEPT !.held = @ \cup {l}]
      BY <1>4, <2>0, ZenonT(60) DEF Moves, Parents
    <3> QED  BY <3>1, <3>2, <3>3, <3>4, <3>5
  <2> QED  BY <2>1, <2>2, <2>3, <2>4, <2>5, <2>6, <2>7
<1> QED  BY <1>0, <1>1, <1>2, <1>3, <1>4, BegunCall, IdleType, CallEvolves

\* Every step keeps the invariant of the orders with a requester.
LEMMA RequesterStep ==
    ASSUME MaxOps = 0, HasRequester, IInv, TasksOK, RequesterOK, [Next]_vars
    PROVE  RequesterOK'
<1>1. RootRows' /\ RootStaffed'
  BY RootRowsStep, RootStaffedStep
<1>2. \A c \in Calls : tx'[c].pc # "idle" => OwnCall(c)'
  BY OwnCallStep
<1>3. \A c \in Calls : ConfirmMarks(c)'
  BY ConfirmMarksStep
<1> QED  BY <1>1, <1>2, <1>3 DEF RequesterOK

\* The decision to close a restock is taken when the requester has confirmed the receipt.
LEMMA RestockDecision ==
    ASSUME HasRequester, IInv, TasksOK, RequesterOK, NEW c \in Calls, tx[c].pc = "root",
           RootCloses(AsgAfter(c).root, StepsAfter(c))
    PROVE  AllDone(StepsAfter(c))
<1>0. /\ TypeOK /\ order # "absent" /\ "root" \in TaskIds
      /\ asg["root"] \in Seq(Assignment)
  BY DEF IInv, Unborn, TypeOK, TaskIds
<1>1. ConfirmMarks(c) /\ Rows("root") # {} /\ RootRows
  <2>1. tx[c].row # 0
    BY DEF TasksOK, TasksExist, CallFits, Direct, Parents
  <2> QED  BY <2>1 DEF RequesterOK, RootStaffed
<1>2. PICK i \in DOMAIN asg["root"] : TRUE
  BY <1>1 DEF Rows
<1>3. AsgAfter(c)["root"][i].status = "done"
  <2>1. i \in DOMAIN AsgAfter(c)["root"]
    BY <1>0, RowsAfterMarked DEF RowsMarked
  <2> QED  BY <2>1 DEF RootCloses
<1>4. asg["root"][i].status = "done" \/ RowLock("root", i) \in tx[c].marks
  BY <1>0, <1>3, AfterRows
<1>5. Confirmed(StepsAfter(c))
  <2>1. CASE asg["root"][i].status = "done"
    <3>1. Confirmed(step)
      BY <1>1, <2>1 DEF RootRows, Rows
    <3> QED  BY <1>0, <3>1, AfterPrefix DEF Confirmed
  <2>2. CASE RowLock("root", i) \in tx[c].marks
    BY <1>1, <2>2 DEF ConfirmMarks
  <2> QED  BY <1>4, <2>1, <2>2
<1>6. 5 \in Steps /\ Len(Workflow) = 5 /\ StepsAfter(c)[5] = "done"
  <2>1. Len(Workflow) = 5 /\ \A s \in Steps : KeyOf(s) = "confirm_received" <=> s = 5
    BY RestockWorkflow
  <2>2. 5 \in Steps  BY <2>1 DEF Steps
  <2> QED  BY <1>5, <2>1, <2>2 DEF Confirmed
<1>7. PICK k \in 1 .. Len(Workflow) + 1 : Prefix(StepsAfter(c), k)
  BY <1>0, AfterPrefix
<1> QED  BY <1>6, <1>7, LastStepDone

\* An order is completed only when all its steps are done: for a retail order under all
\* interventions, and for a restock without them, because its requester's assignment is
\* there from the start and only the confirmation completes it.  (A wholesale order,
\* whose root task has no assignment, can be completed early.)  (CompletedMeansShipped)
THEOREM CompletedOrdersAreShipped ==
    ASSUME OrderType = "agent_retail" \/ (HasRequester /\ MaxOps = 0)
    PROVE  Spec => []CompletedMeansShipped
<1> DEFINE Inv == ShippedOK /\ (HasRequester => RequesterOK)
<1>1. Init => Inv
  BY ShippedInit, RequesterInit
<1>2. IInv /\ TasksOK /\ Inv /\ [Next]_vars => Inv'
  <2> SUFFICES ASSUME IInv, TasksOK, Inv, [Next]_vars PROVE Inv'
    OBVIOUS
  <2>1. CASE OrderType = "agent_retail"
    <3>1. ~HasRequester  BY <2>1 DEF HasRequester
    <3> QED  BY <2>1, <3>1, RetailDecision, ShippedStep
  <2>2. CASE HasRequester /\ MaxOps = 0
    BY <2>2, RestockDecision, ShippedStep, RequesterStep
  <2> QED  BY <2>1, <2>2
<1>3. Inv => CompletedMeansShipped
  BY DEF ShippedOK, CompletedMeansShipped, Shipped
<1>4. IInv /\ [Next]_vars => TypeOK /\ IInv'
  BY InvStep DEF IInv
<1> HIDE DEF Inv
<1> QED
  BY <1>1, <1>2, <1>3, <1>4, InvInit, TasksInit, TasksStep, PTL DEF Spec
=============================================================================
