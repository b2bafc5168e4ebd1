------------------------------- MODULE Notices -------------------------------
(***************************************************************************)
(* Notifications: services/notifications.py, services/notification_emitter *)
(* .py, automation/notification_hooks.py, api/notifications.py and the     *)
(* mentions of api/ws.py.                                                  *)
(*                                                                         *)
(* A notice is a row; emitting it walks authenticated_users, awaiting one  *)
(* send after the other, and a dictionary that has changed its size ends   *)
(* the walk with an exception.                                             *)
(***************************************************************************)
EXTENDS Integers, FiniteSets

CONSTANTS
    Staff,
    Admins, Holders, Creator,   \* admins and managers, the order's roles, its creator
    Lines, LineOf,              \* the sockets, and whose they are
    Events                      \* bound: the events there is something to tell of

ASSUME NoticesAssumption ==
    /\ Admins \cup Holders \cup {Creator} \subseteq Staff
    /\ LineOf \in [Lines -> Staff]

VARIABLES
    online,         \* authenticated_users
    participants,   \* the users with an assignment in the order
    notices,        \* notices[<<u, e>>]; a deleted row stays as "deleted"
    emitted,        \* <<u, e>>: sent to a socket of u
    job,            \* job[e]: the request that tells of event e
    cut             \* the events whose telling an exception has ended

noticeVars == <<online, participants, notices, emitted, job, cut>>

Unborn == [pc |-> "none"]

NoticesTypeOK ==
    /\ online \subseteq Lines /\ participants \subseteq Staff
    /\ notices \in [Staff \X Events -> {"none", "unread", "read", "deleted"}]
    /\ emitted \subseteq Staff \X Events
    /\ cut \subseteq Events
    /\ \A e \in Events : job[e].pc \in {"none", "make", "emit", "commit", "done", "failed"}

NoticesInit ==
    /\ online = {} /\ participants \in SUBSET Staff
    /\ notices = [p \in Staff \X Events |-> "none"]
    /\ emitted = {} /\ cut = {}
    /\ job = [e \in Events |-> Unborn]

LinesOf(u) == {l \in online : LineOf[l] = u}

\* complete_assignment defers the emission to after its commit; the other hooks commit and
\* emit recipient by recipient; a mention is emitted before it is committed.
Mode(kind) == CASE kind = "completed" -> "deferred"
                [] kind = "mention"   -> "early"
                [] OTHER              -> "at once"

\* The telling of an event begins, with the users it is for.
Begins(e, kind, to) ==
    /\ job[e] = Unborn
    /\ job' = [job EXCEPT ![e] = [pc |-> "make", kind |-> kind, to |-> to, left |-> to,
                                  flushed |-> {}]]
    /\ UNCHANGED <<online, notices, emitted, cut>>

\* on_task_assigned runs when the assignment has been committed, so the assignee is among
\* the participants of the order.
TaskAssigned(e, u) ==
    /\ participants' = participants \cup {u}
    /\ Begins(e, "assigned", participants')

\* on_task_auto_closed, on_task_completed: to the participants there are.
TaskClosed(e)    == Begins(e, "closed", participants) /\ UNCHANGED participants
TaskCompleted(e) == Begins(e, "completed", participants) /\ UNCHANGED participants

\* on_order_created: to the holders of the order's roles, not to its creator.
OrderCreated(e)  == Begins(e, "created", Holders \ {Creator}) /\ UNCHANGED participants

\* on_low_stock_alert: to admins and managers.
StockAlert(e)    == Begins(e, "stock", Admins) /\ UNCHANGED participants

Mentions(e)      == Begins(e, "mention", Staff \ {Creator}) /\ UNCHANGED participants

-----------------------------------------------------------------------------
(* Creating and emitting.                                                   *)

NoticesWith(us, e) == [p \in Staff \X Events |->
                     IF p[1] \in us /\ p[2] = e THEN "unread" ELSE notices[p]]

\* Mutant: only who is connected is told.
ToldConnected(u, e) == IF LinesOf(u) = {} THEN notices ELSE NoticesWith({u}, e)

\* create_notification with auto_commit.
Noticed(u, e) == NoticesWith({u}, e)

\* What is left to do for event e when u is done with.
After(e, u) == [job[e] EXCEPT !.pc = "make", !.left = @ \ {u}]

\* The walk for u begins: nothing is awaited for who has no socket.
Walk(e, u) == IF LinesOf(u) = {} THEN After(e, u)
              ELSE [pc |-> "emit", kind |-> job[e].kind, to |-> job[e].to,
                    left |-> job[e].left \ {u}, flushed |-> job[e].flushed,
                    user |-> u, size |-> Cardinality(online), sent |-> {}]

TellAtOnce(e) ==
    /\ job[e].pc = "make" /\ Mode(job[e].kind) = "at once"
    /\ \E u \in job[e].left : /\ notices' = Noticed(u, e)
                              /\ job' = [job EXCEPT ![e] = Walk(e, u)]
    /\ UNCHANGED <<online, participants, emitted, cut>>

\* A mention is sent to the user's websockets as soon as it is flushed.
SentWithFlush(e, u) ==
    IF Mode(job[e].kind) = "early" /\ LinesOf(u) # {} THEN emitted \cup {<<u, e>>} ELSE emitted

\* Flushed, not committed.
Flush(e) ==
    /\ job[e].pc = "make" /\ Mode(job[e].kind) # "at once"
    /\ \E u \in job[e].left :
          /\ job' = [job EXCEPT ![e].left = @ \ {u}, ![e].flushed = @ \cup {u}]
          /\ emitted' = SentWithFlush(e, u)
    /\ UNCHANGED <<online, participants, notices, cut>>

\* One commit for all that was flushed.
Committed(e) == NoticesWith(job[e].flushed, e)

\* The commit that a deferring caller makes, and emit_deferred_notifications.
Commit(e) ==
    /\ job[e].pc = "make" /\ job[e].left = {} /\ Mode(job[e].kind) # "at once"
    /\ notices' = Committed(e)
    /\ job' = [job EXCEPT ![e].pc = IF Mode(job[e].kind) = "early" THEN "done" ELSE "commit",
                          ![e].left = job[e].flushed]
    /\ UNCHANGED <<online, participants, emitted, cut>>

EmitDeferred(e) ==
    /\ job[e].pc = "commit"
    /\ IF job[e].left = {} THEN job' = [job EXCEPT ![e].pc = "done"]
       ELSE \E u \in job[e].left :
               job' = [job EXCEPT ![e] = IF LinesOf(u) = {} THEN [job[e] EXCEPT !.left = @ \ {u}]
                                         ELSE Walk(e, u)]
    /\ UNCHANGED <<online, participants, notices, emitted, cut>>

\* A telling whose walk is over.
Walked(j, pc) == [pc |-> pc, kind |-> j.kind, to |-> j.to, left |-> j.left, flushed |-> j.flushed]

\* The walk goes on after each send.  An exception ends the whole telling, unless the
\* emission was deferred: there it ends with this recipient.
Emit(e) ==
    /\ job[e].pc = "emit"
    /\ LET j    == job[e]
           back == IF Mode(j.kind) = "deferred" THEN "commit" ELSE "make"
           next == LinesOf(j.user) \ j.sent
       IN  IF Cardinality(online) # j.size
           THEN /\ job' = [job EXCEPT ![e] = Walked(j, IF Mode(j.kind) = "deferred" THEN back
                                                       ELSE "done")]
                /\ cut' = cut \cup {e} /\ UNCHANGED emitted
           ELSE IF next = {}
           THEN job' = [job EXCEPT ![e] = Walked(j, back)] /\ UNCHANGED <<emitted, cut>>
           ELSE /\ \E l \in next : job' = [job EXCEPT ![e].sent = @ \cup {l}]
                /\ emitted' = emitted \cup {<<j.user, e>>} /\ UNCHANGED cut
    /\ UNCHANGED <<online, participants, notices>>

ToldAll(e) ==
    /\ job[e].pc = "make" /\ job[e].left = {} /\ Mode(job[e].kind) = "at once"
    /\ job' = [job EXCEPT ![e].pc = "done"]
    /\ UNCHANGED <<online, participants, notices, emitted, cut>>

\* The caller's transaction fails with the rows that were flushed in it.
Fail(e) ==
    /\ job[e].pc = "make" /\ Mode(job[e].kind) # "at once"
    /\ job' = [job EXCEPT ![e].pc = "failed"]
    /\ UNCHANGED <<online, participants, notices, emitted, cut>>

\* The server stops.
Restart ==
    /\ job' = [e \in Events |-> IF job[e].pc \in {"none", "done"} THEN job[e]
                                ELSE [job[e] EXCEPT !.pc = "failed"]]
    /\ online' = {}
    /\ UNCHANGED <<participants, notices, emitted, cut>>

-----------------------------------------------------------------------------
(* Sockets come and go; the user reads.                                     *)

PlugIn(l) == l \notin online /\ online' = online \cup {l}
             /\ UNCHANGED <<participants, notices, emitted, job, cut>>

PlugOut(l) == l \in online /\ online' = online \ {l}
              /\ UNCHANGED <<participants, notices, emitted, job, cut>>

\* mark_notification_read; read-all and read-filtered mark a set of them.
ReadSome(u, es) ==
    /\ \E e \in es : notices[<<u, e>>] = "unread"
    /\ notices' = [p \in Staff \X Events |->
                     IF p[1] = u /\ p[2] \in es /\ notices[p] = "unread" THEN "read"
                     ELSE notices[p]]
    /\ UNCHANGED <<online, participants, emitted, job, cut>>

DeleteNotice(u, e) ==
    /\ notices[<<u, e>>] \in {"unread", "read"}
    /\ notices' = [notices EXCEPT ![<<u, e>>] = "deleted"]
    /\ UNCHANGED <<online, participants, emitted, job, cut>>

-----------------------------------------------------------------------------
NoticesNext ==
    \/ \E e \in Events : \/ TaskClosed(e) \/ TaskCompleted(e) \/ OrderCreated(e)
                         \/ StockAlert(e) \/ Mentions(e)
                         \/ \E u \in Staff : TaskAssigned(e, u)
    \/ \E e \in Events : \/ TellAtOnce(e) \/ Flush(e) \/ Commit(e) \/ EmitDeferred(e)
                         \/ Emit(e) \/ ToldAll(e) \/ Fail(e)
    \/ Restart
    \/ \E l \in Lines : PlugIn(l) \/ PlugOut(l)
    \/ \E u \in Staff : (\E es \in SUBSET Events : ReadSome(u, es))
                        \/ (\E e \in Events : DeleteNotice(u, e))

NoticesSpec == NoticesInit /\ [][NoticesNext]_noticeVars

-----------------------------------------------------------------------------
(* Properties.                                                              *)

\* An event that was told to the end has a notice for each recipient, unless a socket
\* coming or going ended the walk of one of them (socket.py:556).
MissedOnlyByChurn ==
    \A e \in Events : (job[e].pc = "done" /\ e \notin cut) =>
        \A u \in job[e].to : notices[<<u, e>>] # "none"

\* Nobody is sent a notice that is not there, but for mentions, which go out before their
\* commit; and a deferred telling leaves the rows of all its recipients or of none.
SentIsThere ==
    /\ \A p \in emitted : notices[p] # "none" \/ job[p[2]].kind = "mention"
    /\ \A e \in Events : (job[e].pc # "none" /\ Mode(job[e].kind) = "deferred") =>
           \/ \A u \in job[e].to : notices[<<u, e>>] # "none"
           \/ \A u \in job[e].to : notices[<<u, e>>] = "none"

\* A notice that is missing, or sent and not there, has one of these reasons.
NoticesExplained == MissedOnlyByChurn /\ SentIsThere

-----------------------------------------------------------------------------
(* What a comment of the code says, and the code does not do.               *)

\* "notifications are broadcast to ALL order participants" (notification_hooks.py:6).
AllParticipantsTold ==
    \A e \in Events : (job[e].pc = "done" /\ job[e].kind = "closed") =>
        \A u \in job[e].to : notices[<<u, e>>] # "none"
=============================================================================
