------------------------------- MODULE RoleDesk ------------------------------
(***************************************************************************)
(* Roles, their permissions and the operational roles of a user:           *)
(* api/system.py (roles), PUT /admin/users of api/admin.py.                *)
(*                                                                         *)
(* A set (the permissions of a role, the operational roles of a user) is   *)
(* replaced by reading it, deleting the rows that are there and inserting  *)
(* the new ones at the commit.  A DELETE sees what is committed when it    *)
(* starts, so replacements that overlap do not see each other's rows.      *)
(***************************************************************************)
EXTENDS Naturals, FiniteSets

CONSTANTS
    Workers,            \* users who get operational roles
    Permissions, Vital, \* all permissions; those system_admin has to keep
    Operational,        \* OPERATIONAL_ROLE_NAMES
    Custom,             \* names an administrator may give to a role
    RoleRequests,       \* requests in flight
    MaxEdits            \* bound: the number of requests

ASSUME RoleDeskAssumption ==
    /\ Vital \subseteq Permissions /\ MaxEdits \in Nat
    /\ "system_admin" \notin Operational \cup Custom
    /\ Workers \cap ({"system_admin"} \cup Operational \cup Custom) = {}

VARIABLES
    grants,     \* grants[r]: the rows of role_permissions of a role that exists
    works,      \* works[u]: the rows of user_operational_roles
    edit,       \* edit[c]: the request in flight
    edits,      \* the number of requests so far
    blended     \* history: the sets that overlapping replacements have written

roleVars == <<grants, works, edit, edits, blended>>

Names  == {"system_admin"} \cup Operational \cup Custom
Absent == {"absent"}
NoEdit == [pc |-> "idle"]
Known  == {r \in Names : grants[r] # Absent}

RolesTypeOK ==
    /\ \A r \in Names : grants[r] = Absent \/ grants[r] \in SUBSET Permissions
    /\ grants["system_admin"] = Absent \/ Vital \subseteq grants["system_admin"]
    /\ works \in [Workers -> SUBSET Operational]
    /\ \A c \in RoleRequests : edit[c].pc \in {"idle", "read", "cleared", "create"}
    /\ edits \in 0..MaxEdits /\ blended \subseteq Names \cup Workers

RolesInit ==
    /\ grants = [r \in Names |-> IF r = "system_admin" THEN Vital
                                 ELSE IF r \in Operational THEN {} ELSE Absent]
    /\ works = [u \in Workers |-> {}]
    /\ edit = [c \in RoleRequests |-> NoEdit]
    /\ edits = 0 /\ blended = {}

Takes(c, q) == /\ edit[c].pc = "idle" /\ edits < MaxEdits
               /\ edits' = edits + 1
               /\ edit' = [edit EXCEPT ![c] = q]
Leaves(c)   == edit' = [edit EXCEPT ![c] = NoEdit]

-----------------------------------------------------------------------------
(* The roles.                                                               *)

\* The name is looked up; the unique column refuses what overlaps.
RoleCreateBegin(c, r, P) ==
    /\ r \in Custom /\ r \notin Known
    /\ Takes(c, [pc |-> "create", names |-> {r}, new |-> P])
    /\ UNCHANGED <<grants, works, blended>>

\* ensure_operational_roles inserts the operational roles that it has not found.
OperationalEnsure(c) ==
    /\ Operational \ Known # {}
    /\ Takes(c, [pc |-> "create", names |-> Operational \ Known, new |-> {}])
    /\ UNCHANGED <<grants, works, blended>>

RoleCreateCommit(c) ==
    /\ edit[c].pc = "create"
    /\ Leaves(c)
    /\ grants' = IF edit[c].names \cap Known # {} THEN grants
                 ELSE [r \in Names |-> IF r \in edit[c].names THEN edit[c].new ELSE grants[r]]
    /\ blended' = IF edit[c].names \cap Known # {} THEN blended ELSE blended \ edit[c].names
    /\ UNCHANGED <<works, edits>>

\* Mutant: a system role may lose any permission.
AnyAllowed(r, P) == TRUE
\* update_role_permissions: system_admin keeps its vital permissions.
Allowed(r, P) == r = "system_admin" => Vital \subseteq P

PermissionsBegin(c, r, P) ==
    /\ r \in Known /\ Allowed(r, P) /\ P # grants[r]
    /\ Takes(c, [pc |-> "read", of |-> r, was |-> grants[r], new |-> P])
    /\ UNCHANGED <<grants, works, blended>>

\* A role that user_roles refers to cannot go: the relation has no cascade, and would have to
\* blank out the keys of these rows.  user_operational_roles holds names, and nothing looks there.
Deleted(r, inUse) ==
    /\ r \in Known /\ ~inUse /\ edits < MaxEdits
    /\ edits' = edits + 1
    /\ grants' = [grants EXCEPT ![r] = Absent]
    /\ UNCHANGED <<works, edit, blended>>

\* delete_role_db refuses the system role before it looks.
DeleteRole(r, inUse) == r # "system_admin" /\ Deleted(r, inUse)

\* DELETE /admin/hard-delete/role/{id} refuses none: without system_admin there is none again,
\* for create_role keeps its name reserved.
HardDeleteRole(r, inUse) == Deleted(r, inUse)

-----------------------------------------------------------------------------
(* The operational roles of a user.                                         *)

\* assign_operational_role gives one role that the user does not have, or takes all.
WorkBegin(c, u, R) ==
    /\ \/ R = {} /\ works[u] # {}
       \/ \E r \in Operational \cap Known : R = {r} /\ r \notin works[u]
    /\ Takes(c, [pc |-> "read", of |-> u, was |-> works[u], new |-> R])
    /\ UNCHANGED <<grants, works, blended>>

\* PUT /admin/users/{id} sets any list of names.
WorkPut(c, u, R) ==
    /\ Takes(c, [pc |-> "read", of |-> u, was |-> works[u], new |-> R])
    /\ UNCHANGED <<grants, works, blended>>

-----------------------------------------------------------------------------
(* Replacing a set.                                                         *)

Current(x) == IF x \in Workers THEN works[x] ELSE grants[x]

\* Mutant: only what was read is deleted.
ClearedAsRead(q) == q.was
\* The DELETE: the rows that are there when it runs, those read before or not.
Cleared(q) == Current(q.of)

Clear(c) ==
    /\ edit[c].pc = "read"
    /\ IF Current(edit[c].of) = Absent THEN Leaves(c)
       ELSE edit' = [edit EXCEPT ![c] = [pc |-> "cleared", of |-> edit[c].of, was |-> edit[c].was,
                                         rows |-> Cleared(edit[c]), saw |-> Current(edit[c].of),
                                         new |-> edit[c].new]]
    /\ UNCHANGED <<grants, works, edits, blended>>

\* The INSERT and the commit: a row that has come in between is one too many for the key,
\* and the whole replacement is rolled back.
Replace(c) ==
    LET q    == edit[c]
        x    == q.of
        kept == Current(x) \ q.rows
    IN  /\ q.pc = "cleared"
        /\ Leaves(c)
        /\ IF Current(x) = Absent \/ kept \cap q.new # {}
           THEN UNCHANGED <<grants, works, blended>>
           ELSE /\ IF x \in Workers THEN /\ works' = [works EXCEPT ![x] = kept \cup q.new]
                                         /\ UNCHANGED grants
                                    ELSE /\ grants' = [grants EXCEPT ![x] = kept \cup q.new]
                                         /\ UNCHANGED works
                /\ blended' = IF kept # {} THEN blended \cup {x} ELSE blended \ {x}
        /\ UNCHANGED edits

RoleRollback(c) ==
    /\ edit[c].pc # "idle" /\ Leaves(c)
    /\ UNCHANGED <<grants, works, edits, blended>>

RolesNext ==
    \/ \E c \in RoleRequests :
          \/ OperationalEnsure(c) \/ RoleCreateCommit(c) \/ Clear(c) \/ Replace(c) \/ RoleRollback(c)
          \/ \E r \in Names, P \in SUBSET Permissions : RoleCreateBegin(c, r, P) \/ PermissionsBegin(c, r, P)
          \/ \E u \in Workers, R \in SUBSET Operational : WorkBegin(c, u, R) \/ WorkPut(c, u, R)
    \/ \E r \in Names, inUse \in BOOLEAN : DeleteRole(r, inUse) \/ HardDeleteRole(r, inUse)

RolesSpec == RolesInit /\ [][RolesNext]_roleVars

-----------------------------------------------------------------------------
(* Properties.                                                              *)

\* A replacement leaves the set that it was asked for, or what it did not see has been
\* committed between its DELETE and its INSERT.
SetAsAsked ==
    \A c \in RoleRequests :
        (edit[c].pc = "cleared" /\ edit'[c].pc = "idle" /\ <<grants, works>>' # <<grants, works>>) =>
            LET x == edit[c].of
            IN  \/ (IF x \in Workers THEN works'[x] ELSE grants'[x]) = edit[c].new
                \/ (x \in blended' /\ edit[c].saw # Current(x))

ReplacedAsAsked == [][SetAsAsked]_roleVars

-----------------------------------------------------------------------------
(* What a comment of the code says, and the code does not do.               *)

\* models.py:710 "System roles cannot be deleted and have minimum permissions.": the hard
\* deletion of a role looks neither at its flag nor at its name.
SystemRoleStays == grants["system_admin"] # Absent
=============================================================================
