------------------------------- MODULE Accounts ------------------------------
(***************************************************************************)
(* The accounts of the system console: api/system.py (users) and           *)
(* api/admin.py.                                                           *)
(*                                                                         *)
(* A request reads the account and, before it takes an administrator away, *)
(* counts the others; its commit writes the columns that it has changed in *)
(* the row it has read.  Requests overlap.  The token is all that          *)
(* authenticates a caller: an inactive account still acts.                 *)
(***************************************************************************)
EXTENDS Naturals, FiniteSets

CONSTANTS
    People,             \* the rows of users there may be
    InitialAccounts,    \* the accounts there may be at the start
    AdminRequests,      \* requests in flight
    LegacyForms,        \* the bodies of PATCH /users/{id} that are tried
    MaxRequests         \* bound: the number of requests

Roles == {"system_admin", "team_admin", "member"}
SystemRoles == {"system_admin", "default", "admin"}    \* the rows of roles with is_system
NoAccount == [role |-> "none"]
Account == [admin : BOOLEAN, active : BOOLEAN, banned : BOOLEAN, deleted : BOOLEAN, role : Roles]

ASSUME AccountsAssumption ==
    /\ InitialAccounts \subseteq [People -> Account \cup {NoAccount}]
    /\ \A f \in LegacyForms : /\ DOMAIN f \subseteq {"active", "admin", "role"}
                            /\ \A k \in DOMAIN f : f[k] \in IF k = "role" THEN Roles ELSE BOOLEAN
    /\ MaxRequests \in Nat

VARIABLES
    account,    \* account[p]: the row of users
    assigned,   \* assigned[p]: the rows of user_roles with a system role
    desk,       \* desk[c]: what request c has read and is about to write
    asked,      \* the number of requests so far
    unsynced    \* history: accounts seeded or created so, or written by a legacy form or an overlap

accountVars == <<account, assigned, desk, asked, unsynced>>

AtRestDesk == [pc |-> "idle"]
Exists(p)  == account[p] # NoAccount

AccountsTypeOK ==
    /\ account \in [People -> Account \cup {NoAccount}]
    /\ assigned \in [People -> SUBSET SystemRoles]
    /\ \A c \in AdminRequests : desk[c].pc \in {"idle", "commit"}
    /\ asked \in 0..MaxRequests /\ unsynced \subseteq People

Agree(u) == u.admin <=> u.role = "system_admin"
\* An account and its rows of user_roles agree.
RolesMatch(u, rows) == Agree(u) /\ Cardinality(rows) <= 1

\* The administrator of seed_default_data has the flag, and the role of a member by default.
AccountsInit ==
    /\ account \in InitialAccounts
    /\ assigned = [p \in People |-> {}]
    /\ desk = [c \in AdminRequests |-> AtRestDesk]
    /\ asked = 0 /\ unsynced = {p \in People : Exists(p) /\ ~RolesMatch(account[p], {})}

-----------------------------------------------------------------------------
(* Who may ask, and what the guards look at.                                *)

\* require_system_admin looks at the flag, require_permission at the flag and at the role.
Console(p) == Exists(p) /\ ~account[p].banned /\ account[p].admin
Bans(p)    == Exists(p) /\ ~account[p].banned /\ (account[p].admin \/ account[p].role = "system_admin")
Manages(p) == Bans(p) \/ (Exists(p) /\ ~account[p].banned /\ account[p].role = "team_admin")

ActiveAdmins == {p \in People : Exists(p) /\ account[p].admin /\ account[p].active}

\* Mutant: the count includes the administrator who is taken away.
OthersWithHim(p) == ActiveAdmins
\* ensure_not_last_admin: the administrators who would remain.
Others(p) == ActiveAdmins \ {p}

\* A request of a for p: refused by its guards, or on its way to the commit of `want'.
\* A request that changes nothing answers at once.
Asks(c, a, p, kind, want, guards, counts) ==
    /\ desk[c].pc = "idle" /\ asked < MaxRequests
    /\ asked' = asked + 1
    /\ guards /\ (counts => Others(p) # {}) /\ want # account[p]
    /\ desk' = [desk EXCEPT ![c] = [pc |-> "commit", kind |-> kind, on |-> p, was |-> account[p],
                                    want |-> want, counted |-> ActiveAdmins, role |-> {}]]
    /\ UNCHANGED <<account, assigned, unsynced>>

-----------------------------------------------------------------------------
(* The requests.                                                            *)

\* PATCH /users/{id}/deactivate, and /status with active = false.
Deactivate(c, a, p) ==
    /\ Manages(a) /\ Exists(p)
    /\ Asks(c, a, p, "deactivate", [account[p] EXCEPT !.active = FALSE], a # p, account[p].admin)

\* DELETE /system/users/{id}.
SoftDelete(c, a, p) ==
    /\ Manages(a) /\ Exists(p)
    /\ Asks(c, a, p, "delete", [account[p] EXCEPT !.active = FALSE, !.deleted = TRUE],
            a # p, account[p].admin)

\* /users/{id}/restore; /status with active = true restores a deleted account alike.
Restore(c, a, p) ==
    /\ Manages(a) /\ Exists(p)
    /\ Asks(c, a, p, "restore",
            [account[p] EXCEPT !.active = TRUE, !.deleted = FALSE, !.banned = FALSE], TRUE, FALSE)

\* /users/{id}/activate leaves deleted_at as it is; /status does so for one not deleted.
Activate(c, a, p) ==
    /\ Manages(a) /\ Exists(p)
    /\ Asks(c, a, p, "activate", [account[p] EXCEPT !.active = TRUE], TRUE, FALSE)

\* POST /system/users/{id}/ban and /unban: no guard.
Ban(c, a, p, b) ==
    /\ Console(a) /\ Exists(p)
    /\ Asks(c, a, p, "ban", [account[p] EXCEPT !.banned = b], TRUE, FALSE)

\* The ban and the deletion of api/admin.py spare administrators and the caller.
AdminBan(c, a, p) ==
    /\ Bans(a) /\ Exists(p)
    /\ Asks(c, a, p, "ban", [account[p] EXCEPT !.banned = TRUE], a # p /\ ~account[p].admin, FALSE)

AdminDelete(c, a, p) ==
    /\ Manages(a) /\ Exists(p)
    /\ Asks(c, a, p, "delete", [account[p] EXCEPT !.active = FALSE, !.deleted = TRUE, !.banned = TRUE],
            a # p /\ ~account[p].admin, FALSE)

\* PUT /admin/users/{id} writes is_active unguarded.  A role in its body is looked up in the
\* model of user_roles, not in the enumeration, and fails.
AdminPut(c, a, p, b) ==
    /\ Manages(a) /\ Exists(p)
    /\ Asks(c, a, p, "put", [account[p] EXCEPT !.active = b], TRUE, FALSE)

\* PATCH /users/{id}/admin.
Promoted(u) == IF u.admin THEN u ELSE [u EXCEPT !.admin = TRUE, !.role = "system_admin"]
Demoted(u) == [u EXCEPT !.admin = FALSE,
                        !.role = IF u.admin /\ u.role = "system_admin" THEN "member" ELSE u.role]

SetAdmin(c, a, p, b) ==
    /\ Console(a) /\ Exists(p)
    /\ Asks(c, a, p, "admin", IF b THEN Promoted(account[p]) ELSE Demoted(account[p]),
            b \/ a # p, ~b /\ account[p].admin)

\* PATCH /users/{id}/role: the guards are those of the role, the flag follows.
SetRole(c, a, p, r) ==
    LET leaves == account[p].role = "system_admin" /\ r # "system_admin"
    IN  /\ Console(a) /\ Exists(p) /\ account[p].role # r
        /\ Asks(c, a, p, "role", [account[p] EXCEPT !.role = r, !.admin = (r = "system_admin")],
                leaves => a # p, leaves)

\* PATCH /users/{id}: any of the three columns; a promotion writes the role as well.
LegacyUpdate(c, a, p, f) ==
    LET u == account[p]
        given(k) == k \in DOMAIN f
        takes == (given("active") /\ ~f.active) \/ (given("admin") /\ ~f.admin)
        role  == IF given("role") THEN f.role
                 ELSE IF given("admin") /\ f.admin /\ ~u.admin THEN "system_admin" ELSE u.role
    IN  /\ Console(a) /\ Exists(p)
        /\ Asks(c, a, p, "legacy",
                [u EXCEPT !.active = IF given("active") THEN f.active ELSE u.active,
                          !.admin  = IF given("admin") THEN f.admin ELSE u.admin,
                          !.role   = role],
                ~(a = p /\ given("admin") /\ ~f.admin), takes /\ u.admin)

\* PATCH /users/{id}/assign-role: replaces the system role in user_roles and writes flag
\* and role; it fails for good on an account that has two.
AssignRole(c, a, p, r) ==
    LET top == r = "system_admin"
    IN  /\ Console(a) /\ Exists(p)
        /\ desk[c].pc = "idle" /\ asked < MaxRequests
        /\ asked' = asked + 1
        /\ account[p].admin /\ ~top => Others(p) # {}
        /\ Cardinality(assigned[p]) <= 1 /\ r \notin assigned[p]
        /\ desk' = [desk EXCEPT ![c] =
               [pc |-> "commit", kind |-> "assign", on |-> p, was |-> account[p], role |-> {r},
                want |-> [account[p] EXCEPT !.admin = top, !.role = IF top THEN r ELSE "member"],
                counted |-> ActiveAdmins, old |-> assigned[p]]]
        /\ UNCHANGED <<account, assigned, unsynced>>

\* DELETE /admin/hard-delete/user/{id}.
HardDelete(c, a, p) ==
    /\ Console(a) /\ Exists(p)
    /\ Asks(c, a, p, "erase", NoAccount, a # p, TRUE)

\* A row of users and its rows of user_roles: the unique columns make of a second one an
\* error, and its id is new.
NewAccount(p, u, rows) ==
    /\ ~Exists(p) /\ asked < MaxRequests
    /\ \A c \in AdminRequests : desk[c].pc = "commit" => desk[c].on # p
    /\ asked' = asked + 1
    /\ account' = [account EXCEPT ![p] = u]
    /\ assigned' = [assigned EXCEPT ![p] = rows]
    /\ unsynced' = IF RolesMatch(u, rows) THEN unsynced \ {p} ELSE unsynced \cup {p}
    /\ UNCHANGED desk

\* POST /system/users: the flag is asked for, the role is that of the flag or else of the name r
\* of the role asked for, and the row of the operational role "admin" may come beside r's: two
\* such rows break the key if they are the same.
RoleOf(b, r) ==
    IF b THEN "system_admin" ELSE IF r = "admin" THEN "team_admin"
    ELSE IF r \in Roles THEN r ELSE "member"

CreateUser(a, p, b, active, r, asAdmin) ==
    /\ Console(a) /\ (asAdmin => r # "admin")
    /\ NewAccount(p, [admin |-> b, active |-> active, banned |-> FALSE, deleted |-> FALSE, role |-> RoleOf(b, r)],
                   (IF asAdmin THEN {r, "admin"} ELSE {r}) \cap SystemRoles)

\* POST /auth/register: no row of user_roles.  POST /admin/users fails: it looks its role up in
\* the model of user_roles as well.
Register(p) ==
    NewAccount(p, [admin |-> FALSE, active |-> TRUE, banned |-> FALSE, deleted |-> FALSE, role |-> "member"], {})

-----------------------------------------------------------------------------
(* The commit.                                                              *)

\* The UPDATE has the columns that differ from what was read.
Merged(u, was, want) == [k \in DOMAIN u |-> IF want[k] # was[k] THEN want[k] ELSE u[k]]

Stale(q) == q.was # account[q.on] \/ (q.kind = "assign" /\ q.old # assigned[q.on])

AdminCommit(c) ==
    LET q == desk[c]
        p == q.on
    IN  /\ q.pc = "commit"
        /\ desk' = [desk EXCEPT ![c] = AtRestDesk]
        /\ IF ~Exists(p) \/ q.role \cap (assigned[p] \ (IF q.kind = "assign" THEN q.old ELSE {})) # {}
           THEN UNCHANGED <<account, assigned, unsynced>>
           ELSE IF q.want = NoAccount
           THEN /\ account' = [account EXCEPT ![p] = NoAccount]
                /\ assigned' = [assigned EXCEPT ![p] = {}]
                /\ unsynced' = unsynced \ {p}
           ELSE /\ account' = [account EXCEPT ![p] = Merged(account[p], q.was, q.want)]
                /\ assigned' = [assigned EXCEPT ![p] =
                                  (@ \ (IF q.kind = "assign" THEN q.old ELSE {})) \cup q.role]
                /\ unsynced' = IF q.kind = "legacy" \/ Stale(q)
                               THEN unsynced \cup {p} ELSE unsynced
        /\ UNCHANGED asked

\* The server stops, or an answer is never written: the session is rolled back.
AdminRollback(c) ==
    /\ desk[c].pc = "commit"
    /\ desk' = [desk EXCEPT ![c] = AtRestDesk]
    /\ UNCHANGED <<account, assigned, asked, unsynced>>

AccountsNext ==
    \/ \E c \in AdminRequests, a, p \in People :
          \/ Deactivate(c, a, p) \/ SoftDelete(c, a, p) \/ Restore(c, a, p) \/ Activate(c, a, p)
          \/ AdminBan(c, a, p) \/ AdminDelete(c, a, p) \/ HardDelete(c, a, p)
          \/ \E b \in BOOLEAN : Ban(c, a, p, b) \/ AdminPut(c, a, p, b) \/ SetAdmin(c, a, p, b)
          \/ \E r \in Roles : SetRole(c, a, p, r)
          \/ \E r \in SystemRoles : AssignRole(c, a, p, r)
          \/ \E f \in LegacyForms : LegacyUpdate(c, a, p, f)
    \/ \E a, p \in People, b, active, asAdmin \in BOOLEAN, r \in Roles \cup SystemRoles :
          CreateUser(a, p, b, active, r, asAdmin)
    \/ \E p \in People : Register(p)
    \/ \E c \in AdminRequests : AdminCommit(c) \/ AdminRollback(c)

AccountsSpec == AccountsInit /\ [][AccountsNext]_accountVars

-----------------------------------------------------------------------------
(* Properties.                                                              *)

\* The system loses its last active administrator only through what has no guard (PUT
\* /admin/users, and a new role for an administrator whose role is not system_admin), or
\* because accounts have changed between the count and the commit.
LeftUncounted ==
    ActiveAdmins # {} /\ ActiveAdmins' = {} =>
        \E c \in AdminRequests :
           /\ desk[c].pc = "commit" /\ desk'[c].pc = "idle"
           /\ \/ desk[c].kind = "put"
              \/ (desk[c].kind = "role" /\ desk[c].was.role # "system_admin")
              \/ Stale(desk[c])
              \/ desk[c].counted # ActiveAdmins

LastAdminGoesUncounted == [][LeftUncounted]_accountVars

\* The flag and the role of an account agree, and it has one system role, unless it was seeded
\* or created otherwise, or a legacy form or overlapping requests have written it.
RolesAgree ==
    \A p \in People : Exists(p) /\ p \notin unsynced => RolesMatch(account[p], assigned[p])

\* The roles of an account, and the administrators there are, go wrong in these ways only.
AccountsExplained == []RolesAgree /\ LastAdminGoesUncounted

-----------------------------------------------------------------------------
(* What a comment of the code says, and the code does not do.               *)

\* system.py:18 "Last-admin protection across role changes": there is always an active
\* system administrator.  The one of seed_default_data, or one whom the legacy form has made member,
\* has the flag without the role, and a change of role then takes it without a count.
LastAdminStays == ActiveAdmins # {}
=============================================================================
